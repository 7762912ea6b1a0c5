---------------------------- MODULE PromoterProofs ----------------------------
(* Proofs about the incident promoter.  Detectors, for any cells, posts,   *)
(* thresholds and windows: the two layers that refuse a silenced burst     *)
(* agree, and a cell whose cluster this process opened stays ignited.      *)
(* ClusterStore and PromoterRestart, for every set of bursts, incidents    *)
(* and callers: StoreInv is inductive within one lifetime of the process,  *)
(* RestartInv over any number of restarts, one lemma per action.           *)
EXTENDS PromoterRestart, Detectors, NaturalsInduction, WellFoundedInduction, TLAPS

-------------------------------------------------------------------------------
(* The detectors: what a detector and the store keep of a key.             *)

IsWindow(w) == w = [times |-> w.times, ignited |-> w.ignited]

DetectorTypes ==
  /\ now \in Nat
  /\ bucket = [c \in Cells |-> bucket[c]] /\ \A c \in Cells : IsWindow(bucket[c])
  /\ DOMAIN centroid \subseteq Posts
  /\ suppressed \in [HitKeys -> Nat] /\ storeCooldown \in [HitKeys -> Nat]
  /\ storeCluster \in [HitKeys -> {"none", "open", "promoted", "terminal"}] /\ ours \subseteq HitKeys

\* A key with a cluster is not in cooldown: the cooldown begins when the cluster goes, and
\* a hit waits for its end.
NoClusterInCooldown ==
  \A k \in HitKeys : storeCluster[k] # "none" => storeCooldown[k] <= now

\* The create that is under way is for an ignited cell without a cluster, whatever is
\* silenced, swept and promoted until it returns.
HitInv ==
  /\ hit.act = "update" => hit.key \in HitKeys
  /\ hit.act = "create" =>
       /\ hit.key \in HitKeys /\ storeCluster[hit.key] = "none" /\ storeCooldown[hit.key] <= now
       /\ hit.key \in Cells => bucket[hit.key].ignited

DetectorInv ==
  /\ DetectorTypes
  /\ LayersAgree
  /\ OpenCellStaysIgnited
  /\ NoClusterInCooldown
  /\ HitInv

-------------------------------------------------------------------------------
(* The detectors: signals.                                                 *)

\* A window is pruned, grows by the signal, and stays ignited.
LEMMA AccumulatedIs ==
  ASSUME NEW w, IsWindow(w)
  PROVE  IsWindow(Accumulated(w)) /\ (w.ignited => Accumulated(w).ignited)
  <1> DEFINE times == Append(InWindow(w.times), now)
             burst == w.ignited \/ Len(times) >= MinHits
  <1>1. Accumulated(w) = [w EXCEPT !.times = times, !.ignited = burst]
    BY DEF Accumulated
  <1> HIDE DEF times, burst
  <1>2. Accumulated(w) = [times |-> times, ignited |-> burst]
    BY <1>1 DEF IsWindow
  <1>3. w.ignited => burst
    BY DEF burst
  <1> QED BY <1>2, <1>3 DEF IsWindow

\* A signal that is not suppressed clears the suppression of its key, and is handed on if
\* the window is ignited and the key not in cooldown.
LEMMA HandKeeps ==
  ASSUME DetectorInv, NEW key \in HitKeys, NEW w, ~Suppresses(key), Unsuppressed(key), Hand(key, w),
         DOMAIN centroid' \subseteq Posts,
         bucket' = IF key \in Cells THEN [bucket EXCEPT ![key] = w] ELSE bucket,
         key \in Cells => IsWindow(w) /\ (bucket[key].ignited => w.ignited),
         UNCHANGED now, hit = NoHit
  PROVE  DetectorInv'
  <1>1. suppressed' \in [HitKeys -> Nat] /\ suppressed' = [suppressed EXCEPT ![key] = 0]
    BY DEF Unsuppressed, DetectorInv, DetectorTypes
  <1>2. now \in Nat /\ ~(now < storeCooldown[key]) /\ storeCooldown[key] \in Nat
    BY DEF DetectorInv, DetectorTypes, LayersAgree, Suppresses
  <1>3. /\ storeCooldown' \in [HitKeys -> Nat] /\ \A k \in HitKeys \ {key} : storeCooldown'[k] = storeCooldown[k]
        /\ storeCooldown'[key] \in {0, storeCooldown[key]}
    BY DEF Hand, storeVars, DetectorInv, DetectorTypes
  <1>0. UNCHANGED <<storeCluster, ours>>
    BY DEF Hand, storeVars
  <1>4. DetectorTypes'
    BY <1>0, <1>1, <1>3 DEF DetectorInv, DetectorTypes
  <1>5. LayersAgree'
    BY <1>1, <1>2, <1>3 DEF DetectorInv, DetectorTypes, LayersAgree
  <1>6. \A c \in Cells : bucket[c].ignited => bucket'[c].ignited
    BY DEF DetectorInv, DetectorTypes
  <1>7. OpenCellStaysIgnited'
    BY <1>0, <1>6 DEF DetectorInv, OpenCellStaysIgnited
  <1>8. NoClusterInCooldown'
    BY <1>0, <1>2, <1>3 DEF DetectorInv, NoClusterInCooldown
  <1>9. HitInv'
    <2>1. CASE hit' = hit
      BY <2>1 DEF HitInv, NoHit
    <2>2. CASE hit' # hit
      <3>1. /\ w.ignited /\ storeCooldown' = [storeCooldown EXCEPT ![key] = 0]
            /\ hit'.key = key /\ (hit'.act = "create" => storeCluster[key] = "none")
        BY <2>2 DEF Hand, storeVars
      <3>2. storeCooldown'[key] = 0
        BY <3>1 DEF DetectorInv, DetectorTypes
      <3>3. key \in Cells => bucket'[key].ignited
        BY <3>1 DEF DetectorInv, DetectorTypes
      <3> QED BY <1>0, <1>2, <3>1, <3>2, <3>3 DEF HitInv
    <2> QED BY <2>1, <2>2
  <1> QED BY <1>4, <1>5, <1>7, <1>8, <1>9 DEF DetectorInv

\* A step without effect on what the invariant speaks of.
LEMMA Untouched ==
  ASSUME DetectorInv, UNCHANGED <<now, bucket, centroid, suppressed, storeCooldown, storeCluster, ours>>,
         hit' = hit \/ hit' = NoHit
  PROVE  DetectorInv'
  <1>1. hit' = hit \/ hit'.act = "none"
    BY DEF NoHit
  <1> QED BY <1>1 DEF DetectorInv, DetectorTypes, LayersAgree, OpenCellStaysIgnited, NoClusterInCooldown,
                      HitInv

LEMMA CellKeeps ==
  ASSUME DetectorInv, NEW c \in Cells, CellSignal(c)
  PROVE  DetectorInv'
  <1>1. c \in HitKeys /\ hit = NoHit /\ UNCHANGED now
    BY DEF HitKeys, CellSignal, Arrives
  <1>2. CASE Suppresses(c)
    BY <1>1, <1>2, Untouched DEF CellSignal, windowVars, storeVars
  <1>3. CASE ~Suppresses(c)
    <2>1. /\ Unsuppressed(c) /\ bucket' = [bucket EXCEPT ![c] = Accumulated(bucket[c])]
          /\ Hand(c, Accumulated(bucket[c])) /\ centroid' = centroid
      BY <1>3 DEF CellSignal
    <2>2. IsWindow(Accumulated(bucket[c])) /\ (bucket[c].ignited => Accumulated(bucket[c]).ignited)
      BY AccumulatedIs DEF DetectorInv, DetectorTypes
    <2>3. DOMAIN centroid' \subseteq Posts
      BY <2>1 DEF DetectorInv, DetectorTypes
    <2> QED BY <1>1, <1>3, <2>1, <2>2, <2>3, HandKeeps
  <1> QED BY <1>2, <1>3

\* The post joins a centroid or starts one: no cell is concerned.
LEMMA PostKeeps ==
  ASSUME DetectorInv, NEW p \in Posts, PostMatches(p) \/ PostStarts(p)
  PROVE  DetectorInv'
  <1>1. hit = NoHit /\ UNCHANGED now
    BY DEF PostMatches, PostStarts, Arrives
  <1>2. CASE UNCHANGED <<windowVars, storeVars, tableVars>>
    BY <1>1, <1>2, Untouched DEF windowVars, storeVars
  <1>3. ASSUME NEW key \in Posts, NEW w, NEW c, NEW cs, ~Suppresses(key), Unsuppressed(key), Hand(key, w),
               cs = With(centroid, key, c), centroid' = cs \/ centroid' \in Evicted(cs),
               UNCHANGED bucket
        PROVE  DetectorInv'
    <2>1. DOMAIN cs \subseteq Posts
      BY <1>3 DEF With, DetectorInv, DetectorTypes
    <2>2. DOMAIN centroid' \subseteq Posts
      BY <1>3, <2>1 DEF Evicted
    <2>3. key \in HitKeys /\ key \notin Cells
      BY DetectorsAssumption DEF HitKeys, DetectorsAssumption
    <2> QED BY <1>1, <1>3, <2>2, <2>3, HandKeeps
  <1>4. CASE PostMatches(p)
    <2>1. PICK k \in BestMatches(p) :
            IF Suppresses(k) THEN UNCHANGED <<windowVars, storeVars, tableVars>>
            ELSE LET c == Widened(centroid[k], p)
                     w == Accumulated(c.window)
                 IN  /\ Unsuppressed(k)
                     /\ centroid' = With(centroid, k, [c EXCEPT !.window = w])
                     /\ Hand(k, w)
                     /\ UNCHANGED bucket
      BY <1>4 DEF PostMatches
    <2>2. k \in Posts
      BY DEF BestMatches, DetectorInv, DetectorTypes
    <2>3. CASE Suppresses(k)
      BY <1>2, <2>1, <2>3
    <2>4. CASE ~Suppresses(k)
      BY <1>3, <2>1, <2>2, <2>4
    <2> QED BY <2>3, <2>4
  <1>5. CASE PostStarts(p)
    <2>1. CASE Suppresses(p)
      BY <1>2, <1>5, <2>1 DEF PostStarts
    <2>2. CASE ~Suppresses(p)
      BY <1>3, <1>5, <2>2 DEF PostStarts
    <2> QED BY <2>1, <2>2
  <1> QED BY <1>4, <1>5

LEMMA CreateKeeps ==
  ASSUME DetectorInv, CreateReturns
  PROVE  DetectorInv'
  <1>1. /\ hit.act = "create" /\ hit' = NoHit /\ UNCHANGED <<now, bucket, centroid, suppressed, storeCooldown>>
    BY DEF CreateReturns, windowVars
  <1>2. CASE UNCHANGED <<storeCluster, ours>>
    BY <1>1, <1>2, Untouched
  <1>3. ASSUME NEW outcome \in {"open", "promoted", "terminal"},
               storeCluster' = [storeCluster EXCEPT ![hit.key] = outcome], ours' = ours \cup {hit.key}
        PROVE  DetectorInv'
    <2>1. hit.key \in HitKeys /\ storeCooldown[hit.key] <= now /\ (hit.key \in Cells => bucket[hit.key].ignited)
      BY <1>1 DEF DetectorInv, HitInv
    <2>2. DetectorTypes'
      BY <1>1, <1>3, <2>1 DEF DetectorInv, DetectorTypes
    <2>3. LayersAgree' /\ OpenCellStaysIgnited'
      BY <1>1, <1>3, <2>1 DEF DetectorInv, LayersAgree, OpenCellStaysIgnited
    <2>4. NoClusterInCooldown'
      BY <1>1, <1>3, <2>1 DEF DetectorInv, DetectorTypes, NoClusterInCooldown
    <2>5. HitInv'
      BY <1>1 DEF HitInv, NoHit
    <2> QED BY <2>2, <2>3, <2>4, <2>5 DEF DetectorInv
  <1> QED BY <1>2, <1>3 DEF CreateReturns

-------------------------------------------------------------------------------
(* The detectors: the end of a cluster, time and restarts.                 *)

\* A cluster goes with the suppression of its cell set and, with a silence, the cooldown
\* as well; there is no create under way for it.
LEMMA GoneKeeps ==
  ASSUME DetectorInv, NEW key \in HitKeys, NEW until \in Nat, Dropped(key, until),
         \/ until = 0 /\ storeCooldown' = storeCooldown
         \/ storeCooldown' = [storeCooldown EXCEPT ![key] = until],
         UNCHANGED now, hit' = hit \/ hit' = NoHit
  PROVE  DetectorInv'
  <1>1. /\ storeCluster[key] # "none" /\ storeCluster' = [storeCluster EXCEPT ![key] = "none"] /\ ours' = ours \ {key}
        /\ UNCHANGED now /\ (hit' = hit \/ hit'.act = "none")
    BY DEF Dropped, NoHit
  <1>2. Terminated(key, until)
    BY DEF Dropped
  <1>3. /\ suppressed' = [suppressed EXCEPT ![key] = until]
        /\ DOMAIN centroid' \subseteq DOMAIN centroid
        /\ \A c \in Cells \ {key} : bucket'[c] = bucket[c]
    BY <1>2 DEF Terminated, DetectorInv, DetectorTypes
  <1>4. /\ storeCooldown[key] <= now /\ now \in Nat /\ storeCooldown' \in [HitKeys -> Nat]
        /\ \A k \in HitKeys \ {key} : storeCooldown'[k] = storeCooldown[k]
        /\ storeCooldown'[key] = until \/ (until = 0 /\ storeCooldown'[key] <= now)
    BY <1>1, <1>2 DEF DetectorInv, DetectorTypes, NoClusterInCooldown
  <1>5. bucket' = [c \in Cells |-> bucket'[c]] /\ \A c \in Cells : IsWindow(bucket'[c])
    <2>1. IsWindow(EmptyWindow)
      BY DEF IsWindow, EmptyWindow
    <2> QED BY <1>2, <2>1 DEF Terminated, DetectorInv, DetectorTypes
  <1>6. DetectorTypes'
    BY <1>1, <1>3, <1>4, <1>5 DEF DetectorInv, DetectorTypes, IsWindow
  <1>7. LayersAgree'
    <2>1. suppressed'[key] = until /\ \A k \in HitKeys \ {key} : suppressed'[k] = suppressed[k]
      BY <1>3 DEF DetectorInv, DetectorTypes
    <2>2. (now < suppressed'[key] \/ now < storeCooldown'[key]) => suppressed'[key] = storeCooldown'[key]
      BY <1>4, <2>1
    <2>3. \A k \in HitKeys : (now < suppressed'[k] \/ now < storeCooldown'[k]) => suppressed'[k] = storeCooldown'[k]
      BY <1>4, <2>1, <2>2 DEF DetectorInv, LayersAgree
    <2> QED BY <1>1, <2>3 DEF LayersAgree
  <1>8. OpenCellStaysIgnited'
    BY <1>1, <1>3 DEF DetectorInv, OpenCellStaysIgnited
  <1>9. NoClusterInCooldown'
    BY <1>1, <1>4 DEF DetectorInv, DetectorTypes, NoClusterInCooldown
  <1>10. HitInv'
    BY <1>1, <1>3, <1>4 DEF DetectorInv, DetectorTypes, HitInv
  <1> QED BY <1>6, <1>7, <1>8, <1>9, <1>10 DEF DetectorInv

LEMMA SilenceKeeps ==
  ASSUME DetectorInv, NEW key \in HitKeys, Silence(key)
  PROVE  DetectorInv'
  <1>1. now + Cooldown \in Nat
    BY DetectorsAssumption DEF DetectorsAssumption, DetectorInv, DetectorTypes
  <1> QED BY <1>1, GoneKeeps DEF Silence

LEMMA SweepKeeps ==
  ASSUME DetectorInv, NEW key \in HitKeys, SweepDrops(key)
  PROVE  DetectorInv'
  BY GoneKeeps DEF SweepDrops

LEMMA ObservedKeeps ==
  ASSUME DetectorInv, NEW key \in HitKeys, ObservedEnd(key), UNCHANGED <<now, storeCooldown>>,
         hit' = hit \/ hit' = NoHit
  PROVE  DetectorInv'
  <1>1. PICK end \in {"promoted", "terminal"} : storeCluster' = [storeCluster EXCEPT ![key] = end]
    BY DEF ObservedEnd
  <1>2. storeCluster[key] = "open" /\ UNCHANGED <<bucket, centroid, suppressed, ours>>
    BY DEF ObservedEnd, windowVars
  <1>3. hit' = hit \/ hit'.act = "none"
    BY DEF NoHit
  <1> QED BY <1>1, <1>2, <1>3 DEF DetectorInv, DetectorTypes, LayersAgree, OpenCellStaysIgnited, NoClusterInCooldown,
                                  HitInv

\* Whatever the update finds: an open cluster, one that is gone or ended, or nothing.
LEMMA UpdateKeeps ==
  ASSUME DetectorInv, UpdateReturns
  PROVE  DetectorInv'
  <1>1. hit' = NoHit /\ UNCHANGED <<now, storeCooldown>>
    BY DEF UpdateReturns
  <1>2. CASE UpdateApplied \/ UpdateFailed
    BY <1>1, <1>2, Untouched DEF UpdateApplied, UpdateFailed, windowVars
  <1>3. CASE hit.key \in HitKeys /\ UpdateLost
    BY <1>1, <1>3, GoneKeeps DEF UpdateLost
  <1>4. CASE hit.key \in HitKeys /\ UpdateLate
    BY <1>1, <1>4, ObservedKeeps DEF UpdateLate
  <1> QED BY <1>2, <1>3, <1>4 DEF UpdateReturns, DetectorInv, HitInv

\* What is past stays past.
LEMMA TimeKeeps ==
  ASSUME DetectorInv, TimePasses
  PROVE  DetectorInv'
  <1>1. now' = now + 1 /\ UNCHANGED <<bucket, centroid, suppressed, storeCluster, ours, storeCooldown, hit>>
    BY DEF TimePasses, windowVars, storeVars
  <1>2. now \in Nat /\ \A k \in HitKeys : suppressed[k] \in Nat /\ storeCooldown[k] \in Nat
    BY DEF DetectorInv, DetectorTypes
  <1>3. DetectorTypes'
    BY <1>1, <1>2 DEF DetectorInv, DetectorTypes
  <1>4. LayersAgree' /\ OpenCellStaysIgnited'
    BY <1>1, <1>2 DEF DetectorInv, LayersAgree, OpenCellStaysIgnited
  <1>5. NoClusterInCooldown' /\ HitInv'
    BY <1>1, <1>2 DEF DetectorInv, NoClusterInCooldown, HitInv
  <1> QED BY <1>3, <1>4, <1>5 DEF DetectorInv

LEMMA DetectorRestartKeeps ==
  ASSUME DetectorInv, Restarts
  PROVE  DetectorInv'
  <1>1. /\ bucket' = [c \in Cells |-> EmptyWindow] /\ centroid' = <<>> /\ now' = now
        /\ suppressed' = [k \in HitKeys |-> 0] /\ storeCooldown' = [k \in HitKeys |-> 0]
        /\ storeCluster' \in [HitKeys -> {"none", "open", "promoted"}]
        /\ ours' = {} /\ hit' = NoHit
    BY DEF Restarts
  <1>2. now \in Nat /\ IsWindow(EmptyWindow)
    BY DEF DetectorInv, DetectorTypes, IsWindow, EmptyWindow
  <1>3. DetectorTypes'
    BY <1>1, <1>2 DEF DetectorTypes
  <1>4. LayersAgree' /\ OpenCellStaysIgnited' /\ NoClusterInCooldown' /\ HitInv'
    BY <1>1, <1>2 DEF LayersAgree, OpenCellStaysIgnited, NoClusterInCooldown, HitInv, NoHit
  <1> QED BY <1>3, <1>4 DEF DetectorInv

-------------------------------------------------------------------------------
(* The detectors: the theorems.                                            *)

LEMMA DetectorInitInv ==
  ASSUME DetectorsInit
  PROVE  DetectorInv
  <1>1. IsWindow(EmptyWindow)
    BY DEF IsWindow, EmptyWindow
  <1>2. DetectorTypes
    BY <1>1 DEF DetectorsInit, DetectorTypes
  <1> QED BY <1>2 DEF DetectorsInit, DetectorInv, LayersAgree, OpenCellStaysIgnited, NoClusterInCooldown, HitInv,
                      NoHit

LEMMA DetectorNextKeeps ==
  ASSUME DetectorInv, [DetectorsNext]_detectorVars
  PROVE  DetectorInv'
  <1>1. CASE UNCHANGED detectorVars
    BY <1>1, Untouched DEF detectorVars, windowVars, storeVars
  <1>2. CASE \E k \in HitKeys : Silence(k) \/ SweepDrops(k) \/ EndIsSeen(k)
    BY <1>2, SilenceKeeps, SweepKeeps, ObservedKeeps DEF EndIsSeen
  <1> QED BY <1>1, <1>2, CellKeeps, PostKeeps, CreateKeeps, UpdateKeeps, TimeKeeps, DetectorRestartKeeps
          DEF DetectorsNext

\* For any cells, posts, thresholds and windows.
THEOREM DetectorInvariant == DetectorsSpec => []DetectorInv
  BY DetectorInitInv, DetectorNextKeeps, PTL DEF DetectorsSpec

\* Detector (_suppressed_until) and store (_cooldowns) refuse a silenced key until the
\* same moment, through drops, hits under way, expiry and restarts.
THEOREM LayersAlwaysAgree == DetectorsSpec => []LayersAgree
  <1>1. DetectorInv => LayersAgree
    BY DEF DetectorInv
  <1> QED BY <1>1, DetectorInvariant, PTL

\* A cell whose cluster this process opened is ignited until on_cluster_terminated.
THEOREM OpenCellAlwaysIgnited == DetectorsSpec => []OpenCellStaysIgnited
  <1>1. DetectorInv => OpenCellStaysIgnited
    BY DEF DetectorInv
  <1> QED BY <1>1, DetectorInvariant, PTL

-------------------------------------------------------------------------------
(* The store: one lifetime of the process.                                  *)

USE StoreAssumption
USE DEF dbVars, pendingVars

\* An id is never NoId.
LEMMA IdIsSome == NoId \notin Ids
  BY DEF NoId

\* The state of a tracked cluster, as the lemmas below use it.
LEMMA TrackedType ==
  ASSUME StoreInv, NEW k \in Keys, cluster[k] # NoCluster
  PROVE  /\ cluster[k].id \in Ids
         /\ KeyOf[cluster[k].id] = k
         /\ cluster[k].id \in byId
         /\ pending[k] = NoId
         /\ cooldown[k] # "active"
  BY DEF StoreInv, MapsInverse, PendingInv, CooldownInv

LEMMA InitInv == Init => StoreInv
  <1> SUFFICES ASSUME Init PROVE StoreInv
    OBVIOUS
  <1>1. PICK F \in SUBSET Live(status) :
          cluster = [k \in Keys |-> Rehydrated(k, Live(status), F)]
    BY DEF Init
  <1>2. ASSUME NEW k \in Keys, cluster[k] # NoCluster
        PROVE  /\ cluster[k].id \in Ids
               /\ cluster[k].id \in Live(status)
               /\ KeyOf[cluster[k].id] = k
               /\ cluster[k].status = status[cluster[k].id]
               /\ cluster[k] \in ClusterState
    <2> DEFINE own == {i \in Live(status) : KeyOf[i] = k}
               i == CHOOSE j \in own : TRUE
    <2>1. own # {}
      BY <1>1, <1>2 DEF Rehydrated
    <2>2. i \in own
      BY <2>1
    <2>3. cluster[k] = [id |-> i, status |-> StoreStatus(status[i]), fresh |-> i \in F]
      BY <1>1, <2>1 DEF Rehydrated
    <2> HIDE DEF i
    <2>4. i \in Ids /\ status[i] \in {"open", "promoted"} /\ KeyOf[i] = k
      BY <2>2 DEF Live
    <2>5. StoreStatus(status[i]) = status[i]
      BY <2>4 DEF StoreStatus
    <2>6. (i \in F) \in BOOLEAN
      OBVIOUS
    <2> QED
      BY <2>2, <2>3, <2>4, <2>5, <2>6 DEF ClusterState
  <1>3. ASSUME NEW i \in Live(status)
        PROVE  cluster[KeyOf[i]].id = i
    <2>1. i \in Ids /\ KeyOf[i] \in Keys
      BY DEF Live
    <2> DEFINE own == {j \in Live(status) : KeyOf[j] = KeyOf[i]}
    <2>2. own # {} /\ \A j \in own : j = i
      BY <2>1 DEF Init, Live
    <2>3. (CHOOSE j \in own : TRUE) = i
      BY <2>2
    <2> QED
      BY <1>1, <2>1, <2>2, <2>3 DEF Rehydrated
  <1>4. TypeOK
    <2>1. ASSUME NEW k \in Keys PROVE cluster[k] \in ClusterState
      <3>1. CASE cluster[k] = NoCluster
        BY <3>1 DEF ClusterState, NoCluster, NoId
      <3>2. CASE cluster[k] # NoCluster
        BY <1>2, <3>2
      <3> QED
        BY <3>1, <3>2
    <2>2. cluster \in [Keys -> ClusterState]
      BY <1>1, <2>1
    <2>3. task \in [Handlers -> Task]
      BY DEF Init, Task, Idle, NoId, DbStatus
    <2>4. sweep \in SweepState
      BY DEF Init, SweepState, NoSweep, NoId
    <2>5. status \in [Ids -> DbStatus] /\ byId \in SUBSET Ids
      BY DEF Init, Live
    <2> QED
      BY <2>2, <2>3, <2>4, <2>5 DEF Init, TypeOK, NoId, Events
  <1>5. MapsInverse
    <2>1. ASSUME NEW i \in Ids PROVE i \in byId <=> cluster[KeyOf[i]].id = i
      <3>1. CASE cluster[KeyOf[i]] = NoCluster
        BY <1>3, <3>1, IdIsSome DEF Init, NoCluster
      <3>2. CASE cluster[KeyOf[i]] # NoCluster
        BY <1>2, <1>3, <3>2 DEF Init
      <3> QED
        BY <3>1, <3>2
    <2> QED
      BY <1>2, <2>1 DEF MapsInverse, Live
  <1>6. ClusterInv
    <2> SUFFICES ASSUME NEW k \in Keys, cluster[k] # NoCluster
                 PROVE  \/ /\ cluster[k].status = "open"
                           /\ status[cluster[k].id] # "absent"
                           /\ lastEvent[cluster[k].id] \notin EndEvents
                        \/ /\ cluster[k].status \in {"promoted", "terminal"}
                           /\ status[cluster[k].id] \in Past
      BY DEF ClusterInv
    <2>1. status[cluster[k].id] \in {"open", "promoted"}
      BY <1>2 DEF Live
    <2> QED
      BY <1>2, <2>1 DEF Past, Ended, Init, EndEvents
  <1>7. OpenIsOwned
    BY <1>3 DEF OpenIsOwned, Live
  <1>8. PendingInv /\ CooldownInv /\ AnswerInv /\ EventInv
    BY DEF Init, PendingInv, CooldownInv, AnswerInv, EventInv, EndEvents
  <1>9. TaskInv /\ CreateExclusive
    BY DEF Init, TaskInv, CreateExclusive, Idle
  <1>10. SweepInv
    BY DEF Init, SweepInv, NoSweep
  <1> QED
    BY <1>4, <1>5, <1>6, <1>7, <1>8, <1>9, <1>10 DEF StoreInv

-------------------------------------------------------------------------------
(* What the parts of StoreInv need of a step.                              *)

\* A step of the table: incidents end, or the one incident whose create is pending opens.
TableStep ==
  /\ status' \in [Ids -> DbStatus]
  /\ \A i \in Ids : \/ status'[i] = status[i]
                    \/ status'[i] \in Past
                    \/ /\ status[i] = "absent" /\ status'[i] = "open"
                       /\ pending[KeyOf[i]] = i

LEMMA TableStepStable ==
  ASSUME TableStep, NEW i \in Ids
  PROVE  /\ status[i] \in Past => status'[i] \in Past
         /\ status[i] # "absent" => status'[i] # "absent"
         /\ \A r : TrueReply(i, r) => TrueReply(i, r)'
  <1>1. /\ status[i] \in Past => status'[i] \in Past
        /\ status[i] # "absent" => status'[i] # "absent"
    BY DEF TableStep, Past, Ended
  <1> QED
    BY <1>1 DEF TrueReply

LEMMA TableStepKeeps ==
  ASSUME StoreInv, TableStep, UNCHANGED <<cluster, pending, lastEvent>>
  PROVE  /\ ClusterInv' /\ OpenIsOwned' /\ EventInv'
         /\ UNCHANGED task => TaskInv'
         /\ UNCHANGED answer => AnswerInv'
         /\ UNCHANGED <<answer, sweep>> => SweepInv'
  <1>1. ClusterInv'
    <2> SUFFICES ASSUME NEW k \in Keys, cluster[k] # NoCluster
                 PROVE  (\/ /\ cluster[k].status = "open"
                            /\ status[cluster[k].id] # "absent"
                            /\ lastEvent[cluster[k].id] \notin EndEvents
                         \/ /\ cluster[k].status \in {"promoted", "terminal"}
                            /\ status[cluster[k].id] \in Past)'
      BY DEF ClusterInv
    <2>1. cluster[k].id \in Ids
      BY TrackedType
    <2> QED
      BY <2>1, TableStepStable DEF StoreInv, ClusterInv
  <1>2. OpenIsOwned'
    BY DEF StoreInv, OpenIsOwned, TableStep, Past, Ended
  <1>3. EventInv'
    BY TableStepStable DEF StoreInv, EventInv
  <1>4. ASSUME UNCHANGED task PROVE TaskInv'
    BY <1>4, TableStepStable DEF StoreInv, TaskInv
  <1>5. ASSUME UNCHANGED answer PROVE AnswerInv'
    BY <1>5, TableStepStable DEF StoreInv, AnswerInv
  <1>6. ASSUME UNCHANGED <<answer, sweep>> PROVE SweepInv'
    <2>1. sweep.open \subseteq Ids /\ sweep.rest \subseteq Ids
            /\ (sweep.closing # NoId => sweep.closing \in Ids)
      BY DEF StoreInv, TypeOK, SweepState
    <2> QED
      BY <1>6, <2>1, TableStepStable DEF StoreInv, SweepInv
  <1> QED
    BY <1>1, <1>2, <1>3, <1>4, <1>5, <1>6

\* The answer of the database has reached a caller of handle().
LEMMA AnsweredTask ==
  ASSUME TypeOK, NEW w \in Handlers, NEW a \in {"created", "updated"},
         NEW r \in DbStatus \cup {"none", "error"},
         task' = [task EXCEPT ![w].at = a, ![w].reply = r]
  PROVE  /\ task' \in [Handlers -> Task]
         /\ \A v \in Handlers \ {w} : task'[v] = task[v]
         /\ task'[w].at = a /\ task'[w].reply = r
         /\ task'[w].inc = task[w].inc /\ task'[w].holds = task[w].holds
  <1>1. task[w] \in Task /\ a \in {"idle", "creating", "created", "updating", "updated"}
    BY DEF TypeOK
  <1>2. task'[w] = [task[w] EXCEPT !.at = a, !.reply = r]
    BY DEF TypeOK
  <1>3. ASSUME NEW t \in Task
        PROVE  LET u == [t EXCEPT !.at = a, !.reply = r]
               IN  /\ u \in Task
                   /\ u.at = a /\ u.reply = r /\ u.inc = t.inc /\ u.holds = t.holds
    BY <1>1 DEF Task
  <1>4. \A v \in Handlers \ {w} : task'[v] = task[v]
    BY DEF TypeOK
  <1>5. task' \in [Handlers -> Task]
    BY <1>1, <1>2, <1>3, <1>4 DEF TypeOK
  <1> QED
    BY <1>1, <1>2, <1>3, <1>4, <1>5

\* What TaskInv and CreateExclusive ask of the step of one caller.
LEMMA AnsweredTaskInv ==
  ASSUME StoreInv, TableStep, NEW w \in Handlers,
         NEW inc, inc = task[w].inc, NEW r, r = task'[w].reply, TrueReply(inc, r)',
         UNCHANGED <<pending, reserving>>,
         \A v \in Handlers \ {w} : task'[v] = task[v],
         task'[w].inc = task[w].inc, task'[w].holds = task[w].holds,
         \/ task[w].at = "creating" /\ task'[w].at = "created"
         \/ task[w].at \in {"updating", "updated"} /\ task'[w].at = "updated"
  PROVE  TaskInv' /\ CreateExclusive'
  <1>1. CreateExclusive'
    BY DEF StoreInv, CreateExclusive
  <1>2. TaskInv'
    <2> SUFFICES ASSUME NEW v \in Handlers
                 PROVE  LET i == task[v].inc IN
           (/\ task[v].at # "idle" => i \in Ids
            /\ task[v].holds => task[v].at # "idle"
            /\ task[v].at \in {"creating", "created"} => task[v].holds /\ pending[KeyOf[i]] = i
            /\ task[v].at \in {"updating", "updated"} => status[i] # "absent"
            /\ task[v].at \in {"created", "updated"} => TrueReply(i, task[v].reply))'
      BY DEF TaskInv
    <2>1. CASE v = w
      <3>1. task[w].inc \in Ids /\ task[w].at \in {"creating", "updating", "updated"}
        BY DEF StoreInv, TaskInv
      <3>2. task[w].at = "creating" => task[w].holds /\ pending[KeyOf[task[w].inc]] = task[w].inc
        BY DEF StoreInv, TaskInv
      <3>3. task[w].at # "creating" => status'[task[w].inc] # "absent"
        BY <3>1, TableStepStable DEF StoreInv, TaskInv
      <3> QED
        BY <2>1, <3>1, <3>2, <3>3 DEF TrueReply
    <2>2. CASE v # w
      BY <2>2, TableStepStable DEF StoreInv, TaskInv
    <2> QED
      BY <2>1, <2>2
  <1> QED
    BY <1>1, <1>2

LEMMA NoClusterFacts ==
  NoCluster \in ClusterState /\ NoCluster.id = NoId /\ NoCluster.status = "none"
  BY DEF NoCluster, ClusterState

\* c is a later map of the same clusters: it may have forgotten those whose incident
\* has ended, and may call such a cluster ended; every other keeps its id and status.
Moves(c) ==
  /\ c \in [Keys -> ClusterState]
  /\ \A k \in Keys :
       \/ c[k] = NoCluster /\ (cluster[k] = NoCluster \/ status[cluster[k].id] \in Past)
       \/ /\ cluster[k] # NoCluster /\ c[k] # NoCluster /\ c[k].id = cluster[k].id
          /\ \/ c[k].status = cluster[k].status
             \/ c[k].status \in {"promoted", "terminal"} /\ status[cluster[k].id] \in Past

\* byId' is the inverse of cluster'.
Mapped(c) == {i \in Ids : c[KeyOf[i]].id = i}

LEMMA MovesKeeps ==
  ASSUME StoreInv, Moves(cluster'), byId' = Mapped(cluster'), UNCHANGED <<status, pending>>
  PROVE  /\ MapsInverse' /\ OpenIsOwned'
         /\ (\A k \in Keys : cooldown'[k] = "active" => cooldown[k] = "active")
              => PendingInv' /\ CooldownInv'
         /\ (\A k \in Keys : cluster'[k].status = "open"
                               => lastEvent'[cluster'[k].id] \notin EndEvents) => ClusterInv'
  <1>1. MapsInverse'
    <2>1. ASSUME NEW k \in Keys, cluster'[k] # NoCluster
          PROVE  cluster'[k].id \in Ids /\ KeyOf[cluster'[k].id] = k
      BY <2>1, TrackedType DEF Moves
    <2>2. \A i \in Ids : KeyOf[i] \in Keys
      OBVIOUS
    <2> QED
      BY <2>1, <2>2 DEF MapsInverse, Mapped
  <1>2. OpenIsOwned'
    <2> SUFFICES ASSUME NEW i \in Ids, status[i] = "open", pending[KeyOf[i]] # i
                 PROVE  cluster'[KeyOf[i]].id = i
      BY DEF OpenIsOwned
    <2>1. cluster[KeyOf[i]].id = i /\ KeyOf[i] \in Keys
      BY DEF StoreInv, OpenIsOwned
    <2>2. cluster[KeyOf[i]] # NoCluster
      BY <2>1, IdIsSome, NoClusterFacts
    <2> QED
      BY <2>1, <2>2 DEF Moves, Past, Ended
  <1>3. ASSUME \A k \in Keys : cooldown'[k] = "active" => cooldown[k] = "active"
        PROVE  PendingInv' /\ CooldownInv'
    BY <1>3 DEF StoreInv, PendingInv, CooldownInv, Moves
  <1>4. ASSUME \A k \in Keys : cluster'[k].status = "open"
                                 => lastEvent'[cluster'[k].id] \notin EndEvents
        PROVE  ClusterInv'
    BY <1>4 DEF StoreInv, ClusterInv, Moves
  <1> QED
    BY <1>1, <1>2, <1>3, <1>4

LEMMA MovesRefl == ASSUME StoreInv PROVE Moves(cluster) /\ byId = Mapped(cluster)
  <1>1. Moves(cluster)
    BY DEF Moves, StoreInv, TypeOK
  <1>2. byId \subseteq Ids /\ \A i \in Ids : i \in byId <=> cluster[KeyOf[i]].id = i
    BY DEF StoreInv, TypeOK, MapsInverse
  <1> QED
    BY <1>1, <1>2 DEF Mapped

\* Forgetting clusters whose incidents have ended.
LEMMA WithoutMoves ==
  ASSUME StoreInv, NEW c, Moves(c), \A k \in Keys : c[k].id = cluster[k].id,
         NEW S \in SUBSET Ids, \A i \in S : status[i] \in Past
  PROVE  Moves(Without(c, S)) /\ Unmapped(c, S) = Mapped(Without(c, S))
  <1>1. Without(c, S) \in [Keys -> ClusterState]
    BY NoClusterFacts DEF Moves, Without
  <1>2. ASSUME NEW k \in Keys, c[k].id \in S
        PROVE  cluster[k] # NoCluster /\ status[cluster[k].id] \in Past
    BY <1>2, NoClusterFacts, IdIsSome
  <1>3. Moves(Without(c, S))
    BY <1>1, <1>2 DEF Moves, Without
  <1>4. ASSUME NEW i \in Ids
        PROVE  i \in Unmapped(c, S) <=> Without(c, S)[KeyOf[i]].id = i
    BY <1>4, IdIsSome, NoClusterFacts DEF Unmapped, Without, StoreInv, MapsInverse
  <1>5. Unmapped(c, S) \subseteq Ids
    BY DEF Unmapped, StoreInv, TypeOK
  <1> QED
    BY <1>3, <1>4, <1>5 DEF Mapped

\* Taking over the end that the database has reported.
LEMMA SyncedMoves ==
  ASSUME StoreInv, NEW i \in Ids, NEW s, s \in Ended => status[i] \in Past
  PROVE  /\ Moves(Synced(cluster, i, s))
         /\ \A k \in Keys : Synced(cluster, i, s)[k].id = cluster[k].id
  <1>1. CASE ~(i \in byId /\ cluster[KeyOf[i]] # NoCluster /\ s \in Ended)
    BY <1>1, MovesRefl DEF Synced
  <1>2. CASE i \in byId /\ cluster[KeyOf[i]] # NoCluster /\ s \in Ended
    <2> DEFINE k == KeyOf[i]
               c == Synced(cluster, i, s)
    <2>1. k \in Keys /\ cluster[k].id = i /\ cluster[k] \in ClusterState
      BY <1>2 DEF StoreInv, MapsInverse, TypeOK
    <2>2. StoreStatus(s) \in {"promoted", "terminal"}
      BY <1>2 DEF StoreStatus, Ended
    <2>3. c = [cluster EXCEPT ![k].status = StoreStatus(s)]
      BY <1>2 DEF Synced
    <2> HIDE DEF k, c
    <2>5. c[k] = [cluster[k] EXCEPT !.status = StoreStatus(s)]
            /\ \A q \in Keys \ {k} : c[q] = cluster[q]
      BY <2>1, <2>3 DEF StoreInv, TypeOK
    <2>6. c[k] \in ClusterState /\ c[k].status = StoreStatus(s) /\ c[k].id = i
      BY <2>1, <2>2, <2>5 DEF ClusterState
    <2>7. c \in [Keys -> ClusterState]
      BY <2>3, <2>5, <2>6 DEF StoreInv, TypeOK
    <2>8. c[k] # NoCluster /\ cluster[k] # NoCluster
      BY <2>1, <2>2, <2>6, NoClusterFacts, IdIsSome
    <2>9. Moves(c) /\ \A q \in Keys : c[q].id = cluster[q].id
      BY <1>2, <2>1, <2>2, <2>5, <2>6, <2>7, <2>8 DEF Moves
    <2> QED
      BY <2>9 DEF c
  <1> QED
    BY <1>1, <1>2

\* A step that touches the timestamp of a tracked cluster.
LEMMA FreshMoves ==
  ASSUME StoreInv, NEW k \in Keys, cluster[k] # NoCluster, NEW b \in BOOLEAN,
         cluster' = [cluster EXCEPT ![k].fresh = b]
  PROVE  /\ Moves(cluster')
         /\ \A q \in Keys : cluster'[q].id = cluster[q].id /\ cluster'[q].status = cluster[q].status
  <1>1. cluster[k] \in ClusterState /\ cluster'[k] = [cluster[k] EXCEPT !.fresh = b]
          /\ \A q \in Keys \ {k} : cluster'[q] = cluster[q]
    BY DEF StoreInv, TypeOK
  <1>2. /\ cluster'[k] \in ClusterState
        /\ cluster'[k].status = cluster[k].status /\ cluster'[k].id = cluster[k].id
    BY <1>1 DEF ClusterState
  <1>3. cluster' \in [Keys -> ClusterState]
    BY <1>1, <1>2 DEF StoreInv, TypeOK
  <1>4. cluster'[k] # NoCluster
    BY <1>2, TrackedType, NoClusterFacts, IdIsSome
  <1> QED
    BY <1>1, <1>2, <1>3, <1>4 DEF Moves

-------------------------------------------------------------------------------
(* handle(): the decision.                                                 *)

LEMMA AdmitsCooldown ==
  ASSUME TypeOK, NEW w \in Handlers, NEW k \in Keys, Admits(w, k)
  PROVE  /\ cooldown' \in [Keys -> {"none", "active", "expired"}]
         /\ \A q \in Keys : cooldown'[q] = "active" => cooldown[q] = "active"
         /\ cooldown'[k] = "none"
  BY DEF TypeOK, Admits

LEMMA RaceDroppedInv ==
  ASSUME StoreInv, NEW w \in Handlers, NEW k \in Keys, RaceDropped(w, k)
  PROVE  StoreInv'
  <1>1. TypeOK'
    BY AdmitsCooldown DEF StoreInv, TypeOK, RaceDropped
  <1>2. PendingInv' /\ CooldownInv'
    BY AdmitsCooldown DEF StoreInv, PendingInv, CooldownInv, RaceDropped
  <1>3. (MapsInverse /\ ClusterInv /\ OpenIsOwned /\ AnswerInv /\ EventInv)'
    BY DEF RaceDropped, StoreInv, MapsInverse, ClusterInv, OpenIsOwned, AnswerInv, EventInv
  <1>4. (TaskInv /\ CreateExclusive /\ SweepInv)'
    BY DEF RaceDropped, StoreInv, TaskInv, TrueReply, CreateExclusive, SweepInv
  <1> QED
    BY <1>1, <1>2, <1>3, <1>4 DEF StoreInv

LEMMA AbsorbInv ==
  ASSUME StoreInv, NEW w \in Handlers, NEW k \in Keys, Absorb(w, k)
  PROVE  StoreInv'
  <1>1. cluster[k] # NoCluster
    BY NoClusterFacts DEF Absorb
  <1>2. /\ Moves(cluster')
        /\ \A q \in Keys : cluster'[q].id = cluster[q].id /\ cluster'[q].status = cluster[q].status
    BY <1>1, FreshMoves DEF Absorb
  <1>3. byId' = Mapped(cluster')
    BY <1>2, MovesRefl DEF Absorb, Mapped
  <1>4. TypeOK'
    BY <1>2, AdmitsCooldown DEF StoreInv, TypeOK, Absorb, Moves
  <1>5. ASSUME NEW q \in Keys, cluster'[q].status = "open"
        PROVE  lastEvent'[cluster'[q].id] \notin EndEvents
    BY <1>2, <1>5, NoClusterFacts DEF Absorb, StoreInv, ClusterInv
  <1>6. (MapsInverse /\ ClusterInv /\ PendingInv /\ CooldownInv /\ OpenIsOwned)'
    BY <1>2, <1>3, <1>5, MovesKeeps, AdmitsCooldown DEF Absorb, StoreInv
  <1>7. (TaskInv /\ CreateExclusive /\ SweepInv /\ AnswerInv /\ EventInv)'
    BY DEF Absorb, StoreInv, TaskInv, TrueReply, CreateExclusive, SweepInv, AnswerInv, EventInv
  <1> QED
    BY <1>4, <1>6, <1>7 DEF StoreInv

LEMMA StartUpdateInv ==
  ASSUME StoreInv, NEW w \in Handlers, NEW k \in Keys, StartUpdate(w, k)
  PROVE  StoreInv'
  <1> DEFINE t == [at |-> "updating", inc |-> cluster[k].id, reply |-> "none", left |-> 0,
                   holds |-> FALSE]
  <1>1. cluster[k] # NoCluster /\ cluster[k].id \in Ids
    BY NoClusterFacts, TrackedType DEF StartUpdate
  <1>2. status[cluster[k].id] # "absent"
    BY <1>1 DEF StartUpdate, StoreInv, ClusterInv
  <1>3. task'[w] = t /\ \A v \in Handlers \ {w} : task'[v] = task[v]
    BY DEF StartUpdate, StoreInv, TypeOK
  <1>4. t \in Task
    BY <1>1 DEF Task
  <1>5. TypeOK'
    BY <1>3, <1>4, AdmitsCooldown DEF StoreInv, TypeOK, StartUpdate
  <1>6. PendingInv' /\ CooldownInv'
    BY AdmitsCooldown DEF StoreInv, PendingInv, CooldownInv, StartUpdate
  <1>7. TaskInv'
    BY <1>1, <1>2, <1>3 DEF StoreInv, TaskInv, TrueReply, StartUpdate
  <1>8. CreateExclusive'
    BY <1>3 DEF StoreInv, CreateExclusive, StartUpdate
  <1>9. (MapsInverse /\ ClusterInv /\ OpenIsOwned /\ SweepInv /\ AnswerInv /\ EventInv)'
    BY DEF StartUpdate, StoreInv, MapsInverse, ClusterInv, OpenIsOwned, SweepInv, AnswerInv,
           EventInv
  <1> QED
    BY <1>5, <1>6, <1>7, <1>8, <1>9 DEF StoreInv

LEMMA StartCreateInv ==
  ASSUME StoreInv, NEW w \in Handlers, NEW k \in Keys, StartCreate(w, k)
  PROVE  StoreInv'
  <1> DEFINE i == pending'[k]
             t == [at |-> "creating", inc |-> i, reply |-> "none", left |-> 0, holds |-> TRUE]
  <1>1. /\ pending' \in [Keys -> Ids \cup {NoId}]
        /\ \A q \in Keys \ {k} : pending'[q] = pending[q]
        /\ pending[k] # NoId => pending'[k] = pending[k]
        /\ i \in Ids /\ KeyOf[i] = k
    BY DEF StartCreate, Unused, StoreInv, TypeOK, PendingInv
  <1>2. deferred' \in [Keys -> 0 .. MaxDeferred]
    <2>1. ASSUME deferred[k] < MaxDeferred PROVE deferred[k] + 1 \in 0 .. MaxDeferred
      BY <2>1 DEF StoreInv, TypeOK
    <2> QED
      BY <2>1 DEF StartCreate, StoreInv, TypeOK
  <1>3. task' = [task EXCEPT ![w] = t]
    BY DEF StartCreate
  <1> HIDE DEF i
  <1>4. t \in Task /\ t.inc = i /\ t.at = "creating" /\ t.holds
    BY <1>1 DEF Task
  <1> HIDE DEF t
  <1>5. task' \in [Handlers -> Task] /\ task'[w] = t /\ \A v \in Handlers \ {w} : task'[v] = task[v]
    BY <1>3, <1>4 DEF StoreInv, TypeOK
  <1>6. reserving' = reserving \cup {k} /\ k \notin reserving /\ cluster[k] = NoCluster
    BY DEF StartCreate
  <1>7. TypeOK'
    BY <1>1, <1>2, <1>5, <1>6, AdmitsCooldown DEF StoreInv, TypeOK, StartCreate
  <1>8. PendingInv' /\ CooldownInv'
    BY <1>1, <1>6, AdmitsCooldown DEF StoreInv, PendingInv, CooldownInv, StartCreate, i
  <1>9. OpenIsOwned'
    BY <1>1, <1>6, IdIsSome, NoClusterFacts DEF StoreInv, OpenIsOwned, StartCreate
  <1>10. ASSUME NEW v \in Handlers \ {w}, task[v].holds
         PROVE  KeyOf[task[v].inc] \in Keys \ {k}
    BY <1>6, <1>10 DEF StoreInv, TaskInv, CreateExclusive
  <1>11. TaskInv'
    BY <1>1, <1>4, <1>5, <1>10 DEF StoreInv, TaskInv, TrueReply, StartCreate, i
  <1>12. CreateExclusive'
    BY <1>1, <1>4, <1>5, <1>6, <1>10 DEF StoreInv, CreateExclusive
  <1>13. (MapsInverse /\ ClusterInv /\ SweepInv /\ AnswerInv /\ EventInv)'
    BY DEF StartCreate, StoreInv, MapsInverse, ClusterInv, SweepInv, AnswerInv, EventInv
  <1> QED
    BY <1>7, <1>8, <1>9, <1>11, <1>12, <1>13 DEF StoreInv

-------------------------------------------------------------------------------
(* handle(): the database, and the failed create.                          *)

LEMMA CreateReplies ==
  ASSUME StoreInv, NEW w \in Handlers, task[w].at = "creating",
         NEW i, i = task[w].inc,
         status' = status \/ status' = [status EXCEPT ![i] = IF @ = "absent" THEN "open" ELSE @],
         UNCHANGED pending
  PROVE  TableStep /\ i \in Ids
  <1>1. i \in Ids /\ pending[KeyOf[i]] = i
    BY DEF StoreInv, TaskInv
  <1>2. CASE status' = status
    BY <1>1, <1>2 DEF TableStep, StoreInv, TypeOK
  <1>3. CASE status' = [status EXCEPT ![i] = IF @ = "absent" THEN "open" ELSE @]
    BY <1>1, <1>3 DEF TableStep, StoreInv, TypeOK, DbStatus
  <1> QED
    BY <1>1, <1>2, <1>3

LEMMA CreateIncidentInv ==
  ASSUME StoreInv, NEW w \in Handlers, CreateIncident(w)
  PROVE  StoreInv'
  <1>1. PICK i \in Ids : i = task[w].inc /\ TableStep
    BY CreateReplies DEF CreateIncident
  <1>2. PICK r \in DbStatus : r = status'[i] /\ r # "absent"
    BY <1>1 DEF TableStep, CreateIncident, StoreInv, TypeOK
  <1>3. TrueReply(i, r)'
    BY <1>2 DEF TrueReply, DbStatus, Past
  <1>4. task' = [task EXCEPT ![w].at = "created", ![w].reply = r]
    BY <1>1, <1>2 DEF CreateIncident
  <1>5. /\ task' \in [Handlers -> Task] /\ \A v \in Handlers \ {w} : task'[v] = task[v]
        /\ task'[w].at = "created" /\ task'[w].reply = r
        /\ task'[w].inc = task[w].inc /\ task'[w].holds = task[w].holds
    BY <1>4, AnsweredTask DEF StoreInv
  <1>6. TypeOK'
    BY <1>1, <1>5 DEF StoreInv, TypeOK, CreateIncident, TableStep
  <1>7. (ClusterInv /\ OpenIsOwned /\ EventInv /\ AnswerInv /\ SweepInv)'
    BY <1>1, TableStepKeeps DEF CreateIncident
  <1>8. TaskInv' /\ CreateExclusive'
    BY <1>1, <1>3, <1>5, AnsweredTaskInv DEF CreateIncident
  <1>9. (MapsInverse /\ PendingInv /\ CooldownInv)'
    BY DEF CreateIncident, StoreInv, MapsInverse, PendingInv, CooldownInv
  <1> QED
    BY <1>6, <1>7, <1>8, <1>9 DEF StoreInv

LEMMA CreateRaisesInv ==
  ASSUME StoreInv, NEW w \in Handlers, CreateRaises(w)
  PROVE  StoreInv'
  <1>1. TableStep /\ task[w].inc \in Ids
    BY CreateReplies DEF CreateRaises
  <1>2. task' = [task EXCEPT ![w].at = "created", ![w].reply = "error"]
    BY DEF CreateRaises
  <1>3. /\ task' \in [Handlers -> Task] /\ \A v \in Handlers \ {w} : task'[v] = task[v]
        /\ task'[w].at = "created" /\ task'[w].reply = "error"
        /\ task'[w].inc = task[w].inc /\ task'[w].holds = task[w].holds
    BY <1>2, AnsweredTask DEF StoreInv
  <1>4. TypeOK'
    BY <1>1, <1>3 DEF StoreInv, TypeOK, CreateRaises, TableStep
  <1>5. (ClusterInv /\ OpenIsOwned /\ EventInv /\ AnswerInv /\ SweepInv)'
    BY <1>1, TableStepKeeps DEF CreateRaises
  <1>6. \A i : TrueReply(i, "error")'
    BY DEF TrueReply
  <1>7. TaskInv' /\ CreateExclusive'
    BY <1>1, <1>3, <1>6, AnsweredTaskInv DEF CreateRaises
  <1>8. (MapsInverse /\ PendingInv /\ CooldownInv)'
    BY DEF CreateRaises, StoreInv, MapsInverse, PendingInv, CooldownInv
  <1> QED
    BY <1>4, <1>5, <1>7, <1>8 DEF StoreInv

\* The steps that only bring a caller its answer.
LEMMA ReplyOnlyInv ==
  ASSUME StoreInv, NEW w \in Handlers, NEW i, i = task[w].inc,
         NEW r \in DbStatus \cup {"none", "error"}, TrueReply(i, r),
         task[w].at \in {"updating", "updated"},
         task' = [task EXCEPT ![w].at = "updated", ![w].reply = r],
         UNCHANGED <<dbVars, cluster, byId, reserving, pendingVars, cooldown, sweep, lastEvent>>
  PROVE  StoreInv'
  <1>1. TableStep
    BY DEF TableStep, StoreInv, TypeOK
  <1>2. /\ task' \in [Handlers -> Task] /\ \A v \in Handlers \ {w} : task'[v] = task[v]
        /\ task'[w].at = "updated" /\ task'[w].reply = r
        /\ task'[w].inc = task[w].inc /\ task'[w].holds = task[w].holds
    BY AnsweredTask DEF StoreInv
  <1>3. TypeOK'
    BY <1>2 DEF StoreInv, TypeOK
  <1>4. TrueReply(i, r)'
    BY DEF TrueReply
  <1>5. TaskInv' /\ CreateExclusive'
    BY <1>1, <1>2, <1>4, AnsweredTaskInv
  <1>6. (ClusterInv /\ OpenIsOwned /\ EventInv /\ AnswerInv /\ SweepInv)'
    BY <1>1, TableStepKeeps
  <1>7. (MapsInverse /\ PendingInv /\ CooldownInv)'
    BY DEF StoreInv, MapsInverse, PendingInv, CooldownInv
  <1> QED
    BY <1>3, <1>5, <1>6, <1>7 DEF StoreInv

LEMMA UpdatingIncident ==
  ASSUME StoreInv, NEW w \in Handlers, task[w].at \in {"updating", "updated"}
  PROVE  task[w].inc \in Ids /\ status[task[w].inc] \in DbStatus \ {"absent"}
  BY DEF StoreInv, TaskInv, TypeOK

LEMMA ApplySignalUpdateInv ==
  ASSUME StoreInv, NEW w \in Handlers, ApplySignalUpdate(w)
  PROVE  StoreInv'
  <1> DEFINE r == status[task[w].inc]
  <1>1. r \in DbStatus \ {"absent"} /\ task[w].inc \in Ids
    BY UpdatingIncident DEF ApplySignalUpdate
  <1>2. task' = [task EXCEPT ![w].at = "updated", ![w].reply = r]
    BY <1>1 DEF ApplySignalUpdate
  <1>3. TrueReply(task[w].inc, r)
    BY <1>1 DEF TrueReply, DbStatus, Past
  <1> QED
    BY <1>1, <1>2, <1>3, ReplyOnlyInv DEF ApplySignalUpdate

LEMMA UpdateRaisesInv ==
  ASSUME StoreInv, NEW w \in Handlers, UpdateRaises(w)
  PROVE  StoreInv'
  <1>1. TrueReply(task[w].inc, "error")
    BY DEF TrueReply
  <1> QED
    BY <1>1, ReplyOnlyInv DEF UpdateRaises

LEMMA UpdateReplayedInv ==
  ASSUME StoreInv, NEW w \in Handlers, UpdateReplayed(w)
  PROVE  StoreInv'
  <1> DEFINE r == status[task[w].inc]
  <1>1. r \in DbStatus \ {"absent"} /\ task[w].inc \in Ids
    BY UpdatingIncident DEF UpdateReplayed
  <1>2. task' = [task EXCEPT ![w].at = "updated", ![w].reply = r]
    BY DEF UpdateReplayed
  <1>3. TrueReply(task[w].inc, r)
    BY <1>1 DEF TrueReply, DbStatus, Past
  <1> QED
    BY <1>1, <1>2, <1>3, ReplyOnlyInv DEF UpdateReplayed

\* A caller that is done: idle again, its reservation given back if it held one.
LEMMA IdleTask ==
  Idle \in Task /\ Idle.at = "idle" /\ ~Idle.holds
  BY DEF Idle, Task

LEMMA CreateFailedInv ==
  ASSUME StoreInv, NEW w \in Handlers, CreateFailed(w)
  PROVE  StoreInv'
  <1>1. task' \in [Handlers -> Task] /\ task'[w] = Idle
          /\ \A v \in Handlers \ {w} : task'[v] = task[v]
    BY IdleTask DEF CreateFailed, StoreInv, TypeOK
  <1>2. TypeOK'
    BY <1>1 DEF StoreInv, TypeOK, CreateFailed
  <1>3. TaskInv'
    BY <1>1, IdleTask DEF StoreInv, TaskInv, TrueReply, CreateFailed
  <1>4. task[w].holds
    BY DEF StoreInv, TaskInv, CreateFailed
  <1>5. CreateExclusive'
    BY <1>1, <1>4, IdleTask DEF StoreInv, CreateExclusive, CreateFailed
  <1>6. (MapsInverse /\ ClusterInv /\ PendingInv /\ CooldownInv /\ OpenIsOwned)'
    BY DEF CreateFailed, StoreInv, MapsInverse, ClusterInv, PendingInv, CooldownInv, OpenIsOwned
  <1>7. (SweepInv /\ AnswerInv /\ EventInv)'
    BY DEF CreateFailed, StoreInv, SweepInv, AnswerInv, EventInv
  <1> QED
    BY <1>2, <1>3, <1>5, <1>6, <1>7 DEF StoreInv

-------------------------------------------------------------------------------
(* The sweeper's transactions, the analysts and the environment.           *)

LEMMA SweepType ==
  ASSUME TypeOK
  PROVE  /\ sweep.open \in SUBSET Ids /\ sweep.rest \in SUBSET Ids
         /\ sweep.closing \in Ids \cup {NoId}
         /\ sweep = [open |-> sweep.open, rest |-> sweep.rest, closing |-> sweep.closing,
                     reply |-> sweep.reply]
  BY DEF TypeOK, SweepState

\* One transaction of the sweeper on an incident of its snapshot.
LEMMA CloseStep ==
  ASSUME StoreInv, NEW i \in sweep.open,
         NEW r \in Ended \cup {"error", "applied", "deleted"},
         \/ status' = status
         \/ status' = [status EXCEPT ![i] = IF @ = "open" THEN "closed" ELSE @],
         r # "error" => status'[i] \in Past,
         r = "applied" => status[i] = "open",
         sweep' = [sweep EXCEPT !.open = @ \ {i}, !.closing = i, !.reply = r],
         UNCHANGED <<answer, cluster, byId, reserving, pendingVars, cooldown, task, lastEvent>>
  PROVE  StoreInv'
  <1>1. i \in Ids
    BY SweepType DEF StoreInv
  <1>2. TableStep
    <2>1. CASE status' = status
      BY <2>1 DEF TableStep, StoreInv, TypeOK
    <2>2. CASE status' = [status EXCEPT ![i] = IF @ = "open" THEN "closed" ELSE @]
      BY <1>1, <2>2 DEF TableStep, StoreInv, TypeOK, DbStatus, Past, Ended
    <2> QED
      BY <2>1, <2>2
  <1>3. /\ sweep' \in SweepState
        /\ sweep'.open = sweep.open \ {i} /\ sweep'.rest = sweep.rest
        /\ sweep'.closing = i /\ sweep'.reply = r
    BY <1>1 DEF StoreInv, TypeOK, SweepState
  <1>4. TypeOK'
    BY <1>2, <1>3 DEF StoreInv, TypeOK, TableStep
  <1>5. (ClusterInv /\ OpenIsOwned /\ EventInv /\ AnswerInv /\ TaskInv)'
    BY <1>2, TableStepKeeps
  <1>6. SweepInv'
    <2>1. \A j \in sweep'.open : status'[j] # "absent"
      BY <1>2, <1>3, TableStepStable, SweepType DEF StoreInv, SweepInv
    <2>2. \A j \in sweep'.rest : status'[j] \in Past
      BY <1>2, <1>3, TableStepStable, SweepType DEF StoreInv, SweepInv
    <2>3. r = "applied" => answer[i] = "none" /\ lastEvent[i] \notin EndEvents
      BY <1>1 DEF StoreInv, AnswerInv, EventInv, Past, Ended
    <2> QED
      BY <1>3, <2>1, <2>2, <2>3 DEF SweepInv
  <1>7. (MapsInverse /\ PendingInv /\ CooldownInv /\ CreateExclusive)'
    BY DEF StoreInv, MapsInverse, PendingInv, CooldownInv, CreateExclusive
  <1> QED
    BY <1>4, <1>5, <1>6, <1>7 DEF StoreInv

LEMMA CloseIncidentInv ==
  ASSUME StoreInv, NEW i \in Ids, CloseIncident(i)
  PROVE  StoreInv'
  <1>1. status[i] \in DbStatus /\ status[i] # "absent" /\ i \in sweep.open
    BY DEF StoreInv, TypeOK, SweepInv, CloseIncident
  <1>2. PICK r : r = CASE status[i] = "open" -> "applied"
                       [] status[i] = "absent" -> "deleted"
                       [] OTHER -> status[i]
    OBVIOUS
  <1>3. status' = [status EXCEPT ![i] = IF @ = "open" THEN "closed" ELSE @]
    BY DEF CloseIncident
  <1>4. r \in Ended \cup {"error", "applied", "deleted"} /\ (r = "applied" => status[i] = "open")
    BY <1>1, <1>2 DEF DbStatus, Ended
  <1>5. status'[i] \in Past
    BY <1>1, <1>3 DEF StoreInv, TypeOK, DbStatus, Past, Ended
  <1>6. sweep' = [sweep EXCEPT !.open = @ \ {i}, !.closing = i, !.reply = r]
    BY <1>2 DEF CloseIncident
  <1> QED
    BY <1>1, <1>3, <1>4, <1>5, <1>6, CloseStep DEF CloseIncident

LEMMA CloseRaisesInv ==
  ASSUME StoreInv, NEW i \in Ids, CloseRaises(i)
  PROVE  StoreInv'
  <1>1. PICK r \in {"error"} :
          sweep' = [sweep EXCEPT !.open = @ \ {i}, !.closing = i, !.reply = r]
    BY DEF CloseRaises
  <1>2. \/ status' = status
        \/ status' = [status EXCEPT ![i] = IF @ = "open" THEN "closed" ELSE @]
    BY DEF CloseRaises
  <1> QED
    BY <1>1, <1>2, CloseStep DEF CloseRaises

LEMMA AnalystDecidesInv ==
  ASSUME StoreInv, NEW i \in Ids, AnalystDecides(i)
  PROVE  StoreInv'
  <1>1. PICK s \in {"silenced", "promoted"} :
          status' = [status EXCEPT ![i] = s] /\ answer' = [answer EXCEPT ![i] = s]
    BY DEF AnalystDecides
  <1>2. TableStep
    BY <1>1 DEF TableStep, StoreInv, TypeOK, DbStatus, Past, Ended
  <1>3. TypeOK'
    BY <1>1, <1>2 DEF StoreInv, TypeOK, TableStep, AnalystDecides
  <1>4. (ClusterInv /\ OpenIsOwned /\ EventInv /\ TaskInv)'
    BY <1>2, TableStepKeeps DEF AnalystDecides
  <1>5. status[i] = "open" /\ status'[i] \in Past /\ lastEvent[i] \notin EndEvents
    BY <1>1 DEF AnalystDecides, StoreInv, TypeOK, EventInv, Past, Ended
  <1>6. \A j \in Ids \ {i} : answer'[j] = answer[j]
    BY <1>1 DEF StoreInv, TypeOK
  <1>7. AnswerInv'
    BY <1>2, <1>5, <1>6, TableStepStable DEF AnalystDecides, StoreInv, AnswerInv
  <1>8. SweepInv'
    <2>1. sweep.closing # NoId /\ sweep.reply = "applied" => sweep.closing \in Ids \ {i}
      BY <1>5, SweepType DEF StoreInv, SweepInv, Past, Ended
    <2>2. \A j \in sweep.open : status'[j] # "absent"
      BY <1>2, TableStepStable, SweepType DEF StoreInv, SweepInv
    <2>3. \A j \in sweep.rest : status'[j] \in Past
      BY <1>2, TableStepStable, SweepType DEF StoreInv, SweepInv
    <2>4. sweep.closing # NoId /\ sweep.reply # "error" => status'[sweep.closing] \in Past
      BY <1>2, TableStepStable, SweepType DEF StoreInv, SweepInv
    <2> QED
      BY <1>6, <2>1, <2>2, <2>3, <2>4 DEF AnalystDecides, StoreInv, SweepInv
  <1>9. (MapsInverse /\ PendingInv /\ CooldownInv /\ CreateExclusive)'
    BY DEF AnalystDecides, StoreInv, MapsInverse, PendingInv, CooldownInv, CreateExclusive
  <1> QED
    BY <1>3, <1>4, <1>7, <1>8, <1>9 DEF StoreInv

LEMMA AnalystAnswerLostInv ==
  ASSUME StoreInv, NEW i \in Ids, AnalystAnswerLost(i)
  PROVE  StoreInv'
  <1>1. answer' \in [Ids -> {"none", "silenced", "promoted"}]
          /\ \A j \in Ids : answer'[j] = "none" \/ answer'[j] = answer[j]
    BY DEF AnalystAnswerLost, StoreInv, TypeOK
  <1>2. TypeOK'
    BY <1>1 DEF StoreInv, TypeOK, AnalystAnswerLost
  <1>3. AnswerInv' /\ SweepInv'
    BY <1>1, SweepType DEF StoreInv, AnswerInv, SweepInv, AnalystAnswerLost
  <1>4. (MapsInverse /\ ClusterInv /\ PendingInv /\ CooldownInv /\ OpenIsOwned)'
    BY DEF AnalystAnswerLost, StoreInv, MapsInverse, ClusterInv, PendingInv, CooldownInv,
           OpenIsOwned
  <1>5. (TaskInv /\ CreateExclusive /\ EventInv)'
    BY DEF AnalystAnswerLost, StoreInv, TaskInv, TrueReply, CreateExclusive, EventInv
  <1> QED
    BY <1>2, <1>3, <1>4, <1>5 DEF StoreInv

LEMMA QuietElapsesInv ==
  ASSUME StoreInv, NEW k \in Keys, QuietElapses(k)
  PROVE  StoreInv'
  <1>1. cluster[k] # NoCluster
    BY DEF QuietElapses, NoCluster
  <1>2. /\ Moves(cluster')
        /\ \A q \in Keys : cluster'[q].id = cluster[q].id /\ cluster'[q].status = cluster[q].status
    BY <1>1, FreshMoves DEF QuietElapses
  <1>3. byId' = Mapped(cluster')
    BY <1>2, MovesRefl DEF QuietElapses, Mapped
  <1>4. TypeOK'
    BY <1>2 DEF StoreInv, TypeOK, QuietElapses, Moves
  <1>5. ASSUME NEW q \in Keys, cluster'[q].status = "open"
        PROVE  lastEvent'[cluster'[q].id] \notin EndEvents
    BY <1>2, <1>5, NoClusterFacts DEF QuietElapses, StoreInv, ClusterInv
  <1>6. (MapsInverse /\ ClusterInv /\ PendingInv /\ CooldownInv /\ OpenIsOwned)'
    BY <1>2, <1>3, <1>5, MovesKeeps DEF QuietElapses
  <1>7. (TaskInv /\ CreateExclusive /\ SweepInv /\ AnswerInv /\ EventInv)'
    BY DEF QuietElapses, StoreInv, TaskInv, TrueReply, CreateExclusive, SweepInv, AnswerInv,
           EventInv
  <1> QED
    BY <1>4, <1>6, <1>7 DEF StoreInv

LEMMA CooldownElapsesInv ==
  ASSUME StoreInv, NEW k \in Keys, CooldownElapses(k)
  PROVE  StoreInv'
  <1>1. /\ cooldown' \in [Keys -> {"none", "active", "expired"}]
        /\ \A q \in Keys : cooldown'[q] = "active" => cooldown[q] = "active"
    BY DEF CooldownElapses, StoreInv, TypeOK
  <1>2. TypeOK'
    BY <1>1 DEF StoreInv, TypeOK, CooldownElapses
  <1>3. PendingInv' /\ CooldownInv'
    BY <1>1 DEF StoreInv, PendingInv, CooldownInv, CooldownElapses
  <1>4. (MapsInverse /\ ClusterInv /\ OpenIsOwned /\ AnswerInv /\ EventInv)'
    BY DEF CooldownElapses, StoreInv, MapsInverse, ClusterInv, OpenIsOwned, AnswerInv, EventInv
  <1>5. (TaskInv /\ CreateExclusive /\ SweepInv)'
    BY DEF CooldownElapses, StoreInv, TaskInv, TrueReply, CreateExclusive, SweepInv
  <1> QED
    BY <1>2, <1>3, <1>4, <1>5 DEF StoreInv

LEMMA DeleteIncidentInv ==
  ASSUME StoreInv, NEW i \in Ids, DeleteIncident(i)
  PROVE  StoreInv'
  <1>1. TableStep
    BY DEF DeleteIncident, TableStep, StoreInv, TypeOK, DbStatus, Past
  <1>2. TypeOK'
    BY <1>1 DEF StoreInv, TypeOK, TableStep, DeleteIncident
  <1>3. (ClusterInv /\ OpenIsOwned /\ EventInv /\ TaskInv /\ AnswerInv /\ SweepInv)'
    BY <1>1, TableStepKeeps DEF DeleteIncident
  <1>4. (MapsInverse /\ PendingInv /\ CooldownInv /\ CreateExclusive)'
    BY DEF DeleteIncident, StoreInv, MapsInverse, PendingInv, CooldownInv, CreateExclusive
  <1> QED
    BY <1>2, <1>3, <1>4 DEF StoreInv

-------------------------------------------------------------------------------
(* The end of handle().                                                    *)

\* Where the caller goes next, given the store's new cluster map c.
LEMMA NextTaskFacts ==
  ASSUME NEW k \in Keys, NEW c \in [Keys -> ClusterState],
         NEW left \in 0 .. MaxDeferred, NEW holds \in BOOLEAN
  PROVE  /\ NextTask(k, c, left, holds) \in Task
         /\ ~Again(k, c, left) => NextTask(k, c, left, holds) = Idle
         /\ Again(k, c, left) =>
              /\ c[k].status = "open"
              /\ NextTask(k, c, left, holds) =
                   [at |-> "updating", inc |-> c[k].id, reply |-> "none", left |-> left - 1,
                    holds |-> holds]
  <1>1. ASSUME left > 0 PROVE left - 1 \in 0 .. MaxDeferred
    BY <1>1
  <1>2. c[k].id \in Ids \cup {NoId}
    BY DEF ClusterState
  <1> QED
    BY <1>1, <1>2, IdleTask DEF NextTask, Again, Replays, Task

\* An absorbed hit changes a timestamp and nothing else.
LEMMA AbsorbedFacts ==
  ASSUME NEW k \in Keys, NEW c \in [Keys -> ClusterState], NEW left
  PROVE  /\ Absorbed(k, c, left) \in [Keys -> ClusterState]
         /\ \A q \in Keys : /\ Absorbed(k, c, left)[q].id = c[q].id
                            /\ Absorbed(k, c, left)[q].status = c[q].status
                            /\ c[q] = NoCluster => Absorbed(k, c, left)[q] = NoCluster
  <1>1. CASE ~(Replays(k, left) /\ c[k].status \in {"promoted", "terminal"})
    BY <1>1 DEF Absorbed
  <1>2. CASE Replays(k, left) /\ c[k].status \in {"promoted", "terminal"}
    <2>1. PICK d : d = Absorbed(k, c, left)
      OBVIOUS
    <2>2. d = [c EXCEPT ![k].fresh = TRUE]
      BY <1>2, <2>1 DEF Absorbed
    <2>3. d[k] = [c[k] EXCEPT !.fresh = TRUE] /\ c[k] \in ClusterState
            /\ \A q \in Keys \ {k} : d[q] = c[q]
      BY <2>2
    <2>4. d[k] \in ClusterState /\ d[k].id = c[k].id /\ d[k].status = c[k].status
      BY <2>3 DEF ClusterState
    <2>5. d \in [Keys -> ClusterState]
      BY <2>2, <2>3, <2>4
    <2>6. c[k] # NoCluster
      BY <1>2, NoClusterFacts
    <2> QED
      BY <2>1, <2>3, <2>4, <2>5, <2>6
  <1> QED
    BY <1>1, <1>2

\* What the other callers keep when caller w ends or goes on with an update.
LEMMA ReplayTaskInv ==
  ASSUME StoreInv, NEW w \in Handlers, NEW k \in Keys, KeyOf[task[w].inc] = k,
         task[w].at # "idle",
         UNCHANGED status,
         \A q \in Keys \ {k} : pending'[q] = pending[q],
         pending' = pending \/ task[w].holds,
         \A v \in Handlers \ {w} : task'[v] = task[v],
         NEW i \in Ids, NEW left, KeyOf[i] = k, status[i] # "absent",
         \/ /\ task'[w] = Idle
            /\ reserving' = IF task[w].holds THEN reserving \ {k} ELSE reserving
         \/ /\ task'[w] = [at |-> "updating", inc |-> i, reply |-> "none",
                           left |-> left, holds |-> task[w].holds]
            /\ reserving' = reserving
  PROVE  TaskInv' /\ CreateExclusive'
  <1>1. ASSUME NEW v \in Handlers \ {w}, task[v].holds, task[w].holds
        PROVE  KeyOf[task[v].inc] \in Keys \ {k}
    <2>1. task[v].inc \in Ids
      BY <1>1 DEF StoreInv, TaskInv
    <2>2. KeyOf[task[v].inc] # KeyOf[task[w].inc]
      BY <1>1 DEF StoreInv, CreateExclusive
    <2> QED
      BY <2>1, <2>2
  <1>2. TaskInv'
    <2>1. ASSUME NEW v \in Handlers \ {w}, task[v].at \in {"creating", "created"}
          PROVE  pending'[KeyOf[task[v].inc]] = task[v].inc
      BY <1>1, <2>1 DEF StoreInv, TaskInv
    <2> QED
      BY <2>1, IdleTask DEF StoreInv, TaskInv, TrueReply
  <1>3. CreateExclusive'
    BY <1>1, IdleTask DEF StoreInv, CreateExclusive
  <1> QED
    BY <1>2, <1>3

LEMMA TaskType ==
  ASSUME TypeOK, NEW w \in Handlers
  PROVE  /\ task[w].left \in 0 .. MaxDeferred /\ task[w].holds \in BOOLEAN
         /\ task[w].reply \in DbStatus \cup {"none", "error"}
  BY DEF TypeOK, Task

LEMMA FinishCreateInv ==
  ASSUME StoreInv, NEW w \in Handlers, FinishCreate(w)
  PROVE  StoreInv'
  <1>1. PICK i \in Ids : i = task[w].inc /\ pending[KeyOf[i]] = i
    BY DEF StoreInv, TaskInv, FinishCreate
  <1>2. PICK k \in Keys : k = KeyOf[i]
    BY <1>1
  <1>3. PICK s : s = StoreStatus(task[w].reply)
    OBVIOUS
  <1>4. cluster[k] = NoCluster /\ cooldown[k] # "active" /\ task[w].holds
    BY <1>1, <1>2, IdIsSome DEF StoreInv, PendingInv, TaskInv, FinishCreate
  <1>5. TrueReply(i, task[w].reply) /\ task[w].reply # "error" /\ task[w].at = "created"
    BY <1>1 DEF StoreInv, TaskInv, FinishCreate
  <1>6. \/ s = "open" /\ status[i] # "absent"
        \/ s \in {"promoted", "terminal"} /\ status[i] \in Past
    BY <1>3, <1>5 DEF TrueReply, StoreStatus, Past, Ended
  <1>7. PICK c : c = [cluster EXCEPT ![k] = [id |-> i, status |-> s, fresh |-> TRUE]]
    OBVIOUS
  <1>8. c[k].id = i /\ c[k].status = s /\ c[k] \in ClusterState
          /\ \A q \in Keys \ {k} : c[q] = cluster[q]
    BY <1>6, <1>7 DEF StoreInv, TypeOK, ClusterState
  <1>9. c \in [Keys -> ClusterState]
    BY <1>7, <1>8 DEF StoreInv, TypeOK
  <1>10. PICK left \in 0 .. MaxDeferred : left = IF s = "open" THEN deferred[k] ELSE 0
    BY DEF StoreInv, TypeOK
  <1>11. /\ task' = [task EXCEPT ![w] = NextTask(k, c, left, TRUE)]
         /\ cluster' = Absorbed(k, c, left)
         /\ reserving' = IF Again(k, c, left) THEN reserving ELSE reserving \ {k}
         /\ cooldown' = IF Replays(k, left) THEN [cooldown EXCEPT ![k] = "none"] ELSE cooldown
    BY <1>1, <1>2, <1>3, <1>7, <1>10 DEF FinishCreate, ReplayOrReturn
  <1>12. /\ cluster' \in [Keys -> ClusterState]
         /\ \A q \in Keys : cluster'[q].id = c[q].id /\ cluster'[q].status = c[q].status
         /\ \A q \in Keys : c[q] = NoCluster => cluster'[q] = NoCluster
         /\ cooldown' \in [Keys -> {"none", "active", "expired"}]
         /\ \A q \in Keys : cooldown'[q] = "active" => cooldown[q] = "active"
         /\ \A v \in Handlers \ {w} : task'[v] = task[v]
         /\ task' \in [Handlers -> Task]
    <2>1. TRUE \in BOOLEAN /\ NextTask(k, c, left, TRUE) \in Task
      BY <1>9, NextTaskFacts
    <2>2. task' \in [Handlers -> Task] /\ \A v \in Handlers \ {w} : task'[v] = task[v]
      BY <1>11, <2>1 DEF StoreInv, TypeOK
    <2>3. /\ cooldown' \in [Keys -> {"none", "active", "expired"}]
          /\ \A q \in Keys : cooldown'[q] = "active" => cooldown[q] = "active"
      BY <1>11 DEF StoreInv, TypeOK
    <2>4. PICK d : d = Absorbed(k, c, left)
      OBVIOUS
    <2>5. /\ d \in [Keys -> ClusterState]
          /\ \A q \in Keys : /\ d[q].id = c[q].id /\ d[q].status = c[q].status
                             /\ c[q] = NoCluster => d[q] = NoCluster
      BY <1>9, <2>4, AbsorbedFacts
    <2>6. cluster' = d
      BY <1>11, <2>4
    <2> QED
      BY <2>2, <2>3, <2>5, <2>6
  <1>13. /\ byId' = byId \cup {i}
         /\ pending' = [pending EXCEPT ![k] = NoId] /\ deferred' = [deferred EXCEPT ![k] = 0]
         /\ status' = status /\ answer' = answer /\ sweep' = sweep
    BY <1>1, <1>2 DEF FinishCreate
  <1>14. /\ s = "open" => lastEvent' = [lastEvent EXCEPT ![i] = "open"]
         /\ s # "open" => lastEvent' = lastEvent
    BY <1>1, <1>2, <1>3 DEF FinishCreate, Publish
  <1>15. /\ lastEvent' \in [Ids -> Events]
         /\ \A j \in Ids : lastEvent'[j] \in EndEvents => lastEvent'[j] = lastEvent[j]
         /\ s = "open" => lastEvent'[i] \notin EndEvents
    BY <1>14 DEF StoreInv, TypeOK, Events, EndEvents
  <1>16. TypeOK'
    <2>1. reserving' \in SUBSET Keys
      BY <1>11 DEF StoreInv, TypeOK
    <2>2. pending' \in [Keys -> Ids \cup {NoId}] /\ deferred' \in [Keys -> 0 .. MaxDeferred]
      BY <1>13 DEF StoreInv, TypeOK
    <2> QED
      BY <1>12, <1>13, <1>15, <2>1, <2>2 DEF StoreInv, TypeOK
  <1>17. MapsInverse'
    <2>1. ASSUME NEW j \in Ids PROVE j \in byId' <=> cluster'[KeyOf[j]].id = j
      <3>1. CASE KeyOf[j] = k
        <4>1. j \notin byId
          BY <1>4, <3>1, IdIsSome, NoClusterFacts DEF StoreInv, MapsInverse
        <4>2. cluster'[KeyOf[j]].id = i
          BY <1>8, <1>12, <3>1
        <4> QED
          BY <1>13, <4>1, <4>2
      <3>2. CASE KeyOf[j] # k
        <4>1. j \in byId <=> cluster[KeyOf[j]].id = j
          BY DEF StoreInv, MapsInverse
        <4>2. KeyOf[j] \in Keys
          OBVIOUS
        <4>3. cluster'[KeyOf[j]].id = cluster[KeyOf[j]].id
          BY <1>8, <1>12, <3>2, <4>2
        <4> QED
          BY <1>2, <1>13, <3>2, <4>1, <4>3
      <3> QED
        BY <3>1, <3>2
    <2>2. ASSUME NEW q \in Keys, cluster'[q] # NoCluster
          PROVE  cluster'[q].id \in Ids /\ KeyOf[cluster'[q].id] = q
      BY <1>1, <1>2, <1>8, <1>12, <2>2 DEF StoreInv, MapsInverse
    <2> QED
      BY <2>1, <2>2 DEF MapsInverse
  <1>18. ClusterInv'
    <2> SUFFICES ASSUME NEW q \in Keys, cluster'[q] # NoCluster
                 PROVE  \/ /\ cluster'[q].status = "open"
                           /\ status[cluster'[q].id] # "absent"
                           /\ lastEvent'[cluster'[q].id] \notin EndEvents
                        \/ /\ cluster'[q].status \in {"promoted", "terminal"}
                           /\ status[cluster'[q].id] \in Past
      BY <1>13 DEF ClusterInv
    <2>1. CASE q = k
      BY <1>6, <1>8, <1>12, <1>15, <2>1
    <2>2. CASE q # k
      <3>1. cluster[q] # NoCluster /\ cluster'[q].id = cluster[q].id
              /\ cluster'[q].status = cluster[q].status
        BY <1>8, <1>12, <2>2
      <3>2. cluster[q].id \in Ids
        BY <3>1, TrackedType
      <3> QED
        BY <1>15, <3>1, <3>2 DEF StoreInv, ClusterInv
    <2> QED
      BY <2>1, <2>2
  <1>19. PendingInv' /\ CooldownInv'
    <2>1. pending'[k] = NoId /\ \A q \in Keys \ {k} : pending'[q] = pending[q]
      BY <1>13 DEF StoreInv, TypeOK
    <2>2. \A q \in Keys \ {k} : cluster[q] = NoCluster => cluster'[q] = NoCluster
      BY <1>8, <1>12
    <2> QED
      BY <1>4, <1>12, <2>1, <2>2 DEF StoreInv, PendingInv, CooldownInv
  <1>20. OpenIsOwned'
    <2> SUFFICES ASSUME NEW j \in Ids, status[j] = "open"
                 PROVE  cluster'[KeyOf[j]].id = j \/ pending'[KeyOf[j]] = j
      BY <1>13 DEF OpenIsOwned
    <2>1. cluster[KeyOf[j]].id = j \/ pending[KeyOf[j]] = j
      BY DEF StoreInv, OpenIsOwned
    <2>2. CASE KeyOf[j] = k
      BY <1>1, <1>2, <1>4, <1>8, <1>12, <2>1, <2>2, IdIsSome, NoClusterFacts
    <2>3. CASE KeyOf[j] # k
      BY <1>8, <1>12, <1>13, <2>1, <2>3 DEF StoreInv, TypeOK
    <2> QED
      BY <2>2, <2>3
  <1>21. TaskInv' /\ CreateExclusive'
    <2>1. \A q \in Keys \ {k} : pending'[q] = pending[q]
      BY <1>13 DEF StoreInv, TypeOK
    <2>2. task[w].holds = TRUE
      BY <1>4, TaskType DEF StoreInv
    <2>3. status[i] # "absent" /\ KeyOf[task[w].inc] = k /\ task[w].at # "idle"
      BY <1>1, <1>2, <1>5, <1>6 DEF Past, Ended
    <2>4. PICK l : l = left - 1
      OBVIOUS
    <2>5. \/ /\ task'[w] = Idle
             /\ reserving' = IF task[w].holds THEN reserving \ {k} ELSE reserving
          \/ /\ task'[w] = [at |-> "updating", inc |-> i, reply |-> "none",
                             left |-> l, holds |-> task[w].holds]
             /\ reserving' = reserving
      <3>1. TRUE \in BOOLEAN /\ task'[w] = NextTask(k, c, left, TRUE)
        BY <1>11 DEF StoreInv, TypeOK
      <3> QED
        BY <1>8, <1>9, <1>11, <2>2, <2>4, <3>1, NextTaskFacts
    <2>6. \A v \in Handlers \ {w} : task'[v] = task[v]
      BY <1>12
    <2> QED
      BY <1>2, <1>4, <1>13, <2>1, <2>3, <2>5, <2>6, ReplayTaskInv, ZenonT(30)
  <1>22. AnswerInv' /\ EventInv'
    BY <1>13, <1>15 DEF StoreInv, AnswerInv, EventInv
  <1>23. SweepInv'
    BY <1>13, <1>15, SweepType DEF StoreInv, SweepInv
  <1> QED
    BY <1>16, <1>17, <1>18, <1>19, <1>20, <1>21, <1>22, <1>23 DEF StoreInv

\* c differs from cluster in timestamps only.
Same(c) ==
  /\ c \in [Keys -> ClusterState]
  /\ \A q \in Keys : /\ c[q].id = cluster[q].id /\ c[q].status = cluster[q].status
                     /\ c[q] = NoCluster <=> cluster[q] = NoCluster

\* The cluster map that an answered update leaves, before deferred hits are replayed.
LEMMA UpdateMoves ==
  ASSUME StoreInv, NEW i \in Ids, NEW r, TrueReply(i, r), NEW k, k = KeyOf[i],
         NEW c,
         \/ r = "deleted" /\ c = Without(cluster, {i})
         \/ r = "open" /\ Same(c)
         \/ r # "deleted" /\ c = Synced(cluster, i, r),
         byId' = IF r = "deleted" THEN Unmapped(cluster, {i}) ELSE byId
  PROVE  Moves(c) /\ byId' = Mapped(c)
  <1>1. CASE r = "deleted"
    <2>1. status[i] \in Past
      BY <1>1 DEF TrueReply
    <2>2. c = Without(cluster, {i}) /\ byId' = Unmapped(cluster, {i})
      BY <1>1
    <2>3. Moves(cluster) /\ {i} \in SUBSET Ids /\ \A j \in {i} : status[j] \in Past
      BY <2>1, MovesRefl
    <2> QED
      BY <2>2, <2>3, WithoutMoves
  <1>2. CASE r = "open" /\ Same(c)
    BY <1>2, MovesRefl DEF Same, Moves, Mapped
  <1>3. CASE r # "deleted" /\ c = Synced(cluster, i, r)
    <2>1. c = Synced(cluster, i, r) /\ byId' = byId
      BY <1>3
    <2>2. r \in Ended => status[i] \in Past
      BY DEF TrueReply, Ended, Past
    <2>3. /\ Moves(Synced(cluster, i, r))
          /\ \A q \in Keys : Synced(cluster, i, r)[q].id = cluster[q].id
      BY <2>2, SyncedMoves
    <2> QED
      BY <2>1, <2>3, MovesRefl DEF Mapped
  <1> QED
    BY <1>1, <1>2, <1>3

LEMMA FinishUpdateInv ==
  ASSUME StoreInv, NEW w \in Handlers, FinishUpdate(w)
  PROVE  StoreInv'
  <1>1. PICK i \in Ids : i = task[w].inc
    BY DEF StoreInv, TaskInv, FinishUpdate
  <1>2. PICK k \in Keys : k = KeyOf[i]
    BY <1>1
  <1>3. PICK r : r = task[w].reply
    OBVIOUS
  <1>4. PICK current \in BOOLEAN : current <=> cluster[k].id = i /\ cluster[k].status = "open"
    OBVIOUS
  <1>5. PICK c : c = CASE r = "deleted" -> Without(cluster, {i})
                       [] r = "open" /\ current -> [cluster EXCEPT ![k].fresh = TRUE]
                       [] OTHER -> Synced(cluster, i, r)
    OBVIOUS
  <1>6. PICK holds : holds = task[w].holds /\ holds \in BOOLEAN
    BY TaskType DEF StoreInv
  <1>25. PICK left \in 0 .. MaxDeferred : left = task[w].left
    BY TaskType DEF StoreInv
  <1>7. /\ task[w].at = "updated" /\ status[i] # "absent" /\ TrueReply(i, r)
        /\ byId' = IF r = "deleted" THEN Unmapped(cluster, {i}) ELSE byId
        /\ UNCHANGED <<dbVars, pendingVars, sweep>>
    BY <1>1, <1>2, <1>3 DEF FinishUpdate, StoreInv, TaskInv
  <1>8. IF r = "open" /\ current THEN lastEvent' = [lastEvent EXCEPT ![i] = "update"]
        ELSE lastEvent' = lastEvent
    BY <1>1, <1>2, <1>3, <1>4 DEF FinishUpdate, Publish
  <1>9. ReplayOrReturn(w, k, c, left, holds)
    BY <1>1, <1>2, <1>3, <1>4, <1>5, <1>6, <1>25 DEF FinishUpdate
  <1>10. /\ task' = [task EXCEPT ![w] = NextTask(k, c, left, holds)]
         /\ cluster' = Absorbed(k, c, left)
         /\ reserving' = IF Again(k, c, left) \/ ~holds THEN reserving ELSE reserving \ {k}
         /\ cooldown' = IF Replays(k, left) THEN [cooldown EXCEPT ![k] = "none"] ELSE cooldown
    BY <1>9 DEF ReplayOrReturn
  <1>11. Moves(c) /\ byId' = Mapped(c)
    <2>1. \/ r = "deleted" /\ c = Without(cluster, {i})
          \/ r = "open" /\ Same(c)
          \/ r # "deleted" /\ c = Synced(cluster, i, r)
      <3>1. CASE r = "open" /\ current
        <4>1. c = [cluster EXCEPT ![k].fresh = TRUE]
          BY <1>5, <3>1
        <4>2. cluster[k] \in ClusterState /\ cluster[k] # NoCluster /\ cluster[k].id = i
          BY <1>4, <3>1, IdIsSome, NoClusterFacts DEF StoreInv, TypeOK
        <4>3. c[k] = [cluster[k] EXCEPT !.fresh = TRUE] /\ \A q \in Keys \ {k} : c[q] = cluster[q]
          BY <4>1, <4>2 DEF StoreInv, TypeOK
        <4>4. c[k] \in ClusterState /\ c[k].id = cluster[k].id /\ c[k].status = cluster[k].status
          BY <4>2, <4>3 DEF ClusterState
        <4>5. c[k] # NoCluster
          BY <4>2, <4>4, IdIsSome, NoClusterFacts
        <4>6. c \in [Keys -> ClusterState]
          BY <4>1, <4>3, <4>4 DEF StoreInv, TypeOK
        <4> QED
          BY <3>1, <4>2, <4>3, <4>4, <4>5, <4>6 DEF Same
      <3>2. CASE ~(r = "open" /\ current)
        BY <1>5, <3>2
      <3> QED
        BY <3>1, <3>2
    <2> QED
      BY <1>2, <1>7, <2>1, UpdateMoves
  <1>12. c \in [Keys -> ClusterState]
    BY <1>11 DEF Moves
  <1>13. /\ cluster' \in [Keys -> ClusterState]
         /\ \A q \in Keys : cluster'[q].id = c[q].id /\ cluster'[q].status = c[q].status
         /\ \A q \in Keys : c[q] = NoCluster <=> cluster'[q] = NoCluster
    <2>1. PICK d : d = Absorbed(k, c, left)
      OBVIOUS
    <2>2. /\ d \in [Keys -> ClusterState]
          /\ \A q \in Keys : /\ d[q].id = c[q].id /\ d[q].status = c[q].status
                             /\ c[q] = NoCluster => d[q] = NoCluster
      BY <1>12, <2>1, AbsorbedFacts
    <2>3. ASSUME NEW q \in Keys, c[q] # NoCluster PROVE d[q] # NoCluster
      BY <1>11, <2>2, <2>3, TrackedType, NoClusterFacts, IdIsSome DEF Moves
    <2>4. cluster' = d
      BY <1>10, <2>1
    <2> QED
      BY <2>2, <2>3, <2>4
  <1>14. Moves(cluster') /\ byId' = Mapped(cluster')
    <2>1. Moves(cluster')
      BY <1>11, <1>13 DEF Moves
    <2>2. byId' = Mapped(cluster')
      BY <1>11, <1>13 DEF Mapped
    <2> QED
      BY <2>1, <2>2
  <1>15. /\ cooldown' \in [Keys -> {"none", "active", "expired"}]
         /\ \A q \in Keys : cooldown'[q] = "active" => cooldown[q] = "active"
    BY <1>10 DEF StoreInv, TypeOK
  <1>16. NextTask(k, c, left, holds) \in Task
    BY <1>6, <1>12, NextTaskFacts
  <1>17. /\ task' \in [Handlers -> Task]
         /\ \A v \in Handlers \ {w} : task'[v] = task[v]
         /\ task'[w] = NextTask(k, c, left, holds)
    BY <1>10, <1>16 DEF StoreInv, TypeOK
  <1>18. /\ lastEvent' \in [Ids -> Events]
         /\ \A j \in Ids : lastEvent'[j] \in EndEvents => lastEvent'[j] = lastEvent[j]
    BY <1>8 DEF StoreInv, TypeOK, Events, EndEvents
  <1>19. TypeOK'
    <2>1. reserving' \in SUBSET Keys
      BY <1>10 DEF StoreInv, TypeOK
    <2>2. byId' \in SUBSET Ids
      BY <1>14 DEF Mapped
    <2> QED
      BY <1>7, <1>13, <1>15, <1>17, <1>18, <2>1, <2>2 DEF StoreInv, TypeOK
  <1>20. ASSUME NEW q \in Keys, cluster'[q].status = "open"
         PROVE  lastEvent'[cluster'[q].id] \notin EndEvents
    <2>1. cluster[q] # NoCluster /\ cluster[q].id = cluster'[q].id /\ cluster[q].status = "open"
      BY <1>14, <1>20, NoClusterFacts DEF Moves
    <2>2. cluster[q].id \in Ids
      BY <2>1, TrackedType
    <2> QED
      BY <1>18, <2>1, <2>2 DEF StoreInv, ClusterInv
  <1>21. (MapsInverse /\ OpenIsOwned /\ PendingInv /\ CooldownInv /\ ClusterInv)'
    BY <1>7, <1>14, <1>15, <1>20, MovesKeeps
  <1>22. TaskInv' /\ CreateExclusive'
    <2>1. PICK j : j = c[k].id
      OBVIOUS
    <2>2. PICK l : l = left - 1
      OBVIOUS
    <2>3. KeyOf[task[w].inc] = k /\ task[w].at # "idle" /\ UNCHANGED <<status, pending>>
      BY <1>1, <1>2, <1>7
    <2>4. CASE ~Again(k, c, left)
      <3>4. NextTask(k, c, left, holds) = Idle
        BY <2>4 DEF NextTask
      <3>1. task'[w] = Idle
        BY <1>17, <3>4
      <3>2. reserving' = IF task[w].holds THEN reserving \ {k} ELSE reserving
        BY <1>6, <1>10, <2>4
      <3>3. /\ \A q \in Keys \ {k} : pending'[q] = pending[q]
            /\ \A v \in Handlers \ {w} : task'[v] = task[v]
        BY <1>7, <1>17
      <3> QED
        BY <1>2, <1>7, <2>3, <3>1, <3>2, <3>3, ReplayTaskInv
    <2>5. CASE Again(k, c, left)
      <3>1. c[k].status = "open" /\ task'[w] = [at |-> "updating", inc |-> j, reply |-> "none",
                                                left |-> l, holds |-> holds]
        <4>1. NextTask(k, c, left, holds) = [at |-> "updating", inc |-> j, reply |-> "none",
                                             left |-> l, holds |-> holds]
          BY <2>1, <2>2, <2>5 DEF NextTask
        <4>2. c[k].status = "open"
          BY <2>5 DEF Again
        <4> QED
          BY <1>17, <4>1, <4>2
      <3>2. cluster[k] # NoCluster /\ cluster[k].id = j /\ cluster[k].status = "open"
        BY <1>11, <2>1, <3>1, NoClusterFacts DEF Moves
      <3>3. j \in Ids /\ KeyOf[j] = k /\ status[j] # "absent"
        BY <3>2, TrackedType DEF StoreInv, ClusterInv
      <3>4. reserving' = reserving
        BY <1>10, <2>5
      <3>5. /\ \A q \in Keys \ {k} : pending'[q] = pending[q]
            /\ \A v \in Handlers \ {w} : task'[v] = task[v]
            /\ task'[w] = [at |-> "updating", inc |-> j, reply |-> "none",
                           left |-> l, holds |-> task[w].holds]
        BY <1>6, <1>7, <1>17, <3>1
      <3> QED
        BY <2>3, <3>3, <3>4, <3>5, ReplayTaskInv
    <2> QED
      BY <2>4, <2>5
  <1>23. AnswerInv' /\ EventInv'
    BY <1>7, <1>18 DEF StoreInv, AnswerInv, EventInv
  <1>24. SweepInv'
    BY <1>7, <1>18, SweepType DEF StoreInv, SweepInv
  <1> QED
    BY <1>19, <1>21, <1>22, <1>23, <1>24 DEF StoreInv

-------------------------------------------------------------------------------
(* The sweeper's own steps, and the analysts' answers.                     *)

\* A step of the sweeper or of an analyst: clusters are forgotten or called ended, the
\* end of an incident is published by the one that ended it.
EndStep ==
  /\ Moves(cluster') /\ byId' = Mapped(cluster')
  /\ cooldown' \in [Keys -> {"none", "active", "expired"}]
  /\ \A k \in Keys : cooldown'[k] = "active"
       => cooldown[k] = "active" \/ (cluster'[k] = NoCluster /\ pending[k] = NoId)
  /\ lastEvent' \in [Ids -> Events]
  /\ \A i \in Ids : \/ lastEvent'[i] = lastEvent[i]
                    \/ /\ status[i] \in Past
                       /\ answer'[i] = "none"
                       /\ ~(sweep'.closing = i /\ sweep'.reply = "applied")
  /\ \A k \in Keys : cluster'[k].status = "open"
                       => lastEvent'[cluster'[k].id] = lastEvent[cluster'[k].id]
  /\ answer' \in [Ids -> {"none", "silenced", "promoted"}]
  /\ \A i \in Ids : answer'[i] = "none" \/ answer'[i] = answer[i]
  /\ sweep' \in SweepState
  /\ \A i \in sweep'.open : status[i] # "absent"
  /\ \A i \in sweep'.rest : status[i] \in Past
  /\ \/ sweep'.closing = NoId
     \/ sweep'.closing = sweep.closing /\ sweep'.reply = sweep.reply
  /\ UNCHANGED <<status, reserving, pendingVars, task>>

LEMMA EndStepInv ==
  ASSUME StoreInv, EndStep
  PROVE  StoreInv'
  <1>1. TypeOK'
    BY DEF EndStep, StoreInv, TypeOK, Moves, Mapped
  <1>2. (MapsInverse /\ OpenIsOwned /\ PendingInv /\ CooldownInv /\ ClusterInv)'
    <2>1. ASSUME NEW k \in Keys, cluster'[k].status = "open"
          PROVE  lastEvent'[cluster'[k].id] \notin EndEvents
      <3>1. cluster[k] # NoCluster /\ cluster[k].id = cluster'[k].id /\ cluster[k].status = "open"
        BY <2>1, NoClusterFacts DEF EndStep, Moves
      <3> QED
        BY <2>1, <3>1 DEF EndStep, StoreInv, ClusterInv
    <2>2. PendingInv' /\ CooldownInv'
      BY DEF EndStep, StoreInv, PendingInv, CooldownInv, Moves
    <2>3. Moves(cluster') /\ byId' = Mapped(cluster') /\ UNCHANGED <<status, pending>>
      BY DEF EndStep
    <2> QED
      BY <2>1, <2>2, <2>3, MovesKeeps
  <1>3. (TaskInv /\ CreateExclusive)'
    BY DEF EndStep, StoreInv, TaskInv, TrueReply, CreateExclusive
  <1>4. AnswerInv' /\ EventInv'
    BY DEF EndStep, StoreInv, AnswerInv, EventInv
  <1>5. SweepInv'
    <2>1. ASSUME sweep'.closing # NoId, sweep'.reply # "error"
          PROVE  status'[sweep'.closing] \in Past
      BY <2>1 DEF EndStep, StoreInv, SweepInv
    <2>2. ASSUME sweep'.closing # NoId, sweep'.reply = "applied"
          PROVE  answer'[sweep'.closing] = "none" /\ lastEvent'[sweep'.closing] \notin EndEvents
      <3>1. sweep.closing \in Ids /\ sweep'.closing = sweep.closing /\ sweep.reply = "applied"
        BY <2>2, SweepType DEF EndStep, StoreInv
      <3>2. answer[sweep.closing] = "none" /\ lastEvent[sweep.closing] \notin EndEvents
        BY <2>2, <3>1 DEF StoreInv, SweepInv
      <3> QED
        BY <2>2, <3>1, <3>2 DEF EndStep
    <2> QED
      BY <2>1, <2>2 DEF EndStep, SweepInv
  <1> QED
    BY <1>1, <1>2, <1>3, <1>4, <1>5 DEF StoreInv

\* The clusters that the sweeper's snapshot names.
LEMMA StaleIdsFacts ==
  ASSUME StoreInv
  PROVE  /\ StaleIds(TRUE) \in SUBSET Ids /\ \A i \in StaleIds(TRUE) : status[i] # "absent"
         /\ StaleIds(FALSE) \in SUBSET Ids /\ \A i \in StaleIds(FALSE) : status[i] \in Past
  <1>1. ASSUME NEW k \in Keys, cluster[k] # NoCluster, cluster[k].status = "open"
        PROVE  cluster[k].id \in Ids /\ status[cluster[k].id] # "absent"
    BY <1>1, TrackedType DEF StoreInv, ClusterInv
  <1>2. ASSUME NEW k \in Keys, cluster[k] # NoCluster, cluster[k].status # "open"
        PROVE  cluster[k].id \in Ids /\ status[cluster[k].id] \in Past
    BY <1>2, TrackedType DEF StoreInv, ClusterInv
  <1>3. \A i \in StaleIds(TRUE) : i \in Ids /\ status[i] # "absent"
    <2> SUFFICES ASSUME NEW k \in Keys, cluster[k] # NoCluster, (cluster[k].status = "open") = TRUE
                 PROVE  cluster[k].id \in Ids /\ status[cluster[k].id] # "absent"
      BY DEF StaleIds
    <2> QED
      BY <1>1
  <1>4. \A i \in StaleIds(FALSE) : i \in Ids /\ status[i] \in Past
    <2> SUFFICES ASSUME NEW k \in Keys, cluster[k] # NoCluster, (cluster[k].status = "open") = FALSE
                 PROVE  cluster[k].id \in Ids /\ status[cluster[k].id] \in Past
      BY DEF StaleIds
    <2> QED
      BY <1>2
  <1> QED
    BY <1>3, <1>4

LEMMA SweepStartInv ==
  ASSUME StoreInv, SweepStart
  PROVE  StoreInv'
  <1>1. /\ cooldown' \in [Keys -> {"none", "active", "expired"}]
        /\ \A k \in Keys : cooldown'[k] = "active" => cooldown[k] = "active"
    BY DEF SweepStart, StoreInv, TypeOK
  <1>2. Moves(cluster') /\ byId' = Mapped(cluster')
    <2>1. Moves(cluster) /\ byId = Mapped(cluster)
      BY MovesRefl
    <2>2. /\ Moves(Without(cluster, StaleIds(FALSE)))
          /\ Unmapped(cluster, StaleIds(FALSE)) = Mapped(Without(cluster, StaleIds(FALSE)))
      BY <2>1, WithoutMoves, StaleIdsFacts
    <2> QED
      BY <2>1, <2>2 DEF SweepStart
  <1>3. /\ sweep' \in SweepState
        /\ sweep'.closing = NoId
        /\ \A i \in sweep'.open : status[i] # "absent"
        /\ \A i \in sweep'.rest : status[i] \in Past
    <2>1. CASE StaleIds(TRUE) = {}
      <3>1. sweep' = sweep /\ sweep.closing = NoId
        BY <2>1 DEF SweepStart, NoSweep
      <3>2. sweep \in SweepState
        BY DEF StoreInv, TypeOK
      <3> QED
        BY <3>1, <3>2 DEF StoreInv, SweepInv
    <2>2. CASE StaleIds(TRUE) # {}
      <3>1. /\ sweep'.open = StaleIds(TRUE) /\ sweep'.rest = StaleIds(FALSE)
            /\ sweep'.closing = NoId
            /\ sweep' \in SweepState
        BY <2>2, StaleIdsFacts DEF SweepStart, NoSweep, SweepState
      <3> QED
        BY <3>1, StaleIdsFacts
    <2> QED
      BY <2>1, <2>2
  <1>4. /\ UNCHANGED <<status, answer, lastEvent, reserving, pendingVars, task>>
        /\ lastEvent \in [Ids -> Events] /\ answer \in [Ids -> {"none", "silenced", "promoted"}]
    BY DEF SweepStart, StoreInv, TypeOK
  <1>5. \A k \in Keys : cluster'[k].status = "open"
                       => lastEvent'[cluster'[k].id] = lastEvent[cluster'[k].id]
    BY <1>4
  <1>6. \A i \in Ids : lastEvent'[i] = lastEvent[i] /\ answer'[i] = answer[i]
    BY <1>4
  <1>7. /\ lastEvent' \in [Ids -> Events]
        /\ answer' \in [Ids -> {"none", "silenced", "promoted"}]
        /\ UNCHANGED <<status, reserving, pendingVars, task>>
    BY <1>4
  <1>8. EndStep
    BY <1>1, <1>2, <1>3, <1>5, <1>6, <1>7 DEF EndStep
  <1> QED
    BY <1>8, EndStepInv

LEMMA FinishCloseInv ==
  ASSUME StoreInv, FinishClose
  PROVE  StoreInv'
  <1>1. PICK i \in Ids : i = sweep.closing
    BY SweepType DEF StoreInv, FinishClose
  <1>2. PICK r : r = sweep.reply
    OBVIOUS
  <1>3. PICK last : last = (sweep.open = {})
    OBVIOUS
  <1>4. PICK gone : gone = (IF r \in {"applied", "closed", "deleted"} THEN {i} ELSE {})
                             \cup (IF sweep.open = {} THEN sweep.rest ELSE {})
    OBVIOUS
  <1>5. PICK c : c = IF r \in {"silenced", "promoted"} THEN Synced(cluster, i, r) ELSE cluster
    OBVIOUS
  <1>6. /\ cluster' = Without(c, gone)
        /\ byId' = Unmapped(cluster, gone)
        /\ IF r = "applied" THEN lastEvent' = [lastEvent EXCEPT ![i] = "close"]
           ELSE lastEvent' = lastEvent
        /\ sweep' = IF sweep.open = {} THEN NoSweep
                    ELSE [sweep EXCEPT !.closing = NoId, !.reply = "none"]
        /\ UNCHANGED <<status, answer, reserving, pendingVars, cooldown, task>>
    BY <1>1, <1>2, <1>4, <1>5 DEF FinishClose, Publish
  <1>7. i # NoId /\ (r # "error" => status[i] \in Past)
    BY <1>1, <1>2, IdIsSome DEF StoreInv, SweepInv
  <1>8. gone \in SUBSET Ids /\ \A j \in gone : status[j] \in Past
    BY <1>1, <1>4, <1>7, SweepType DEF StoreInv, SweepInv
  <1>9. Moves(c) /\ \A k \in Keys : c[k].id = cluster[k].id
    <2>1. CASE r \in {"silenced", "promoted"}
      <3>1. r \in Ended => status[i] \in Past
        BY <1>7, <2>1
      <3>2. /\ Moves(Synced(cluster, i, r))
            /\ \A k \in Keys : Synced(cluster, i, r)[k].id = cluster[k].id
        BY <3>1, SyncedMoves
      <3> QED
        BY <1>5, <2>1, <3>2
    <2>2. CASE r \notin {"silenced", "promoted"}
      BY <1>5, <2>2, MovesRefl
    <2> QED
      BY <2>1, <2>2
  <1>10. Moves(Without(c, gone)) /\ Unmapped(c, gone) = Mapped(Without(c, gone))
    BY <1>8, <1>9, WithoutMoves
  <1>11. Unmapped(c, gone) = Unmapped(cluster, gone)
    BY <1>9 DEF Unmapped, StoreInv, TypeOK
  <1>12. Moves(cluster') /\ byId' = Mapped(cluster')
    BY <1>6, <1>10, <1>11
  <1>13. /\ sweep' \in SweepState /\ sweep'.closing = NoId
         /\ sweep'.open \subseteq sweep.open /\ sweep'.rest \subseteq sweep.rest
    <2>1. CASE sweep.open = {}
      BY <1>6, <2>1 DEF NoSweep, SweepState
    <2>2. CASE sweep.open # {}
      <3>1. sweep' = [sweep EXCEPT !.closing = NoId, !.reply = "none"] /\ sweep \in SweepState
        BY <1>6, <2>2 DEF StoreInv, TypeOK
      <3> QED
        BY <3>1 DEF SweepState
    <2> QED
      BY <2>1, <2>2
  <1>14. /\ lastEvent' \in [Ids -> Events]
         /\ \A j \in Ids \ {i} : lastEvent'[j] = lastEvent[j]
    BY <1>6 DEF StoreInv, TypeOK, Events, EndEvents
  <1>15. r = "applied" => status[i] \in Past /\ answer[i] = "none" /\ i \in gone
    BY <1>1, <1>2, <1>4, <1>7 DEF StoreInv, SweepInv
  <1>16. ASSUME NEW j \in Ids
         PROVE  \/ lastEvent'[j] = lastEvent[j]
                \/ /\ status[j] \in Past
                   /\ answer'[j] = "none"
                   /\ ~(sweep'.closing = j /\ sweep'.reply = "applied")
    BY <1>6, <1>7, <1>13, <1>14, <1>15
  <1>17. ASSUME NEW k \in Keys, cluster'[k].status = "open"
         PROVE  lastEvent'[cluster'[k].id] = lastEvent[cluster'[k].id]
    <2>1. cluster[k] # NoCluster /\ cluster[k].id = cluster'[k].id
      BY <1>12, <1>17, NoClusterFacts DEF Moves
    <2>2. cluster[k].id \in Ids \ gone
      BY <1>6, <1>9, <1>17, <2>1, TrackedType, NoClusterFacts DEF Without
    <2> QED
      BY <1>6, <1>14, <1>15, <2>1, <2>2
  <1>18. /\ cooldown' \in [Keys -> {"none", "active", "expired"}]
         /\ \A k \in Keys : cooldown'[k] = "active" => cooldown[k] = "active"
         /\ answer' \in [Ids -> {"none", "silenced", "promoted"}]
         /\ \A j \in Ids : answer'[j] = "none" \/ answer'[j] = answer[j]
    BY <1>6 DEF StoreInv, TypeOK
  <1>19. /\ \A j \in sweep'.open : status[j] # "absent"
         /\ \A j \in sweep'.rest : status[j] \in Past
    BY <1>13 DEF StoreInv, SweepInv
  <1>20. /\ lastEvent' \in [Ids -> Events]
         /\ UNCHANGED <<status, reserving, pendingVars, task>>
    BY <1>6, <1>14
  <1>21. EndStep
    BY <1>12, <1>13, <1>16, <1>17, <1>18, <1>19, <1>20 DEF EndStep
  <1> QED
    BY <1>21, EndStepInv

LEMMA AnalystAnsweredInv ==
  ASSUME StoreInv, NEW i \in Ids, AnalystAnswered(i)
  PROVE  StoreInv'
  <1>1. /\ status[i] \in Past /\ lastEvent[i] \notin EndEvents /\ answer[i] # "none"
        /\ ~(sweep.closing = i /\ sweep.reply = "applied")
    BY IdIsSome DEF AnalystAnswered, StoreInv, AnswerInv, SweepInv
  <1>2. /\ answer' \in [Ids -> {"none", "silenced", "promoted"}]
        /\ answer'[i] = "none" /\ \A j \in Ids \ {i} : answer'[j] = answer[j]
    BY DEF AnalystAnswered, StoreInv, TypeOK
  <1>3. PICK e \in {"silence", "promote"} : lastEvent' = [lastEvent EXCEPT ![i] = e]
    BY DEF AnalystAnswered, Publish
  <1>4. /\ lastEvent' \in [Ids -> Events] /\ lastEvent'[i] = e
        /\ \A j \in Ids \ {i} : lastEvent'[j] = lastEvent[j]
    BY <1>3 DEF StoreInv, TypeOK, Events, EndEvents
  <1>5. UNCHANGED <<status, reserving, pendingVars, task, sweep>>
    BY DEF AnalystAnswered
  <1>6. sweep \in SweepState
    BY DEF StoreInv, TypeOK
  <1>7. /\ sweep' \in SweepState
        /\ \A j \in sweep'.open : status[j] # "absent"
        /\ \A j \in sweep'.rest : status[j] \in Past
        /\ sweep'.closing = sweep.closing /\ sweep'.reply = sweep.reply
    BY <1>5, <1>6 DEF StoreInv, SweepInv
  <1>8. /\ Moves(cluster') /\ byId' = Mapped(cluster')
        /\ cooldown' \in [Keys -> {"none", "active", "expired"}]
        /\ \A k \in Keys : cooldown'[k] = "active"
             => cooldown[k] = "active" \/ (cluster'[k] = NoCluster /\ pending[k] = NoId)
        /\ \A k \in Keys : cluster'[k].status = "open" => cluster'[k].id # i
    <2>1. CASE UNCHANGED <<cluster, byId, cooldown>> /\ i \notin byId
      <3>1. \A k \in Keys : cluster[k] # NoCluster => cluster[k].id # i
        BY <2>1, TrackedType
      <3> QED
        <4>1. cluster' = cluster /\ byId' = byId /\ cooldown' = cooldown
          BY <2>1
        <4>2. Moves(cluster') /\ byId' = Mapped(cluster')
          BY <4>1, MovesRefl
        <4>3. cooldown' \in [Keys -> {"none", "active", "expired"}]
          BY <4>1 DEF StoreInv, TypeOK
        <4>4. \A k \in Keys : cluster'[k].status = "open" => cluster'[k].id # i
          BY <3>1, <4>1, NoClusterFacts
        <4> QED
          BY <4>1, <4>2, <4>3, <4>4
    <2>2. PICK k \in Keys : k = KeyOf[i]
      OBVIOUS
    <2>3. CASE i \in byId
      <3>1. cluster[k].id = i /\ cluster[k] \in ClusterState /\ cluster[k] # NoCluster
              /\ pending[k] = NoId
        BY <2>2, <2>3, NoClusterFacts, IdIsSome, TrackedType DEF StoreInv, MapsInverse, TypeOK
      <3>2. ASSUME NEW q \in Keys \ {k} PROVE cluster[q].id # i
        BY <2>2, NoClusterFacts, IdIsSome, TrackedType
      <3>3. CASE MarkSilenced(i)
        <4>1. /\ cluster' = [cluster EXCEPT ![k] = NoCluster]
              /\ byId' = byId \ {i}
              /\ cooldown' = [cooldown EXCEPT ![k] = "active"]
          BY <2>2, <2>3, <3>3 DEF MarkSilenced
        <4>2. /\ cluster'[k] = NoCluster /\ \A q \in Keys \ {k} : cluster'[q] = cluster[q]
              /\ cluster' \in [Keys -> ClusterState]
          BY <4>1, NoClusterFacts DEF StoreInv, TypeOK
        <4>3. Moves(cluster')
          BY <1>1, <3>1, <4>2 DEF Moves
        <4>4. byId' = Mapped(cluster')
          <5>1. ASSUME NEW j \in Ids PROVE j \in byId' <=> cluster'[KeyOf[j]].id = j
            <6>1. CASE KeyOf[j] = k
              BY <3>1, <4>1, <4>2, <6>1, NoClusterFacts, IdIsSome DEF StoreInv, MapsInverse
            <6>2. CASE KeyOf[j] # k
              BY <2>2, <4>1, <4>2, <6>2 DEF StoreInv, MapsInverse
            <6> QED
              BY <6>1, <6>2
          <5>2. byId' \subseteq Ids
            BY <4>1 DEF StoreInv, TypeOK
          <5> QED
            BY <5>1, <5>2 DEF Mapped
        <4>5. cooldown' \in [Keys -> {"none", "active", "expired"}]
                /\ \A q \in Keys \ {k} : cooldown'[q] = cooldown[q]
          BY <4>1 DEF StoreInv, TypeOK
        <4> QED
          <5>1. \A q \in Keys : cooldown'[q] = "active"
                  => cooldown[q] = "active" \/ (cluster'[q] = NoCluster /\ pending[q] = NoId)
            BY <3>1, <4>2, <4>5
          <5>2. \A q \in Keys : cluster'[q].status = "open" => cluster'[q].id # i
            BY <3>2, <4>2, NoClusterFacts
          <5> QED
            BY <4>3, <4>4, <4>5, <5>1, <5>2
      <3>4. CASE MarkPromoted(i)
        <4>1. /\ cluster' = [cluster EXCEPT ![k].status = "promoted"]
              /\ byId' = byId /\ cooldown' = cooldown
          BY <2>2, <2>3, <3>1, <3>4 DEF MarkPromoted
        <4>2. cluster'[k] = [cluster[k] EXCEPT !.status = "promoted"]
                /\ \A q \in Keys \ {k} : cluster'[q] = cluster[q]
          BY <4>1 DEF StoreInv, TypeOK
        <4>3. cluster'[k] \in ClusterState /\ cluster'[k].id = i /\ cluster'[k].status = "promoted"
          BY <3>1, <4>2 DEF ClusterState
        <4>4. cluster' \in [Keys -> ClusterState]
          BY <4>1, <4>2, <4>3 DEF StoreInv, TypeOK
        <4>5. cluster'[k] # NoCluster
          BY <4>3, NoClusterFacts
        <4>6. Moves(cluster') /\ \A q \in Keys : cluster'[q].id = cluster[q].id
          BY <1>1, <3>1, <4>2, <4>3, <4>4, <4>5 DEF Moves
        <4>7. byId' = Mapped(cluster')
          BY <4>1, <4>6, MovesRefl DEF Mapped
        <4>8. ASSUME NEW q \in Keys, cluster'[q].status = "open" PROVE cluster'[q].id # i
          <5>1. q # k
            BY <4>3, <4>8
          <5>2. cluster'[q] = cluster[q] /\ cluster[q].id # i
            BY <3>2, <4>2, <5>1
          <5> QED
            BY <5>2
        <4>9. cooldown' = cooldown /\ cooldown \in [Keys -> {"none", "active", "expired"}]
          BY <4>1 DEF StoreInv, TypeOK
        <4> QED
          BY <4>6, <4>7, <4>8, <4>9
      <3> QED
        BY <3>3, <3>4 DEF AnalystAnswered
    <2>4. i \notin byId => UNCHANGED <<cluster, byId, cooldown>>
      BY DEF AnalystAnswered, MarkSilenced, MarkPromoted
    <2> QED
      BY <2>1, <2>3, <2>4
  <1>9. ASSUME NEW k \in Keys, cluster'[k].status = "open"
        PROVE  lastEvent'[cluster'[k].id] = lastEvent[cluster'[k].id]
    <2>1. cluster'[k].id \in Ids
      BY <1>8, <1>9, TrackedType, NoClusterFacts DEF Moves
    <2> QED
      BY <1>4, <1>8, <1>9, <2>1
  <1>10. ASSUME NEW j \in Ids
         PROVE  \/ lastEvent'[j] = lastEvent[j]
                \/ /\ status[j] \in Past
                   /\ answer'[j] = "none"
                   /\ ~(sweep'.closing = j /\ sweep'.reply = "applied")
    BY <1>1, <1>2, <1>4, <1>7
  <1>11. \A j \in Ids : answer'[j] = "none" \/ answer'[j] = answer[j]
    BY <1>2
  <1>12. lastEvent' \in [Ids -> Events] /\ answer' \in [Ids -> {"none", "silenced", "promoted"}]
    BY <1>2, <1>4
  <1>13. EndStep
    BY <1>5, <1>7, <1>8, <1>9, <1>10, <1>11, <1>12 DEF EndStep
  <1> QED
    BY <1>13, EndStepInv

-------------------------------------------------------------------------------
(* Every step, and what follows for every behaviour.                       *)

\* No step of any actor breaks StoreInv.
LEMMA NextInv == StoreInv /\ [Next]_vars => StoreInv'
  <1> SUFFICES ASSUME StoreInv, [Next]_vars PROVE StoreInv'
    OBVIOUS
  <1>1. ASSUME NEW w \in Handlers, NEW k \in Keys, Decide(w, k) PROVE StoreInv'
    BY <1>1, StartCreateInv, RaceDroppedInv, AbsorbInv, StartUpdateInv DEF Decide
  <1>2. ASSUME NEW w \in Handlers, Database(w) PROVE StoreInv'
    BY <1>2, CreateIncidentInv, CreateRaisesInv, ApplySignalUpdateInv, UpdateRaisesInv DEF Database
  <1>3. ASSUME NEW w \in Handlers, UpdateReplayed(w) PROVE StoreInv'
    BY <1>3, UpdateReplayedInv
  <1>4. ASSUME NEW w \in Handlers, Resume(w) PROVE StoreInv'
    BY <1>4, CreateFailedInv, FinishCreateInv, FinishUpdateInv DEF Resume
  <1>5. CASE SweepStart \/ FinishClose
    BY <1>5, SweepStartInv, FinishCloseInv
  <1>6. ASSUME NEW i \in Ids, CloseIncident(i) \/ CloseRaises(i) PROVE StoreInv'
    BY <1>6, CloseIncidentInv, CloseRaisesInv
  <1>7. ASSUME NEW i \in Ids, AnalystDecides(i) \/ AnalystAnswerLost(i) \/ AnalystAnswered(i)
        PROVE  StoreInv'
    BY <1>7, AnalystDecidesInv, AnalystAnswerLostInv, AnalystAnsweredInv
  <1>8. ASSUME NEW i \in Ids, DeleteIncident(i) PROVE StoreInv'
    BY <1>8, DeleteIncidentInv
  <1>9. ASSUME NEW k \in Keys, QuietElapses(k) \/ CooldownElapses(k) PROVE StoreInv'
    BY <1>9, QuietElapsesInv, CooldownElapsesInv
  <1>10. CASE UNCHANGED vars
    <2>1. (TypeOK /\ MapsInverse /\ ClusterInv /\ PendingInv /\ CooldownInv /\ OpenIsOwned)'
      BY <1>10 DEF vars, StoreInv, TypeOK, MapsInverse, ClusterInv, PendingInv, CooldownInv,
                   OpenIsOwned
    <2>2. (TaskInv /\ CreateExclusive /\ SweepInv /\ AnswerInv /\ EventInv)'
      BY <1>10 DEF vars, StoreInv, TaskInv, TrueReply, CreateExclusive, SweepInv, AnswerInv,
                   EventInv
    <2> QED
      BY <2>1, <2>2 DEF StoreInv
  <1> QED
    BY <1>1, <1>2, <1>3, <1>4, <1>5, <1>6, <1>7, <1>8, <1>9, <1>10 DEF Next

\* The store, the database and the analysts' requests stay in the relation that
\* StoreInv describes, in every interleaving of the callers of handle(), the sweeper
\* and the analysts and with every database call that fails, commits unseen or is replayed.
THEOREM StoreInvariant == Spec => []StoreInv
  <1>1. Init => StoreInv
    BY InitInv
  <1>2. StoreInv /\ [Next]_vars => StoreInv'
    BY NextInv
  <1> QED
    BY <1>1, <1>2, PTL DEF Spec

\* Every variable of the store stays in the set of its values.
THEOREM TypeCorrect == Spec => []TypeOK
  <1>1. StoreInv => TypeOK
    BY DEF StoreInv
  <1> QED
    BY <1>1, StoreInvariant, PTL

\* handle() and the sweeper never lose an open incident: it is tracked, or its
\* create is still remembered for the retry.
THEOREM OpenAlwaysOwned == Spec => []OpenIsOwned
  <1>1. StoreInv => OpenIsOwned
    BY DEF StoreInv
  <1> QED
    BY <1>1, StoreInvariant, PTL

\* _by_key and _by_incident_id stay inverse of one another.
THEOREM MapsStayInverse == Spec => []MapsInverse
  <1>1. StoreInv => MapsInverse
    BY DEF StoreInv
  <1> QED
    BY <1>1, StoreInvariant, PTL

\* The reservation keeps two callers from creating for one burst at the same time.
THEOREM CreateStaysExclusive == Spec => []CreateExclusive
  <1>1. StoreInv => CreateExclusive
    BY DEF StoreInv
  <1> QED
    BY <1>1, StoreInvariant, PTL

\* A burst has at most one open incident: it is the tracked one or the pending
\* one, and a burst with a pending create tracks none.
THEOREM AtMostOneOpen == Spec => []OneOpenPerKey
  <1>1. StoreInv => OneOpenPerKey
    <2> SUFFICES ASSUME StoreInv, NEW i \in Ids, NEW j \in Ids,
                        status[i] = "open", status[j] = "open", KeyOf[i] = KeyOf[j]
                 PROVE  i = j
      BY DEF OneOpenPerKey
    <2> DEFINE k == KeyOf[i]
    <2>1. k \in Keys
      OBVIOUS
    <2>2. cluster[k].id = i \/ pending[k] = i
      BY DEF StoreInv, OpenIsOwned
    <2>3. cluster[k].id = j \/ pending[k] = j
      BY DEF StoreInv, OpenIsOwned
    <2>4. pending[k] # NoId => cluster[k].id = NoId
      BY <2>1, NoClusterFacts DEF StoreInv, PendingInv
    <2> QED
      BY <2>2, <2>3, <2>4, IdIsSome
  <1> QED
    BY <1>1, StoreInvariant, PTL

\* Signals are absorbed only by a cluster whose incident has really ended.
THEOREM AbsorbedOnlyIfEnded == Spec => []EndedInDatabase
  <1>1. StoreInv => EndedInDatabase
    <2> SUFFICES ASSUME StoreInv, NEW k \in Keys, cluster[k].status \in {"promoted", "terminal"}
                 PROVE  status[cluster[k].id] \in Ended \cup {"deleted"}
      BY DEF EndedInDatabase
    <2>1. cluster[k] # NoCluster
      BY NoClusterFacts
    <2> QED
      BY <2>1 DEF StoreInv, ClusterInv, Past
  <1> QED
    BY <1>1, StoreInvariant, PTL

\* While a cooldown that mark_silenced wrote is active, the burst has no open
\* incident, no cluster and no create to retry.
THEOREM SilenceAlwaysHolds == Spec => []SilenceHolds
  <1>1. StoreInv => SilenceHolds
    <2> SUFFICES ASSUME StoreInv, NEW k \in Keys, cooldown[k] = "active"
                 PROVE  /\ cluster[k] = NoCluster
                        /\ pending[k] = NoId
                        /\ \A i \in Ids : KeyOf[i] = k => status[i] # "open"
      BY DEF SilenceHolds
    <2>1. cluster[k] = NoCluster /\ pending[k] = NoId
      BY DEF StoreInv, CooldownInv, PendingInv
    <2>2. ASSUME NEW i \in Ids, KeyOf[i] = k PROVE status[i] # "open"
      BY <2>1, <2>2, NoClusterFacts, IdIsSome DEF StoreInv, OpenIsOwned
    <2> QED
      BY <2>1, <2>2
  <1> QED
    BY <1>1, StoreInvariant, PTL

\* After the end of an incident was published, neither a late update nor a second
\* end of it is: FinishUpdate, FinishClose and the request handlers each publish
\* only what nobody has overtaken.
THEOREM EndIsFinal == Spec => EndEventFinal
  <1> DEFINE A == \A i \in Ids : lastEvent[i] \in EndEvents /\ lastEvent'[i] # lastEvent[i]
                                   => lastEvent'[i] = "open"
  <1>1. StoreInv /\ [Next]_vars => [A]_lastEvent
    <2> SUFFICES ASSUME StoreInv, [Next]_vars, lastEvent' # lastEvent, NEW i \in Ids,
                        lastEvent[i] \in EndEvents, lastEvent'[i] # lastEvent[i]
                 PROVE  lastEvent'[i] = "open"
      OBVIOUS
    <2>1. ASSUME NEW j \in Ids, NEW e, lastEvent' = [lastEvent EXCEPT ![j] = e]
          PROVE  i = j /\ lastEvent'[i] = e
      BY <2>1 DEF StoreInv, TypeOK
    <2>2. ASSUME NEW w \in Handlers, FinishCreate(w) PROVE lastEvent'[i] = "open"
      <3>1. PICK j \in Ids : j = task[w].inc
        BY <2>2 DEF StoreInv, TaskInv, FinishCreate
      <3>2. lastEvent' = [lastEvent EXCEPT ![j] = "open"]
        BY <2>2, <3>1 DEF FinishCreate, Publish
      <3> QED
        BY <2>1, <3>1, <3>2
    <2>3. ASSUME NEW w \in Handlers, FinishUpdate(w) PROVE FALSE
      <3>1. PICK j \in Ids : j = task[w].inc
        BY <2>3 DEF StoreInv, TaskInv, FinishUpdate
      <3>2. lastEvent' = [lastEvent EXCEPT ![j] = "update"]
              /\ cluster[KeyOf[j]].id = j /\ cluster[KeyOf[j]].status = "open"
        BY <2>3, <3>1 DEF FinishUpdate, Publish
      <3>3. cluster[KeyOf[j]] # NoCluster /\ KeyOf[j] \in Keys
        BY <3>2, NoClusterFacts
      <3>4. lastEvent[j] \notin EndEvents
        BY <3>2, <3>3 DEF StoreInv, ClusterInv
      <3> QED
        BY <2>1, <3>2, <3>4
    <2>4. ASSUME FinishClose PROVE FALSE
      <3>1. PICK j \in Ids : j = sweep.closing
        BY <2>4, SweepType DEF StoreInv, FinishClose
      <3>2. lastEvent' = [lastEvent EXCEPT ![j] = "close"] /\ sweep.reply = "applied"
        BY <2>4, <3>1 DEF FinishClose, Publish
      <3>3. lastEvent[j] \notin EndEvents
        BY <3>1, <3>2, IdIsSome DEF StoreInv, SweepInv
      <3> QED
        BY <2>1, <3>2, <3>3
    <2>5. ASSUME NEW j \in Ids, AnalystAnswered(j) PROVE FALSE
      <3>1. lastEvent[j] \notin EndEvents
        BY <2>5 DEF AnalystAnswered, StoreInv, AnswerInv
      <3>2. PICK e : lastEvent' = [lastEvent EXCEPT ![j] = e]
        BY <2>5 DEF AnalystAnswered, Publish
      <3> QED
        BY <2>1, <3>1, <3>2
    <2>6. ASSUME NEW w \in Handlers, NEW k \in Keys, Decide(w, k) PROVE FALSE
      BY <2>6 DEF Decide, StartCreate, RaceDropped, Absorb, StartUpdate
    <2>7. ASSUME NEW w \in Handlers, Database(w) \/ UpdateReplayed(w) \/ CreateFailed(w)
          PROVE  FALSE
      BY <2>7 DEF Database, CreateIncident, CreateRaises, ApplySignalUpdate, UpdateRaises,
                  UpdateReplayed, CreateFailed
    <2>8. ~SweepStart
      BY DEF SweepStart
    <2>9. ASSUME NEW j \in Ids, \/ CloseIncident(j) \/ CloseRaises(j)
                                \/ AnalystDecides(j) \/ AnalystAnswerLost(j) \/ DeleteIncident(j)
          PROVE  FALSE
      BY <2>9 DEF CloseIncident, CloseRaises, AnalystDecides, AnalystAnswerLost, DeleteIncident
    <2>10. ASSUME NEW k \in Keys, QuietElapses(k) \/ CooldownElapses(k) PROVE FALSE
      BY <2>10 DEF QuietElapses, CooldownElapses
    <2>11. ~UNCHANGED vars
      BY DEF vars
    <2> QED
      BY <2>2, <2>3, <2>4, <2>5, <2>6, <2>7, <2>8, <2>9, <2>10, <2>11 DEF Next, Resume
  <1> QED
    BY <1>1, StoreInvariant, PTL DEF Spec, EndEventFinal

-------------------------------------------------------------------------------
(* ClusterStore implements IncidentLifecycle.                              *)

\* The abstract step and the abstract variables, under the refinement mapping.
LifecycleStep == [Lifecycle!Next]_(Lifecycle!vars)
Cooling == {k \in Keys : cooldown[k] = "active"}

\* A create opens an incident only for a burst with no open incident and no cooldown.
LEMMA OpenMaps ==
  ASSUME StoreInv, NEW w \in Handlers, task[w].at = "creating",
         NEW i, i = task[w].inc,
         status' = status \/ status' = [status EXCEPT ![i] = IF @ = "absent" THEN "open" ELSE @],
         UNCHANGED cooldown
  PROVE  LifecycleStep
  <1>1. i \in Ids /\ KeyOf[i] \in Keys /\ pending[KeyOf[i]] = i
    BY DEF StoreInv, TaskInv
  <1>2. CASE status' = status
    BY <1>2 DEF LifecycleStep, Lifecycle!vars
  <1>3. CASE status' = [status EXCEPT ![i] = "open"] /\ status[i] = "absent"
    <2>1. cluster[KeyOf[i]] = NoCluster /\ cooldown[KeyOf[i]] # "active"
      BY <1>1, IdIsSome DEF StoreInv, PendingInv
    <2>2. ASSUME NEW j \in Ids, KeyOf[j] = KeyOf[i] PROVE status[j] # "open"
      BY <1>1, <1>3, <2>1, <2>2, IdIsSome, NoClusterFacts DEF StoreInv, OpenIsOwned
    <2>3. Lifecycle!Open(i)
      BY <1>1, <1>3, <2>1, <2>2 DEF Lifecycle!Open, Lifecycle!OpenIds
    <2> QED
      BY <1>1, <2>3 DEF LifecycleStep, Lifecycle!Next
  <1>4. CASE status' = [status EXCEPT ![i] = IF @ = "absent" THEN "open" ELSE @]
    <2>1. CASE status[i] = "absent"
      BY <1>3, <1>4, <2>1
    <2>2. CASE status[i] # "absent"
      BY <1>2, <1>4, <2>2 DEF StoreInv, TypeOK
    <2> QED
      BY <2>1, <2>2
  <1> QED
    BY <1>2, <1>4

\* A close or a decision ends an incident that is open, and only once.
LEMMA EndMaps ==
  ASSUME StoreInv, NEW i \in Ids, NEW s \in Ended,
         \/ status' = status
         \/ status' = [status EXCEPT ![i] = IF @ = "open" THEN s ELSE @],
         UNCHANGED cooldown
  PROVE  LifecycleStep
  <1>1. CASE status' = status
    BY <1>1 DEF LifecycleStep, Lifecycle!vars
  <1>2. CASE status' = [status EXCEPT ![i] = IF @ = "open" THEN s ELSE @] /\ status[i] # "open"
    BY <1>1, <1>2 DEF StoreInv, TypeOK
  <1>3. CASE status' = [status EXCEPT ![i] = IF @ = "open" THEN s ELSE @] /\ status[i] = "open"
    <2>1. status' = [status EXCEPT ![i] = s] /\ s \in Lifecycle!Ended
      BY <1>3 DEF Ended, Lifecycle!Ended
    <2>2. Lifecycle!End(i)
      BY <1>3, <2>1 DEF Lifecycle!End
    <2> QED
      BY <2>2 DEF LifecycleStep, Lifecycle!Next
  <1> QED
    BY <1>1, <1>2, <1>3

\* The steps that leave the table alone and start no cooldown.
LEMMA StutterMaps ==
  ASSUME UNCHANGED status, \A k \in Keys : cooldown'[k] = "active" <=> cooldown[k] = "active"
  PROVE  LifecycleStep
  BY DEF LifecycleStep, Lifecycle!vars

\* mark_silenced starts the cooldown of a burst whose one incident has just ended.
LEMMA SilenceMaps ==
  ASSUME StoreInv, NEW i \in Ids, AnalystAnswered(i)
  PROVE  LifecycleStep
  <1>1. CASE UNCHANGED cooldown
    BY <1>1, StutterMaps DEF AnalystAnswered
  <1>2. CASE i \in byId /\ MarkSilenced(i)
    <2>1. PICK k \in Keys : k = KeyOf[i]
      OBVIOUS
    <2>2. cluster[k].id = i /\ cluster[k] # NoCluster /\ status[i] \in Past
      BY <1>2, <2>1, IdIsSome, NoClusterFacts
         DEF StoreInv, MapsInverse, AnswerInv, AnalystAnswered
    <2>3. ASSUME NEW j \in Ids, KeyOf[j] = k PROVE status[j] # "open"
      BY <2>1, <2>2, <2>3, TrackedType, IdIsSome DEF StoreInv, OpenIsOwned, Past, Ended
    <2>4. cooldown' = [cooldown EXCEPT ![k] = "active"] /\ UNCHANGED status
      BY <1>2, <2>1 DEF MarkSilenced, AnalystAnswered
    <2>5. Cooling' = Cooling \cup {k}
      BY <2>4 DEF Cooling, StoreInv, TypeOK
    <2>6. Lifecycle!Silence(k)
      BY <2>3, <2>4, <2>5 DEF Lifecycle!Silence, Lifecycle!OpenIds, Cooling
    <2> QED
      BY <2>6 DEF LifecycleStep, Lifecycle!Next
  <1> QED
    BY <1>1, <1>2 DEF AnalystAnswered, MarkSilenced, MarkPromoted

\* Every step of the program is a step of the promise, or changes nothing in it.
LEMMA StepMaps == StoreInv /\ [Next]_vars => LifecycleStep
  <1> SUFFICES ASSUME StoreInv, [Next]_vars PROVE LifecycleStep
    OBVIOUS
  <1>1. ASSUME NEW w \in Handlers, NEW k \in Keys, Decide(w, k) PROVE LifecycleStep
    <2>1. UNCHANGED status /\ Admits(w, k)
      BY <1>1 DEF Decide, StartCreate, RaceDropped, Absorb, StartUpdate
    <2>2. \A q \in Keys : cooldown'[q] = "active" <=> cooldown[q] = "active"
      BY <2>1 DEF Admits, StoreInv, TypeOK
    <2> QED
      BY <2>1, <2>2, StutterMaps
  <1>2. ASSUME NEW w \in Handlers, CreateIncident(w) \/ CreateRaises(w) PROVE LifecycleStep
    <2>1. PICK i : i = task[w].inc
      OBVIOUS
    <2>2. /\ task[w].at = "creating" /\ UNCHANGED cooldown
          /\ \/ status' = status
             \/ status' = [status EXCEPT ![i] = IF @ = "absent" THEN "open" ELSE @]
      BY <1>2, <2>1 DEF CreateIncident, CreateRaises
    <2> QED
      BY <2>1, <2>2, OpenMaps
  <1>3. ASSUME NEW w \in Handlers,
               \/ ApplySignalUpdate(w) \/ UpdateRaises(w) \/ UpdateReplayed(w)
               \/ CreateFailed(w)
        PROVE  LifecycleStep
    BY <1>3, StutterMaps DEF ApplySignalUpdate, UpdateRaises, UpdateReplayed, CreateFailed
  <1>4. ASSUME NEW w \in Handlers, NEW k \in Keys, NEW c, NEW left, NEW holds,
               ReplayOrReturn(w, k, c, left, holds), UNCHANGED status
        PROVE  LifecycleStep
    <2>1. \A q \in Keys : cooldown'[q] = "active" <=> cooldown[q] = "active"
      BY <1>4 DEF ReplayOrReturn, Replays, StoreInv, TypeOK
    <2> QED
      BY <1>4, <2>1, StutterMaps
  <1>5. ASSUME NEW w \in Handlers, FinishCreate(w) \/ FinishUpdate(w) PROVE LifecycleStep
    <2>1. task[w].inc \in Ids /\ UNCHANGED status
      BY <1>5 DEF FinishCreate, FinishUpdate, StoreInv, TaskInv
    <2>2. PICK k \in Keys : k = KeyOf[task[w].inc]
      BY <2>1
    <2>3. \E c, left, holds : ReplayOrReturn(w, k, c, left, holds)
      <3>1. CASE FinishCreate(w)
        BY <2>2, <3>1 DEF FinishCreate
      <3>2. CASE FinishUpdate(w)
        BY <2>2, <3>2 DEF FinishUpdate
      <3> QED
        BY <1>5, <3>1, <3>2
    <2> QED
      BY <1>4, <2>1, <2>3
  <1>6. CASE SweepStart
    <2>1. \A q \in Keys : cooldown'[q] = "active" <=> cooldown[q] = "active"
      BY <1>6 DEF SweepStart
    <2> QED
      BY <1>6, <2>1, StutterMaps DEF SweepStart
  <1>7. CASE FinishClose
    BY <1>7, StutterMaps DEF FinishClose
  <1>8. ASSUME NEW i \in Ids, CloseIncident(i) \/ CloseRaises(i) PROVE LifecycleStep
    <2>1. /\ UNCHANGED cooldown /\ "closed" \in Ended
          /\ \/ status' = status
             \/ status' = [status EXCEPT ![i] = IF @ = "open" THEN "closed" ELSE @]
      BY <1>8 DEF CloseIncident, CloseRaises, Ended
    <2> QED
      BY <2>1, EndMaps
  <1>9. ASSUME NEW i \in Ids, AnalystDecides(i) PROVE LifecycleStep
    <2>1. PICK s \in Ended : status' = [status EXCEPT ![i] = s]
      BY <1>9 DEF AnalystDecides, Ended
    <2>2. status' = [status EXCEPT ![i] = IF @ = "open" THEN s ELSE @] /\ UNCHANGED cooldown
      BY <1>9, <2>1 DEF AnalystDecides
    <2> QED
      BY <2>2, EndMaps
  <1>10. ASSUME NEW i \in Ids, AnalystAnswerLost(i) PROVE LifecycleStep
    BY <1>10, StutterMaps DEF AnalystAnswerLost
  <1>11. ASSUME NEW i \in Ids, AnalystAnswered(i) PROVE LifecycleStep
    BY <1>11, SilenceMaps
  <1>12. ASSUME NEW i \in Ids, DeleteIncident(i) PROVE LifecycleStep
    <2>1. Lifecycle!Delete(i)
      BY <1>12 DEF DeleteIncident, Lifecycle!Delete
    <2> QED
      BY <2>1 DEF LifecycleStep, Lifecycle!Next
  <1>13. ASSUME NEW k \in Keys, QuietElapses(k) PROVE LifecycleStep
    BY <1>13, StutterMaps DEF QuietElapses
  <1>14. ASSUME NEW k \in Keys, CooldownElapses(k) PROVE LifecycleStep
    <2>1. UNCHANGED status /\ Cooling' = Cooling \ {k}
      BY <1>14 DEF CooldownElapses, Cooling, StoreInv, TypeOK
    <2>2. Lifecycle!SilenceEnds(k)
      BY <2>1 DEF Lifecycle!SilenceEnds, Cooling
    <2> QED
      BY <2>2 DEF LifecycleStep, Lifecycle!Next
  <1>15. CASE UNCHANGED vars
    BY <1>15, StutterMaps DEF vars
  <1> QED
    BY <1>1, <1>2, <1>3, <1>5, <1>6, <1>7, <1>8, <1>9, <1>10, <1>11, <1>12, <1>13, <1>14, <1>15
       DEF Next, Database, Resume

\* The program keeps the promise of IncidentLifecycle: per burst at most one open
\* incident at a time, an end that is never rewritten, no incident opened inside a cooldown.
THEOREM ImplementsLifecycle == Spec => LifecycleSpec
  <1>1. Init => Lifecycle!Init
    <2> SUFFICES ASSUME Init PROVE Lifecycle!Init
      OBVIOUS
    <2>1. status \in [Ids -> Lifecycle!DbStatus]
      BY DEF Init, DbStatus, Ended, Lifecycle!DbStatus, Lifecycle!Ended
    <2>2. \A i, j \in Ids : status[i] = "open" /\ status[j] = "open" /\ KeyOf[i] = KeyOf[j] => i = j
      BY DEF Init, Live
    <2>3. {k \in Keys : cooldown[k] = "active"} = {}
      BY DEF Init
    <2> QED
      BY <2>1, <2>2, <2>3 DEF Lifecycle!Init
  <1>2. StoreInv /\ [Next]_vars => [Lifecycle!Next]_(Lifecycle!vars)
    BY StepMaps DEF LifecycleStep
  <1> QED
    BY <1>1, <1>2, StoreInvariant, PTL DEF Spec, LifecycleSpec, Lifecycle!Spec

-------------------------------------------------------------------------------
(* Crashes and restarts.                                                   *)

(* What a step may do to the table.                                        *)

\* Incidents end; the one whose create is pending opens; promoted and deleted
\* incidents are not turned into anything but deleted ones.
Onward ==
  /\ status' \in [Ids -> DbStatus]
  /\ \A i \in Ids :
       \/ status'[i] = status[i]
       \/ status[i] = "absent" /\ status'[i] = "open" /\ pending[KeyOf[i]] = i
       \/ /\ status[i] # "absent" /\ status'[i] \in Past
          /\ status[i] \in {"promoted", "deleted"} => status'[i] = "deleted"

\* What has been said of an incident stays true.
LEMMA OnwardStable ==
  ASSUME Onward, NEW i \in Ids
  PROVE  /\ status[i] \in Past => status'[i] \in Past
         /\ status[i] # "absent" => status'[i] # "absent"
         /\ Hidden(i) => Hidden(i)'
         /\ Free(i) => Free(i)'
         /\ \A r : TrueReply(i, r) => TrueReply(i, r)'
  <1>1. /\ status[i] \in Past => status'[i] \in Past
        /\ status[i] # "absent" => status'[i] # "absent"
    BY DEF Onward, Past, Ended
  <1>2. Hidden(i) => Hidden(i)'
    <2>1. \A j \in Ids : status[j] \in {"promoted", "deleted"}
                           => status'[j] \in {"promoted", "deleted"}
      BY DEF Onward
    <2> QED
      BY <2>1 DEF Hidden
  <1>3. Free(i) => Free(i)'
    BY <1>1, <1>2 DEF Free
  <1>4. \A r : TrueReply(i, r) => TrueReply(i, r)'
    BY <1>1 DEF TrueReply
  <1> QED
    BY <1>1, <1>2, <1>3, <1>4

LEMMA OnwardHides ==
  ASSUME Onward, NEW k \in Keys, AllHidden(k)
  PROVE  AllHidden(k)'
  <1> SUFFICES ASSUME NEW j \in Ids, KeyOf[j] = k, status'[j] \in {"absent", "open"}
               PROVE  Hidden(j)'
    BY DEF AllHidden
  <1>1. status[j] \in {"absent", "open"}
    BY DEF Onward, Past, Ended
  <1> QED
    BY <1>1, OnwardStable DEF AllHidden

\* Nothing of the table changes.
LEMMA OnwardRefl ==
  ASSUME TypeOK, UNCHANGED status
  PROVE  Onward
  BY DEF Onward, TypeOK

LEMMA Types ==
  ASSUME RestartInv
  PROVE  TypeOK
  BY DEF RestartInv, RestartTypeOK

\* A burst that a create is pending for has no other open incident that is not hidden,
\* and no id is left out.
LEMMA OrderKeeps ==
  ASSUME RestartInv, Onward
  PROVE  Numbering' /\ OlderInv'
  <1>1. ASSUME NEW i \in Ids, status[i] = "absent", status'[i] # "absent"
        PROVE  /\ pending[KeyOf[i]] = i
               /\ cluster[KeyOf[i]] = NoCluster
               /\ OwnedInv
               /\ \A j \in Ids : j < i /\ KeyOf[j] = KeyOf[i] => status[j] # "absent"
    <2>1. pending[KeyOf[i]] = i /\ KeyOf[i] \in Keys
      BY <1>1 DEF Onward
    <2>2. mode = "running"
      BY <2>1, IdIsSome DEF RestartInv, RestInv
    <2> QED
      BY <1>1, <2>1, <2>2, IdIsSome DEF RestartInv, DrainInv, RetryInv
  <1>2. Numbering'
    <2> SUFFICES ASSUME NEW i \in Ids, NEW j \in Ids, j < i, KeyOf[j] = KeyOf[i],
                        status'[i] # "absent"
                 PROVE  status'[j] # "absent"
      BY DEF Numbering
    <2>1. status[j] # "absent"
      BY <1>1 DEF RestartInv, Numbering
    <2> QED
      BY <2>1, OnwardStable
  <1>3. OlderInv'
    <2> SUFFICES ASSUME NEW i \in Ids, NEW j \in Ids, j < i, KeyOf[j] = KeyOf[i],
                        status'[i] # "absent", status'[j] = "open"
                 PROVE  Hidden(j)'
      BY DEF OlderInv
    <2>1. CASE status[j] = "open" /\ status[i] # "absent"
      BY <2>1, OnwardStable DEF RestartInv, OlderInv
    <2>2. CASE status[j] = "open" /\ status[i] = "absent"
      <3>1. /\ pending[KeyOf[j]] = i /\ cluster[KeyOf[j]].id = NoId
            /\ OwnedInv /\ j # i
        BY <1>1, <2>2, NoClusterFacts
      <3>2. Free(j)
        BY <2>2, <3>1, IdIsSome DEF OwnedInv
      <3>3. Hidden(j)
        BY <2>2, <3>2 DEF Free, Past, Ended
      <3> QED
        BY <3>3, OnwardStable
    <2>3. CASE status[j] # "open"
      <3>1. status[j] = "absent"
        BY <2>3 DEF Onward, Past, Ended
      <3>2. pending[KeyOf[j]] = j
        BY <1>1, <3>1
      <3>3. status[i] = "absent"
        BY <3>1 DEF RestartInv, Numbering
      <3>4. pending[KeyOf[i]] = i /\ i # j
        BY <1>1, <3>3
      <3> QED
        BY <3>2, <3>4
    <2> QED
      BY <2>1, <2>2, <2>3
  <1> QED
    BY <1>2, <1>3

\* A step of the process or of the environment, put together.
LEMMA Assemble ==
  ASSUME RestartInv, UNCHANGED processVars, TypeOK', Onward, AnsweredInv', NamedInv',
         mode = "running" => DrainInv',
         mode # "running" => UNCHANGED <<task, pending, reserving>>,
         mode \in {"starting", "read"} => UNCHANGED <<cluster, byId, sweep>>
  PROVE  RestartInv'
  <1>1. UNCHANGED <<mode, rows, degraded, restarts>>
    BY DEF processVars
  <1>2. RestartTypeOK'
    BY <1>1 DEF RestartInv, RestartTypeOK
  <1>3. Numbering' /\ OlderInv'
    BY OrderKeeps
  <1>4. RestInv'
    BY <1>1 DEF RestartInv, RestInv
  <1>5. RowsInv'
    <2> SUFFICES ASSUME mode = "read", NEW i \in Ids
                 PROVE  /\ status'[i] = "open" /\ ~degraded => rows[i] = "open"
                        /\ rows[i] = "promoted" => status'[i] \in {"promoted", "deleted"}
                        /\ rows[i] = "open" =>
                             /\ status'[i] # "absent"
                             /\ \A j \in Ids : i < j /\ KeyOf[j] = KeyOf[i] /\ status'[j] # "absent"
                                                 => Hidden(i)'
      BY <1>1 DEF RowsInv
    <2>1. \A j \in Ids : status[j] = "absent" => status'[j] = "absent"
      BY IdIsSome DEF RestartInv, RestInv, Onward
    <2>2. status'[i] = "open" => status[i] = "open"
      BY <2>1 DEF Onward, Past, Ended
    <2>3. status[i] \in {"promoted", "deleted"} => status'[i] \in {"promoted", "deleted"}
      BY DEF Onward
    <2> QED
      BY <2>1, <2>2, <2>3, OnwardStable DEF RestartInv, RowsInv
  <1>6. mode' = "running" => DrainInv'
    BY <1>1
  <1> QED
    BY <1>2, <1>3, <1>4, <1>5, <1>6 DEF RestartInv

-------------------------------------------------------------------------------
(* Steps of the table while the drain runs.                                *)

\* Of the store's parts only the table moves.
LEMMA TableDrain ==
  ASSUME RestartInv, mode = "running", Onward, UNCHANGED <<cluster, byId, pending>>
  PROVE  /\ TrackedInv' /\ MappedInv' /\ OwnedInv' /\ RetryInv'
         /\ UNCHANGED task => TaskInv'
         /\ UNCHANGED sweep => PassInv'
  <1>1. TrackedInv'
    <2> SUFFICES ASSUME NEW k \in Keys, cluster[k] # NoCluster, NEW i, i = cluster[k].id
                 PROVE  /\ status'[i] # "absent"
                        /\ cluster[k].status # "open" => Free(i)'
      BY DEF TrackedInv
    <2>1. /\ i \in Ids /\ status[i] # "absent"
          /\ cluster[k].status # "open" => Free(i)
      BY DEF RestartInv, NamedInv, DrainInv, TrackedInv
    <2> QED
      BY <2>1, OnwardStable
  <1>2. MappedInv'
    <2> SUFFICES ASSUME NEW i \in byId
                 PROVE  cluster[KeyOf[i]].id = i \/ AllHidden(KeyOf[i])'
      BY DEF MappedInv
    <2>1. i \in Ids /\ KeyOf[i] \in Keys
      BY Types DEF TypeOK
    <2> QED
      BY <2>1, OnwardHides DEF RestartInv, DrainInv, MappedInv
  <1>3. OwnedInv'
    <2> SUFFICES ASSUME NEW i \in Ids, status'[i] = "open"
                 PROVE  cluster[KeyOf[i]].id = i \/ pending[KeyOf[i]] = i \/ Free(i)'
      BY DEF OwnedInv
    <2>1. status[i] = "open" \/ pending[KeyOf[i]] = i
      BY DEF Onward, Past, Ended
    <2> QED
      BY <2>1, OnwardStable DEF RestartInv, DrainInv, OwnedInv
  <1>4. RetryInv'
    <2> SUFFICES ASSUME NEW k \in Keys, pending[k] # NoId, NEW i, i = pending[k]
                 PROVE  /\ KeyOf[i] = k
                        /\ cluster[k] = NoCluster
                        /\ status'[i] = "absent" =>
                             \A j \in Ids : j < i /\ KeyOf[j] = k => status'[j] # "absent"
      BY DEF RetryInv
    <2>2. i \in Ids
      BY Types DEF TypeOK
    <2>1. status'[i] = "absent" => status[i] = "absent"
      BY <2>2, OnwardStable
    <2> QED
      BY <2>1, OnwardStable DEF RestartInv, DrainInv, RetryInv
  <1>5. ASSUME UNCHANGED task PROVE TaskInv'
    BY <1>5, OnwardStable DEF RestartInv, DrainInv, TaskInv
  <1>6. ASSUME UNCHANGED sweep PROVE PassInv'
    <2>1. sweep.open \subseteq Ids /\ sweep.rest \subseteq Ids
            /\ (sweep.closing # NoId => sweep.closing \in Ids)
      BY Types, SweepType
    <2>2. \A i \in sweep.rest : Free(i)'
      BY <2>1, OnwardStable DEF RestartInv, DrainInv, PassInv
    <2> QED
      BY <1>6, <2>1, <2>2, OnwardStable DEF RestartInv, DrainInv, PassInv
  <1> QED
    BY <1>1, <1>2, <1>3, <1>4, <1>5, <1>6

\* Whoever is at work is so for the drain.
LEMMA Busy ==
  ASSUME RestartInv, NEW w \in Handlers, task[w].at # "idle"
  PROVE  /\ mode = "running"
         /\ task[w].inc \in Ids
         /\ task[w].holds => task[w].at # "idle"
         /\ task[w].at \in {"creating", "created"} =>
              task[w].holds /\ pending[KeyOf[task[w].inc]] = task[w].inc
         /\ task[w].at \in {"updating", "updated"} => status[task[w].inc] # "absent"
         /\ task[w].at \in {"created", "updated"} => TrueReply(task[w].inc, task[w].reply)
  <1>1. mode = "running"
    BY IdleTask DEF RestartInv, RestInv
  <1> QED
    BY <1>1 DEF RestartInv, DrainInv, TaskInv

\* The database has answered a caller of handle().
LEMMA AnsweredKeeps ==
  ASSUME RestartInv, Onward, NEW w \in Handlers,
         NEW inc, inc = task[w].inc,
         NEW r \in DbStatus \cup {"none", "error"}, TrueReply(inc, r)',
         NEW a, UNCHANGED <<answer, cluster, byId, reserving, pendingVars, cooldown, sweep,
                            lastEvent, processVars>>,
         task' = [task EXCEPT ![w].at = a, ![w].reply = r],
         \/ task[w].at = "creating" /\ a = "created"
         \/ task[w].at \in {"updating", "updated"} /\ a = "updated"
  PROVE  RestartInv'
  <1>1. mode = "running" /\ inc \in Ids
    BY Busy
  <1>2. /\ task' \in [Handlers -> Task] /\ \A v \in Handlers \ {w} : task'[v] = task[v]
        /\ task'[w].at = a /\ task'[w].reply = r
        /\ task'[w].inc = task[w].inc /\ task'[w].holds = task[w].holds
    BY AnsweredTask, Types
  <1>3. TypeOK'
    BY <1>2, Types DEF TypeOK, Onward
  <1>4. CreateExclusive'
    BY <1>1, <1>2 DEF RestartInv, DrainInv, CreateExclusive
  <1>5. TaskInv'
    <2> SUFFICES ASSUME NEW v \in Handlers, NEW i, i = task'[v].inc
                 PROVE  /\ task'[v].at # "idle" => i \in Ids
                        /\ task'[v].holds => task'[v].at # "idle"
                        /\ task'[v].at \in {"creating", "created"} =>
                             task'[v].holds /\ pending[KeyOf[i]] = i
                        /\ task'[v].at \in {"updating", "updated"} => status'[i] # "absent"
                        /\ task'[v].at \in {"created", "updated"} => TrueReply(i, task[v].reply)'
      BY DEF TaskInv
    <2>1. CASE v = w
      <3>1. i = task[w].inc /\ i = inc /\ i \in Ids
        BY <1>1, <1>2, <2>1
      <3>2. task[w].at = "creating" => task[w].holds /\ pending[KeyOf[i]] = i
        BY <3>1, Busy
      <3>3. task[w].at # "creating" => status'[i] # "absent"
        BY <3>1, Busy, OnwardStable
      <3>4. TrueReply(i, task[v].reply)'
        BY <1>2, <2>1, <3>1 DEF TrueReply
      <3> QED
        BY <1>2, <2>1, <3>1, <3>2, <3>3, <3>4
    <2>2. CASE v # w
      <3>1. task'[v] = task[v]
        BY <1>2, <2>2
      <3>2. task[v].at # "idle" => i \in Ids /\ (status[i] # "absent" => status'[i] # "absent")
        BY <1>1, <3>1, OnwardStable DEF RestartInv, DrainInv, TaskInv
      <3>3. task[v].at \in {"created", "updated"} => TrueReply(i, task[v].reply)'
        <4>1. task[v].at \in {"created", "updated"} => i \in Ids /\ TrueReply(i, task[v].reply)
          BY <1>1, <3>1, <3>2 DEF RestartInv, DrainInv, TaskInv
        <4>2. i \in Ids => \A q : TrueReply(i, q) => TrueReply(i, q)'
          BY OnwardStable
        <4> QED
          BY <3>1, <4>1, <4>2 DEF TrueReply
      <3> QED
        BY <1>1, <3>1, <3>2, <3>3 DEF RestartInv, DrainInv, TaskInv
    <2> QED
      BY <2>1, <2>2
  <1>6. DrainInv'
    BY <1>1, <1>4, <1>5, TableDrain DEF DrainInv
  <1>7. AnsweredInv'
    BY OnwardStable DEF RestartInv, AnsweredInv
  <1>8. NamedInv'
    BY DEF RestartInv, NamedInv
  <1> QED
    BY <1>1, <1>3, <1>6, <1>7, <1>8, Assemble

LEMMA CreateOnward ==
  ASSUME RestartInv, NEW w \in Handlers, task[w].at = "creating",
         NEW i, i = task[w].inc,
         status' = status \/ status' = [status EXCEPT ![i] = IF @ = "absent" THEN "open" ELSE @]
  PROVE  Onward /\ i \in Ids
  <1>1. i \in Ids /\ pending[KeyOf[i]] = i
    BY Busy
  <1>2. status \in [Ids -> DbStatus]
    BY Types DEF TypeOK
  <1> QED
    BY <1>1, <1>2 DEF Onward, DbStatus

LEMMA CreateIncidentKeeps ==
  ASSUME RestartInv, UNCHANGED processVars, NEW w \in Handlers, CreateIncident(w)
  PROVE  RestartInv'
  <1>1. PICK i \in Ids : i = task[w].inc /\ Onward
    BY CreateOnward DEF CreateIncident
  <1>2. PICK r \in DbStatus : r = status'[i] /\ r # "absent"
    BY <1>1, Types DEF Onward, CreateIncident, TypeOK
  <1>3. TrueReply(i, r)'
    BY <1>2 DEF TrueReply, DbStatus, Past
  <1>4. task' = [task EXCEPT ![w].at = "created", ![w].reply = r]
    BY <1>1, <1>2 DEF CreateIncident
  <1> QED
    BY <1>1, <1>2, <1>3, <1>4, AnsweredKeeps DEF CreateIncident

LEMMA CreateRaisesKeeps ==
  ASSUME RestartInv, UNCHANGED processVars, NEW w \in Handlers, CreateRaises(w)
  PROVE  RestartInv'
  <1>1. Onward
    BY CreateOnward DEF CreateRaises
  <1>2. PICK i : i = task[w].inc
    OBVIOUS
  <1>3. TrueReply(i, "error")'
    BY DEF TrueReply
  <1> QED
    BY <1>1, <1>2, <1>3, AnsweredKeeps DEF CreateRaises

LEMMA ApplySignalUpdateKeeps ==
  ASSUME RestartInv, UNCHANGED processVars, NEW w \in Handlers, ApplySignalUpdate(w)
  PROVE  RestartInv'
  <1>1. PICK i \in Ids : i = task[w].inc /\ status[i] # "absent"
    BY Busy DEF ApplySignalUpdate
  <1>2. PICK r \in DbStatus : r = status[i] /\ r # "absent"
    BY <1>1, Types DEF TypeOK
  <1>3. Onward
    BY OnwardRefl, Types DEF ApplySignalUpdate
  <1>4. TrueReply(i, r)'
    BY <1>2 DEF TrueReply, DbStatus, Past, ApplySignalUpdate
  <1>5. task' = [task EXCEPT ![w].at = "updated", ![w].reply = r]
    BY <1>1, <1>2 DEF ApplySignalUpdate
  <1> QED
    BY <1>1, <1>3, <1>4, <1>5, AnsweredKeeps DEF ApplySignalUpdate

LEMMA UpdateRaisesKeeps ==
  ASSUME RestartInv, UNCHANGED processVars, NEW w \in Handlers, UpdateRaises(w)
  PROVE  RestartInv'
  <1>1. Onward
    BY OnwardRefl, Types DEF UpdateRaises
  <1>2. PICK i : i = task[w].inc
    OBVIOUS
  <1>3. TrueReply(i, "error")'
    BY DEF TrueReply
  <1> QED
    BY <1>1, <1>2, <1>3, AnsweredKeeps DEF UpdateRaises

LEMMA UpdateReplayedKeeps ==
  ASSUME RestartInv, UNCHANGED processVars, NEW w \in Handlers, UpdateReplayed(w)
  PROVE  RestartInv'
  <1>1. PICK i \in Ids : i = task[w].inc /\ status[i] # "absent"
    BY Busy DEF UpdateReplayed
  <1>2. PICK r \in DbStatus : r = status[i] /\ r # "absent"
    BY <1>1, Types DEF TypeOK
  <1>3. Onward
    BY OnwardRefl, Types DEF UpdateReplayed
  <1>4. TrueReply(i, r)'
    BY <1>2 DEF TrueReply, DbStatus, Past, UpdateReplayed
  <1>5. task' = [task EXCEPT ![w].at = "updated", ![w].reply = r]
    <2>1. task' = [task EXCEPT ![w].reply = r] /\ task[w].at = "updated"
      BY <1>1, <1>2 DEF UpdateReplayed
    <2>2. task[w] \in Task
      BY Types DEF TypeOK
    <2>3. [task[w] EXCEPT !.reply = r] = [task[w] EXCEPT !.at = "updated", !.reply = r]
      BY <2>1, <2>2 DEF Task
    <2> QED
      BY <2>1, <2>3, Types DEF TypeOK
  <1> QED
    BY <1>1, <1>3, <1>4, <1>5, AnsweredKeeps DEF UpdateReplayed

\* A step of the table by the sweeper, an analyst or an operator.
LEMMA EndKeeps ==
  ASSUME RestartInv, TypeOK', Onward, AnsweredInv',
         mode = "running" => PassInv',
         mode \in {"starting", "read"} => UNCHANGED sweep,
         UNCHANGED <<cluster, byId, reserving, pendingVars, task, processVars>>
  PROVE  RestartInv'
  <1>1. ASSUME mode = "running" PROVE DrainInv'
    <2>1. CreateExclusive'
      BY <1>1 DEF RestartInv, DrainInv, CreateExclusive
    <2> QED
      BY <1>1, <2>1, TableDrain DEF DrainInv
  <1>2. NamedInv'
    BY DEF RestartInv, NamedInv
  <1> QED
    BY <1>1, <1>2, Assemble

\* One transaction of the sweeper on an incident of its snapshot.
LEMMA CloseKeeps ==
  ASSUME RestartInv, NEW i \in Ids, i \in sweep.open,
         NEW r \in Ended \cup {"error", "applied", "deleted"},
         \/ status' = status
         \/ status' = [status EXCEPT ![i] = IF @ = "open" THEN "closed" ELSE @],
         r # "error" /\ status[i] # "absent" => status'[i] \in Past,
         sweep' = [sweep EXCEPT !.open = @ \ {i}, !.closing = i, !.reply = r],
         UNCHANGED <<answer, cluster, byId, reserving, pendingVars, cooldown, task, lastEvent,
                     processVars>>
  PROVE  RestartInv'
  <1>1. Onward
    BY Types DEF Onward, TypeOK, DbStatus, Past, Ended
  <1>2. /\ sweep' \in SweepState
        /\ sweep'.open = sweep.open \ {i} /\ sweep'.rest = sweep.rest
        /\ sweep'.closing = i /\ sweep'.reply = r
    BY Types DEF TypeOK, SweepState
  <1>3. TypeOK'
    BY <1>1, <1>2, Types DEF TypeOK, Onward
  <1>4. AnsweredInv'
    BY <1>1, OnwardStable DEF RestartInv, AnsweredInv
  <1>5. ASSUME mode = "running" PROVE PassInv'
    <2>1. PassInv
      BY <1>5 DEF RestartInv, DrainInv
    <2>2. sweep.open \in SUBSET Ids /\ sweep.rest \in SUBSET Ids
      BY Types, SweepType
    <2>3. \A j \in sweep.open : status'[j] # "absent"
      BY <1>1, <2>1, <2>2, OnwardStable DEF PassInv
    <2>4. \A j \in sweep.rest : Free(j)'
      BY <1>1, <2>1, <2>2, OnwardStable DEF PassInv
    <2>5. r # "error" => status'[i] \in Past
      BY <2>1 DEF PassInv
    <2> QED
      BY <1>2, <2>3, <2>4, <2>5 DEF PassInv
  <1>6. sweep # NoSweep
    BY DEF NoSweep
  <1>7. mode \notin {"starting", "read"}
    BY <1>6 DEF RestartInv, RestInv
  <1> QED
    BY <1>1, <1>3, <1>4, <1>5, <1>7, EndKeeps

LEMMA CloseIncidentKeeps ==
  ASSUME RestartInv, UNCHANGED processVars, NEW i \in Ids, CloseIncident(i)
  PROVE  RestartInv'
  <1>1. status[i] \in DbStatus /\ i \in sweep.open
    BY Types DEF TypeOK, CloseIncident
  <1>2. PICK r : r = CASE status[i] = "open" -> "applied"
                       [] status[i] = "absent" -> "deleted"
                       [] OTHER -> status[i]
    OBVIOUS
  <1>3. status' = [status EXCEPT ![i] = IF @ = "open" THEN "closed" ELSE @]
    BY DEF CloseIncident
  <1>4. r \in Ended \cup {"error", "applied", "deleted"}
    BY <1>1, <1>2 DEF DbStatus, Ended
  <1>5. status[i] # "absent" => status'[i] \in Past
    BY <1>1, <1>3, Types DEF TypeOK, DbStatus, Past, Ended
  <1>6. sweep' = [sweep EXCEPT !.open = @ \ {i}, !.closing = i, !.reply = r]
    BY <1>2 DEF CloseIncident
  <1> QED
    BY <1>1, <1>3, <1>4, <1>5, <1>6, CloseKeeps DEF CloseIncident

LEMMA CloseRaisesKeeps ==
  ASSUME RestartInv, UNCHANGED processVars, NEW i \in Ids, CloseRaises(i)
  PROVE  RestartInv'
  <1>1. PICK r \in {"error"} :
          sweep' = [sweep EXCEPT !.open = @ \ {i}, !.closing = i, !.reply = r]
    BY DEF CloseRaises
  <1>2. \/ status' = status
        \/ status' = [status EXCEPT ![i] = IF @ = "open" THEN "closed" ELSE @]
    BY DEF CloseRaises
  <1> QED
    BY <1>1, <1>2, CloseKeeps DEF CloseRaises

LEMMA AnalystDecidesKeeps ==
  ASSUME RestartInv, UNCHANGED processVars, NEW i \in Ids, AnalystDecides(i)
  PROVE  RestartInv'
  <1>1. PICK s \in {"silenced", "promoted"} :
          status' = [status EXCEPT ![i] = s] /\ answer' = [answer EXCEPT ![i] = s]
    BY DEF AnalystDecides
  <1>2. Onward
    BY <1>1, Types DEF Onward, AnalystDecides, TypeOK, DbStatus, Past, Ended
  <1>3. TypeOK'
    BY <1>1, <1>2, Types DEF TypeOK, Onward, AnalystDecides
  <1>4. AnsweredInv'
    <2>1. status'[i] \in Past /\ \A j \in Ids \ {i} : answer'[j] = answer[j]
      BY <1>1, Types DEF TypeOK, Past, Ended
    <2> QED
      BY <1>2, <2>1, OnwardStable DEF RestartInv, AnsweredInv
  <1>5. ASSUME mode = "running" PROVE PassInv'
    BY <1>2, <1>5, TableDrain DEF AnalystDecides
  <1> QED
    BY <1>2, <1>3, <1>4, <1>5, EndKeeps DEF AnalystDecides

LEMMA AnalystAnswerLostKeeps ==
  ASSUME RestartInv, UNCHANGED processVars, NEW i \in Ids, AnalystAnswerLost(i)
  PROVE  RestartInv'
  <1>1. Onward
    BY OnwardRefl, Types DEF AnalystAnswerLost
  <1>2. answer' \in [Ids -> {"none", "silenced", "promoted"}]
          /\ \A j \in Ids : answer'[j] = "none" \/ answer'[j] = answer[j]
    BY Types DEF AnalystAnswerLost, TypeOK
  <1>3. TypeOK'
    BY <1>2, Types DEF TypeOK, AnalystAnswerLost
  <1>4. AnsweredInv'
    BY <1>2 DEF RestartInv, AnsweredInv, AnalystAnswerLost
  <1>5. ASSUME mode = "running" PROVE PassInv'
    BY <1>1, <1>5, TableDrain DEF AnalystAnswerLost
  <1> QED
    BY <1>1, <1>3, <1>4, <1>5, EndKeeps DEF AnalystAnswerLost

LEMMA DeleteIncidentKeeps ==
  ASSUME RestartInv, UNCHANGED processVars, NEW i \in Ids, DeleteIncident(i)
  PROVE  RestartInv'
  <1>1. Onward
    BY Types DEF DeleteIncident, Onward, TypeOK, DbStatus, Past
  <1>2. TypeOK'
    BY <1>1, Types DEF TypeOK, Onward, DeleteIncident
  <1>3. AnsweredInv'
    BY <1>1, OnwardStable DEF RestartInv, AnsweredInv, DeleteIncident
  <1>4. ASSUME mode = "running" PROVE PassInv'
    BY <1>1, <1>4, TableDrain DEF DeleteIncident
  <1> QED
    BY <1>1, <1>2, <1>3, <1>4, EndKeeps DEF DeleteIncident

LEMMA CooldownElapsesKeeps ==
  ASSUME RestartInv, UNCHANGED processVars, NEW k \in Keys, CooldownElapses(k)
  PROVE  RestartInv'
  <1>1. Onward
    BY OnwardRefl, Types DEF CooldownElapses
  <1>2. TypeOK'
    BY Types DEF TypeOK, CooldownElapses
  <1>3. AnsweredInv'
    BY DEF RestartInv, AnsweredInv, CooldownElapses
  <1>4. ASSUME mode = "running" PROVE PassInv'
    BY <1>1, <1>4, TableDrain DEF CooldownElapses
  <1> QED
    BY <1>1, <1>2, <1>3, <1>4, EndKeeps DEF CooldownElapses

-------------------------------------------------------------------------------
(* handle(): the decision, and the failed create.                          *)

LEMMA RaceDroppedKeeps ==
  ASSUME RestartInv, UNCHANGED processVars, NEW w \in Handlers, NEW k \in Keys, RaceDropped(w, k)
  PROVE  RestartInv'
  <1>1. Onward
    BY OnwardRefl, Types DEF RaceDropped
  <1>2. TypeOK'
    BY Types, AdmitsCooldown DEF TypeOK, RaceDropped
  <1>3. AnsweredInv'
    BY DEF RestartInv, AnsweredInv, RaceDropped
  <1>4. ASSUME mode = "running" PROVE PassInv'
    BY <1>1, <1>4, TableDrain DEF RaceDropped
  <1> QED
    BY <1>1, <1>2, <1>3, <1>4, EndKeeps DEF RaceDropped

LEMMA StartUpdateKeeps ==
  ASSUME RestartInv, UNCHANGED processVars, mode = "running",
         NEW w \in Handlers, NEW k \in Keys, StartUpdate(w, k)
  PROVE  RestartInv'
  <1>1. PICK i \in Ids : i = cluster[k].id /\ status[i] # "absent"
    BY NoClusterFacts DEF StartUpdate, RestartInv, NamedInv, DrainInv, TrackedInv
  <1> DEFINE u == [at |-> "updating", inc |-> i, reply |-> "none", left |-> 0, holds |-> FALSE]
  <1>2. PICK t \in Task : t = u
    <2>1. u \in Task
      BY DEF Task
    <2> QED
      BY <2>1
  <1>3. task' = [task EXCEPT ![w] = t]
    BY <1>1, <1>2 DEF StartUpdate
  <1>4. /\ task' \in [Handlers -> Task] /\ task'[w] = t
        /\ \A v \in Handlers \ {w} : task'[v] = task[v]
    BY <1>3, Types DEF TypeOK
  <1>5. Onward
    BY OnwardRefl, Types DEF StartUpdate
  <1>6. TypeOK'
    BY <1>4, Types, AdmitsCooldown DEF TypeOK, StartUpdate
  <1>7. TaskInv'
    BY <1>1, <1>2, <1>4 DEF RestartInv, DrainInv, TaskInv, TrueReply, StartUpdate
  <1>8. CreateExclusive'
    BY <1>2, <1>4 DEF RestartInv, DrainInv, CreateExclusive, StartUpdate
  <1>9. DrainInv'
    BY <1>5, <1>7, <1>8, TableDrain DEF StartUpdate, DrainInv
  <1>10. AnsweredInv' /\ NamedInv'
    BY DEF RestartInv, AnsweredInv, NamedInv, StartUpdate
  <1> QED
    BY <1>5, <1>6, <1>9, <1>10, Assemble

LEMMA StartCreateKeeps ==
  ASSUME RestartInv, UNCHANGED processVars, mode = "running",
         NEW w \in Handlers, NEW k \in Keys, StartCreate(w, k)
  PROVE  RestartInv'
  <1> DEFINE t == [at |-> "creating", inc |-> pending'[k], reply |-> "none", left |-> 0,
                   holds |-> TRUE]
  <1>1. /\ pending' \in [Keys -> Ids \cup {NoId}]
        /\ \A q \in Keys \ {k} : pending'[q] = pending[q]
        /\ pending[k] # NoId => pending'[k] = pending[k]
    BY Types DEF StartCreate, Unused, TypeOK
  <1>2. PICK i \in Ids : i = pending'[k] /\ KeyOf[i] = k
    <2>1. CASE pending[k] # NoId
      BY <1>1, <2>1, Types DEF TypeOK, RestartInv, DrainInv, RetryInv
    <2>2. CASE pending[k] = NoId
      BY <2>2, Types DEF TypeOK, StartCreate, Unused
    <2> QED
      BY <2>1, <2>2
  <1>3. status[i] = "absent" => \A j \in Ids : j < i /\ KeyOf[j] = k => status[j] # "absent"
    <2>1. CASE pending[k] # NoId
      BY <1>1, <1>2, <2>1 DEF RestartInv, DrainInv, RetryInv
    <2>2. CASE pending[k] = NoId
      <3>1. \A j \in Unused(k) : i <= j
        BY <1>2, <2>2, Types DEF TypeOK, StartCreate
      <3> QED
        BY <3>1 DEF Unused
    <2> QED
      BY <2>1, <2>2
  <1>4. deferred' \in [Keys -> 0 .. MaxDeferred]
    <2>1. ASSUME deferred[k] < MaxDeferred PROVE deferred[k] + 1 \in 0 .. MaxDeferred
      BY <2>1, Types DEF TypeOK
    <2> QED
      BY <2>1, Types DEF StartCreate, TypeOK
  <1>5. task' = [task EXCEPT ![w] = t]
    BY DEF StartCreate
  <1>6. t \in Task /\ t.inc = i /\ t.at = "creating" /\ t.holds
    BY <1>2 DEF Task
  <1> HIDE DEF t
  <1>7. task' \in [Handlers -> Task] /\ task'[w] = t /\ \A v \in Handlers \ {w} : task'[v] = task[v]
    BY <1>5, <1>6, Types DEF TypeOK
  <1>8. reserving' = reserving \cup {k} /\ k \notin reserving /\ cluster[k] = NoCluster
    BY DEF StartCreate
  <1>9. TypeOK'
    BY <1>1, <1>4, <1>7, <1>8, Types, AdmitsCooldown DEF TypeOK, StartCreate
  <1>10. Onward
    BY OnwardRefl, Types DEF StartCreate
  <1>11. ASSUME NEW v \in Handlers \ {w}, task[v].holds
         PROVE  KeyOf[task[v].inc] \in Keys \ {k}
    BY <1>8, <1>11 DEF RestartInv, DrainInv, TaskInv, CreateExclusive
  <1>12. TaskInv'
    BY <1>1, <1>2, <1>6, <1>7, <1>11 DEF RestartInv, DrainInv, TaskInv, TrueReply, StartCreate
  <1>13. CreateExclusive'
    BY <1>2, <1>6, <1>7, <1>8, <1>11 DEF RestartInv, DrainInv, CreateExclusive
  <1>14. (TrackedInv /\ MappedInv /\ PassInv)'
    <2>1. UNCHANGED <<status, cluster, byId, sweep>>
      BY DEF StartCreate
    <2>2. TrackedInv'
      BY <2>1 DEF RestartInv, DrainInv, TrackedInv, Free, Hidden
    <2>3. MappedInv'
      BY <2>1 DEF RestartInv, DrainInv, MappedInv, AllHidden, Hidden
    <2>4. PassInv'
      BY <2>1 DEF RestartInv, DrainInv, PassInv, Free, Hidden
    <2> QED
      BY <2>2, <2>3, <2>4
  <1>15. OwnedInv'
    <2> SUFFICES ASSUME NEW j \in Ids, status[j] = "open", pending'[KeyOf[j]] # j, ~Free(j)
                 PROVE  cluster[KeyOf[j]].id = j
      BY DEF StartCreate, OwnedInv, Free, Hidden
    <2>1. KeyOf[j] \in Keys /\ pending[KeyOf[j]] # j
      BY <1>1, IdIsSome
    <2> QED
      BY <2>1 DEF RestartInv, DrainInv, OwnedInv
  <1>16. RetryInv'
    BY <1>1, <1>2, <1>3, <1>8 DEF StartCreate, RestartInv, DrainInv, RetryInv
  <1>17. DrainInv'
    BY <1>12, <1>13, <1>14, <1>15, <1>16 DEF DrainInv
  <1>18. AnsweredInv' /\ NamedInv'
    BY DEF RestartInv, AnsweredInv, NamedInv, StartCreate
  <1> QED
    BY <1>9, <1>10, <1>17, <1>18, Assemble

LEMMA FailedCreateKeeps ==
  ASSUME RestartInv, UNCHANGED processVars, NEW w \in Handlers, CreateFailed(w)
  PROVE  RestartInv'
  <1>1. task' \in [Handlers -> Task] /\ task'[w] = Idle
          /\ \A v \in Handlers \ {w} : task'[v] = task[v]
    BY IdleTask, Types DEF CreateFailed, TypeOK
  <1>2. TypeOK'
    BY <1>1, Types DEF TypeOK, CreateFailed
  <1>3. mode = "running" /\ task[w].holds
    BY Busy DEF CreateFailed
  <1>4. TaskInv'
    BY <1>1, <1>3, IdleTask DEF RestartInv, DrainInv, TaskInv, TrueReply, CreateFailed
  <1>5. CreateExclusive'
    BY <1>1, <1>3, IdleTask DEF RestartInv, DrainInv, CreateExclusive, CreateFailed
  <1>6. Onward
    BY OnwardRefl, Types DEF CreateFailed
  <1>7. DrainInv'
    BY <1>3, <1>4, <1>5, <1>6, TableDrain DEF CreateFailed, DrainInv
  <1>8. AnsweredInv' /\ NamedInv'
    BY DEF RestartInv, AnsweredInv, NamedInv, CreateFailed
  <1> QED
    BY <1>2, <1>3, <1>6, <1>7, <1>8, Assemble

-------------------------------------------------------------------------------
(* Steps of the two maps.                                                  *)

\* c has the clusters of the store, or has forgotten some.
Shrinks(c) ==
  /\ c \in [Keys -> ClusterState]
  /\ \A k \in Keys :
       c[k] # NoCluster => cluster[k] # NoCluster /\ c[k].id = cluster[k].id

\* It has forgotten, or calls ended, only clusters whose incident needs no owner, and
\* the second map has no incident left that the first forgot, unless all are hidden.
Lets(c, ids) ==
  /\ ids \subseteq byId
  /\ \A k \in Keys : cluster[k] # NoCluster =>
       \/ c[k] # NoCluster /\ c[k].status = cluster[k].status
       \/ c[k] # NoCluster /\ c[k].status # "open" /\ Free(cluster[k].id)
       \/ /\ c[k] = NoCluster /\ Free(cluster[k].id)
          /\ cluster[k].id \notin ids \/ AllHidden(k)

LEMMA MapDrain ==
  ASSUME RestartInv, mode = "running", Shrinks(cluster'), Lets(cluster', byId'),
         UNCHANGED <<status, pending>>
  PROVE  TrackedInv' /\ MappedInv' /\ OwnedInv' /\ RetryInv'
  <1>1. DrainInv /\ NamedInv
    BY DEF RestartInv
  <1>2. \A i : Free(i)' <=> Free(i)
    BY DEF Free, Hidden
  <1>3. \A k : AllHidden(k)' <=> AllHidden(k)
    BY DEF AllHidden, Hidden
  <1>4. TrackedInv'
    <2> SUFFICES ASSUME NEW k \in Keys, cluster'[k] # NoCluster, NEW i, i = cluster'[k].id
                 PROVE  /\ status[i] # "absent"
                        /\ cluster'[k].status # "open" => Free(i)'
      BY DEF TrackedInv
    <2>1. cluster[k] # NoCluster /\ i = cluster[k].id
      BY DEF Shrinks
    <2>2. status[i] # "absent" /\ (cluster[k].status # "open" => Free(i))
      BY <1>1, <2>1 DEF DrainInv, TrackedInv
    <2>3. cluster'[k].status = cluster[k].status \/ Free(i)
      BY <2>1 DEF Lets
    <2> QED
      BY <1>2, <2>2, <2>3
  <1>5. MappedInv'
    <2> SUFFICES ASSUME NEW i \in byId', cluster'[KeyOf[i]].id # i
                 PROVE  AllHidden(KeyOf[i])'
      BY DEF MappedInv
    <2>1. i \in byId /\ i \in Ids /\ KeyOf[i] \in Keys
      BY Types DEF Lets, TypeOK
    <2>2. CASE cluster[KeyOf[i]].id = i
      <3>1. cluster[KeyOf[i]] # NoCluster
        BY <2>1, <2>2, NoClusterFacts, IdIsSome
      <3>2. cluster'[KeyOf[i]] = NoCluster
        BY <2>1, <2>2 DEF Shrinks
      <3> QED
        BY <1>3, <2>1, <2>2, <3>1, <3>2 DEF Lets
    <2>3. CASE cluster[KeyOf[i]].id # i
      BY <1>1, <1>3, <2>1, <2>3 DEF DrainInv, MappedInv
    <2> QED
      BY <2>2, <2>3
  <1>6. OwnedInv'
    <2> SUFFICES ASSUME NEW i \in Ids, status[i] = "open", pending[KeyOf[i]] # i, ~Free(i)
                 PROVE  cluster'[KeyOf[i]].id = i
      BY <1>2 DEF OwnedInv
    <2>1. cluster[KeyOf[i]].id = i /\ KeyOf[i] \in Keys
      BY <1>1 DEF DrainInv, OwnedInv
    <2>2. cluster[KeyOf[i]] # NoCluster
      BY <2>1, NoClusterFacts, IdIsSome
    <2>3. cluster'[KeyOf[i]] # NoCluster
      BY <2>1, <2>2 DEF Lets
    <2> QED
      BY <2>1, <2>3 DEF Shrinks
  <1>7. RetryInv'
    BY <1>1 DEF DrainInv, RetryInv, Shrinks
  <1> QED
    BY <1>4, <1>5, <1>6, <1>7

LEMMA ShrinkNames ==
  ASSUME RestartInv, Shrinks(cluster')
  PROVE  NamedInv'
  BY DEF RestartInv, NamedInv, Shrinks

\* A step of the sweeper, an analyst or the clock on the maps.
LEMMA MapKeeps ==
  ASSUME RestartInv, TypeOK', AnsweredInv', Shrinks(cluster'),
         mode = "running" => Lets(cluster', byId') /\ PassInv',
         mode \in {"starting", "read"} => UNCHANGED <<cluster, byId, sweep>>,
         UNCHANGED <<status, reserving, pending, task, processVars>>
  PROVE  RestartInv'
  <1>1. Onward
    BY OnwardRefl, Types
  <1>2. ASSUME mode = "running" PROVE DrainInv'
    <2>1. TaskInv' /\ CreateExclusive'
      BY <1>2 DEF RestartInv, DrainInv, TaskInv, TrueReply, CreateExclusive
    <2> QED
      BY <1>2, <2>1, MapDrain DEF DrainInv
  <1>3. NamedInv'
    BY ShrinkNames
  <1> QED
    BY <1>1, <1>2, <1>3, Assemble

LEMMA MapsRefl ==
  ASSUME RestartInv
  PROVE  Shrinks(cluster) /\ Lets(cluster, byId)
  BY Types DEF Shrinks, Lets, TypeOK

\* Forgetting clusters whose incidents need no owner.
LEMMA WithoutShrinks ==
  ASSUME RestartInv, NEW c, Shrinks(c), NEW S \in SUBSET Ids
  PROVE  Shrinks(Without(c, S))
  BY NoClusterFacts DEF Shrinks, Without

LEMMA WithoutLets ==
  ASSUME RestartInv, mode = "running", NEW c, Shrinks(c), Lets(c, byId),
         \A k \in Keys : cluster[k] # NoCluster => c[k] # NoCluster,
         NEW S \in SUBSET Ids, \A i \in S : Free(i)
  PROVE  Lets(Without(c, S), Unmapped(c, S))
  <1>1. Unmapped(c, S) \subseteq byId
    BY DEF Unmapped
  <1>2. ASSUME NEW k \in Keys, cluster[k] # NoCluster
        PROVE  \/ Without(c, S)[k] # NoCluster /\ Without(c, S)[k].status = cluster[k].status
               \/ /\ Without(c, S)[k] # NoCluster /\ Without(c, S)[k].status # "open"
                  /\ Free(cluster[k].id)
               \/ /\ Without(c, S)[k] = NoCluster /\ Free(cluster[k].id)
                  /\ cluster[k].id \notin Unmapped(c, S) \/ AllHidden(k)
    <2>1. c[k] # NoCluster /\ c[k].id = cluster[k].id /\ KeyOf[c[k].id] = k
      BY <1>2 DEF Shrinks, RestartInv, NamedInv
    <2>2. CASE c[k].id \in S
      <3>1. Without(c, S)[k] = NoCluster
        BY <2>2 DEF Without
      <3>2. cluster[k].id \notin Unmapped(c, S)
        BY <2>1, <2>2 DEF Unmapped
      <3> QED
        BY <2>1, <2>2, <3>1, <3>2
    <2>3. CASE c[k].id \notin S
      <3>1. Without(c, S)[k] = c[k]
        BY <2>3 DEF Without
      <3> QED
        BY <1>2, <2>1, <3>1 DEF Lets
    <2> QED
      BY <2>2, <2>3
  <1> QED
    BY <1>1, <1>2 DEF Lets

\* Whatever an incident that has ended is known by in the second map, the cluster of
\* its burst needs no owner.
LEMMA MappedIsFree ==
  ASSUME RestartInv, mode = "running", NEW i \in byId, status[i] \in Past,
         cluster[KeyOf[i]] # NoCluster
  PROVE  /\ Free(cluster[KeyOf[i]].id)
         /\ cluster[KeyOf[i]].id = i \/ AllHidden(KeyOf[i])
  <1>1. i \in Ids /\ KeyOf[i] \in Keys
    BY Types DEF TypeOK
  <1>2. cluster[KeyOf[i]].id = i \/ AllHidden(KeyOf[i])
    BY DEF RestartInv, DrainInv, MappedInv
  <1>3. CASE cluster[KeyOf[i]].id = i
    BY <1>3 DEF Free
  <1>4. CASE AllHidden(KeyOf[i])
    <2>1. PICK j \in Ids : j = cluster[KeyOf[i]].id /\ KeyOf[j] = KeyOf[i] /\ status[j] # "absent"
      BY <1>1 DEF RestartInv, NamedInv, DrainInv, TrackedInv
    <2>2. status[j] \in DbStatus
      BY Types DEF TypeOK
    <2> QED
      BY <1>4, <2>1, <2>2 DEF AllHidden, Free, DbStatus, Past
  <1> QED
    BY <1>2, <1>3, <1>4

\* Taking over the end that the database has reported.
LEMMA SyncedMaps ==
  ASSUME RestartInv, NEW i \in Ids, NEW s,
         mode = "running" /\ s \in Ended => status[i] \in Past
  PROVE  /\ Shrinks(Synced(cluster, i, s))
         /\ mode = "running" => Lets(Synced(cluster, i, s), byId)
         /\ \A k \in Keys : cluster[k] # NoCluster => Synced(cluster, i, s)[k] # NoCluster
  <1>1. CASE ~(i \in byId /\ cluster[KeyOf[i]] # NoCluster /\ s \in Ended)
    BY <1>1, MapsRefl DEF Synced
  <1>2. CASE i \in byId /\ cluster[KeyOf[i]] # NoCluster /\ s \in Ended
    <2>1. PICK k \in Keys : k = KeyOf[i]
      OBVIOUS
    <2>2. PICK c : c = Synced(cluster, i, s)
      OBVIOUS
    <2>3. StoreStatus(s) \in {"promoted", "terminal"}
      BY <1>2 DEF StoreStatus, Ended
    <2>4. c = [cluster EXCEPT ![k].status = StoreStatus(s)]
      BY <1>2, <2>1, <2>2 DEF Synced
    <2>5. cluster[k] \in ClusterState /\ c[k] = [cluster[k] EXCEPT !.status = StoreStatus(s)]
            /\ \A q \in Keys \ {k} : c[q] = cluster[q]
      BY <2>1, <2>4, Types DEF TypeOK
    <2>6. c[k] \in ClusterState /\ c[k].status = StoreStatus(s) /\ c[k].id = cluster[k].id
      BY <2>3, <2>5 DEF ClusterState
    <2>7. c \in [Keys -> ClusterState]
      BY <2>4, <2>5, <2>6, Types DEF TypeOK
    <2>8. c[k] # NoCluster /\ cluster[k] # NoCluster
      BY <1>2, <2>1, <2>3, <2>6, NoClusterFacts
    <2>9. Shrinks(c) /\ \A q \in Keys : cluster[q] # NoCluster => c[q] # NoCluster
      BY <2>5, <2>6, <2>7, <2>8 DEF Shrinks
    <2>10. ASSUME mode = "running" PROVE Lets(c, byId)
      <3>1. Free(cluster[k].id)
        BY <1>2, <2>1, <2>10, MappedIsFree
      <3> QED
        BY <2>3, <2>5, <2>6, <2>8, <3>1 DEF Lets
    <2> QED
      BY <2>2, <2>9, <2>10
  <1> QED
    BY <1>1, <1>2

\* A step that touches the timestamp of a tracked cluster.
LEMMA FreshMaps ==
  ASSUME RestartInv, NEW k \in Keys, cluster[k] # NoCluster, NEW b \in BOOLEAN,
         NEW c, c = [cluster EXCEPT ![k].fresh = b]
  PROVE  /\ Shrinks(c) /\ Lets(c, byId)
         /\ \A q \in Keys : cluster[q] # NoCluster => c[q] # NoCluster
  <1>1. cluster[k] \in ClusterState /\ c[k] = [cluster[k] EXCEPT !.fresh = b]
          /\ \A q \in Keys \ {k} : c[q] = cluster[q]
    BY Types DEF TypeOK
  <1>2. /\ c[k] \in ClusterState
        /\ c[k].status = cluster[k].status /\ c[k].id = cluster[k].id
    BY <1>1 DEF ClusterState
  <1>3. c \in [Keys -> ClusterState]
    BY <1>1, <1>2, Types DEF TypeOK
  <1>4. c[k] # NoCluster
    BY <1>2, NoClusterFacts, IdIsSome DEF RestartInv, NamedInv
  <1> QED
    BY <1>1, <1>2, <1>3, <1>4 DEF Shrinks, Lets

-------------------------------------------------------------------------------
(* The clock, the sweeper and the analysts' answers.                       *)

LEMMA QuietElapsesKeeps ==
  ASSUME RestartInv, UNCHANGED processVars, NEW k \in Keys, QuietElapses(k)
  PROVE  RestartInv'
  <1>1. cluster[k] # NoCluster
    BY DEF QuietElapses, NoCluster
  <1>2. Shrinks(cluster') /\ Lets(cluster', byId)
    BY <1>1, FreshMaps DEF QuietElapses
  <1>3. TypeOK'
    BY <1>2, Types DEF QuietElapses, TypeOK, Shrinks
  <1>4. AnsweredInv'
    BY DEF RestartInv, AnsweredInv, QuietElapses
  <1>5. ASSUME mode = "running" PROVE Lets(cluster', byId') /\ PassInv'
    BY <1>2, <1>5 DEF QuietElapses, RestartInv, DrainInv, PassInv, Free, Hidden
  <1>6. mode \notin {"starting", "read"}
    BY <1>1 DEF RestartInv, RestInv
  <1> QED
    BY <1>2, <1>3, <1>4, <1>5, <1>6, MapKeeps DEF QuietElapses

LEMMA AbsorbKeeps ==
  ASSUME RestartInv, UNCHANGED processVars, mode = "running",
         NEW w \in Handlers, NEW k \in Keys, Absorb(w, k)
  PROVE  RestartInv'
  <1>1. cluster[k] # NoCluster
    BY NoClusterFacts DEF Absorb
  <1>2. Shrinks(cluster') /\ Lets(cluster', byId)
    BY <1>1, FreshMaps DEF Absorb
  <1>3. TypeOK'
    BY <1>2, Types, AdmitsCooldown DEF Absorb, TypeOK, Shrinks
  <1>4. AnsweredInv'
    BY DEF RestartInv, AnsweredInv, Absorb
  <1>5. Lets(cluster', byId') /\ PassInv'
    BY <1>2 DEF Absorb, RestartInv, DrainInv, PassInv, Free, Hidden
  <1> QED
    BY <1>2, <1>3, <1>4, <1>5, MapKeeps DEF Absorb

\* The clusters that the sweeper's snapshot names.
LEMMA StaleFacts ==
  ASSUME RestartInv
  PROVE  /\ StaleIds(TRUE) \in SUBSET Ids /\ StaleIds(FALSE) \in SUBSET Ids
         /\ mode = "running" =>
              /\ \A i \in StaleIds(TRUE) : status[i] # "absent"
              /\ \A i \in StaleIds(FALSE) : Free(i)
  <1>1. ASSUME NEW open \in BOOLEAN, NEW i \in StaleIds(open)
        PROVE  \E k \in Keys : /\ cluster[k] # NoCluster /\ cluster[k].id = i
                               /\ (cluster[k].status = "open") = open
    BY <1>1 DEF StaleIds
  <1>2. ASSUME NEW open \in BOOLEAN PROVE StaleIds(open) \subseteq Ids
    BY <1>1, <1>2 DEF RestartInv, NamedInv
  <1>3. ASSUME mode = "running", NEW i \in StaleIds(TRUE) PROVE status[i] # "absent"
    <2>1. PICK k \in Keys : cluster[k] # NoCluster /\ cluster[k].id = i
      BY <1>3 DEF StaleIds
    <2> QED
      BY <1>3, <2>1 DEF RestartInv, DrainInv, TrackedInv
  <1>4. ASSUME mode = "running", NEW i \in StaleIds(FALSE) PROVE Free(i)
    BY <1>1, <1>4 DEF RestartInv, DrainInv, TrackedInv
  <1>5. TRUE \in BOOLEAN /\ FALSE \in BOOLEAN
    OBVIOUS
  <1> QED
    BY <1>2, <1>3, <1>4, <1>5

LEMMA SweepStartKeeps ==
  ASSUME RestartInv, UNCHANGED processVars, SweepStart
  PROVE  RestartInv'
  <1>1. PICK S \in SUBSET Ids : S = StaleIds(FALSE) /\ (mode = "running" => \A i \in S : Free(i))
    BY StaleFacts
  <1>2. Shrinks(Without(cluster, S))
    BY MapsRefl, WithoutShrinks
  <1>3. mode = "running" => Lets(Without(cluster, S), Unmapped(cluster, S))
    BY <1>1, MapsRefl, WithoutLets
  <1>4. \/ StaleIds(TRUE) = {} /\ cluster' = Without(cluster, S) /\ byId' = Unmapped(cluster, S)
           /\ sweep' = sweep
        \/ /\ StaleIds(TRUE) # {} /\ cluster' = cluster /\ byId' = byId
           /\ sweep' = [NoSweep EXCEPT !.open = StaleIds(TRUE), !.rest = S]
    BY <1>1 DEF SweepStart
  <1>5. Shrinks(cluster') /\ (mode = "running" => Lets(cluster', byId'))
    BY <1>2, <1>3, <1>4, MapsRefl
  <1>6. /\ sweep' \in SweepState
        /\ sweep'.closing = NoId
        /\ mode = "running" => /\ \A i \in sweep'.open : status[i] # "absent"
                               /\ \A i \in sweep'.rest : Free(i)
    <2>1. CASE StaleIds(TRUE) = {}
      <3>1. sweep' = sweep /\ sweep = NoSweep
        BY <1>4, <2>1 DEF SweepStart
      <3>2. sweep.open = {} /\ sweep.rest = {} /\ sweep.closing = NoId
        BY <3>1 DEF NoSweep
      <3> QED
        BY <3>1, <3>2, Types DEF TypeOK
    <2>2. CASE StaleIds(TRUE) # {}
      <3>1. sweep' = [NoSweep EXCEPT !.open = StaleIds(TRUE), !.rest = S]
        BY <1>4, <2>2
      <3>2. /\ sweep'.open = StaleIds(TRUE) /\ sweep'.rest = S /\ sweep'.closing = NoId
            /\ sweep' \in SweepState
        BY <3>1, StaleFacts DEF NoSweep, SweepState
      <3> QED
        BY <1>1, <3>2, StaleFacts
    <2> QED
      BY <2>1, <2>2
  <1>7. UNCHANGED <<status, answer, reserving, pending, deferred, task, lastEvent>>
    BY DEF SweepStart
  <1>8. TypeOK'
    <2>1. cooldown' \in [Keys -> {"none", "active", "expired"}]
      BY Types DEF SweepStart, TypeOK
    <2>2. byId' \in SUBSET Ids
      BY <1>4, Types DEF Unmapped, TypeOK
    <2> QED
      BY <1>5, <1>6, <1>7, <2>1, <2>2, Types DEF TypeOK, Shrinks
  <1>9. AnsweredInv'
    BY <1>7 DEF RestartInv, AnsweredInv
  <1>10. ASSUME mode = "running" PROVE PassInv'
    BY <1>6, <1>7, <1>10 DEF PassInv, Free, Hidden
  <1>11. ASSUME mode \in {"starting", "read"} PROVE UNCHANGED <<cluster, byId, sweep>>
    <2>1. cluster = [k \in Keys |-> NoCluster] /\ byId = {}
      BY <1>11 DEF RestartInv, RestInv
    <2>2. StaleIds(TRUE) = {}
      BY <2>1 DEF StaleIds
    <2>3. Without(cluster, S) = cluster
      BY <2>1 DEF Without
    <2>4. Unmapped(cluster, S) = byId
      BY <2>1 DEF Unmapped
    <2> QED
      BY <1>4, <2>2, <2>3, <2>4
  <1> QED
    BY <1>5, <1>7, <1>8, <1>9, <1>10, <1>11, MapKeeps

LEMMA FinishCloseKeeps ==
  ASSUME RestartInv, UNCHANGED processVars, FinishClose
  PROVE  RestartInv'
  <1>1. PICK i \in Ids : i = sweep.closing
    BY Types, SweepType DEF FinishClose
  <1>2. PICK r : r = sweep.reply
    OBVIOUS
  <1>3. PICK gone : gone = (IF r \in {"applied", "closed", "deleted"} THEN {i} ELSE {})
                             \cup (IF sweep.open = {} THEN sweep.rest ELSE {})
    OBVIOUS
  <1>4. PICK c : c = IF r \in {"silenced", "promoted"} THEN Synced(cluster, i, r) ELSE cluster
    OBVIOUS
  <1>5. /\ cluster' = Without(c, gone)
        /\ byId' = Unmapped(cluster, gone)
        /\ IF r = "applied" THEN lastEvent' = [lastEvent EXCEPT ![i] = "close"]
           ELSE lastEvent' = lastEvent
        /\ sweep' = IF sweep.open = {} THEN NoSweep
                    ELSE [sweep EXCEPT !.closing = NoId, !.reply = "none"]
        /\ UNCHANGED <<status, answer, reserving, pendingVars, cooldown, task>>
    BY <1>1, <1>2, <1>3, <1>4 DEF FinishClose, Publish
  <1>6. mode = "running" /\ r # "error" => status[i] \in Past
    BY <1>1, <1>2, IdIsSome DEF RestartInv, DrainInv, PassInv
  <1>7. gone \in SUBSET Ids /\ (mode = "running" => \A j \in gone : Free(j))
    <2>1. sweep.rest \in SUBSET Ids
      BY Types, SweepType
    <2>2. mode = "running" /\ r # "error" => Free(i)
      BY <1>6 DEF Free
    <2> QED
      BY <1>3, <2>1, <2>2 DEF RestartInv, DrainInv, PassInv
  <1>8. /\ Shrinks(c) /\ (mode = "running" => Lets(c, byId))
        /\ \A k \in Keys : cluster[k] # NoCluster => c[k] # NoCluster
    <2>1. CASE r \in {"silenced", "promoted"}
      <3>1. c = Synced(cluster, i, r)
        BY <1>4, <2>1
      <3>2. mode = "running" /\ r \in Ended => status[i] \in Past
        BY <1>6, <2>1
      <3> QED
        BY <3>1, <3>2, SyncedMaps
    <2>2. CASE r \notin {"silenced", "promoted"}
      BY <1>4, <2>2, MapsRefl
    <2> QED
      BY <2>1, <2>2
  <1>9. \A k \in Keys : c[k].id = cluster[k].id
    BY <1>8 DEF Shrinks
  <1>10. Unmapped(c, gone) = Unmapped(cluster, gone)
    <2>1. \A j \in byId : KeyOf[j] \in Keys
      BY Types DEF TypeOK
    <2> QED
      BY <1>9, <2>1 DEF Unmapped
  <1>11. Shrinks(cluster') /\ (mode = "running" => Lets(cluster', byId'))
    BY <1>5, <1>7, <1>8, <1>10, WithoutShrinks, WithoutLets
  <1>12. /\ sweep' \in SweepState /\ sweep'.closing = NoId
         /\ sweep'.open \subseteq sweep.open /\ sweep'.rest \subseteq sweep.rest
    <2>1. CASE sweep.open = {}
      BY <1>5, <2>1 DEF NoSweep, SweepState
    <2>2. CASE sweep.open # {}
      <3>1. sweep' = [sweep EXCEPT !.closing = NoId, !.reply = "none"] /\ sweep \in SweepState
        BY <1>5, <2>2, Types DEF TypeOK
      <3> QED
        BY <3>1 DEF SweepState
    <2> QED
      BY <2>1, <2>2
  <1>13. lastEvent' \in [Ids -> Events]
    BY <1>5, Types DEF TypeOK, Events, EndEvents
  <1>14. TypeOK'
    <2>1. byId' \in SUBSET Ids
      BY <1>5, Types DEF Unmapped, TypeOK
    <2> QED
      BY <1>5, <1>11, <1>12, <1>13, <2>1, Types DEF TypeOK, Shrinks
  <1>15. AnsweredInv'
    BY <1>5 DEF RestartInv, AnsweredInv
  <1>16. ASSUME mode = "running" PROVE PassInv'
    BY <1>5, <1>12, <1>16 DEF RestartInv, DrainInv, PassInv, Free, Hidden
  <1>17. mode \notin {"starting", "read"}
    <2>1. sweep # NoSweep
      BY <1>1, IdIsSome DEF NoSweep
    <2> QED
      BY <2>1 DEF RestartInv, RestInv
  <1> QED
    BY <1>5, <1>11, <1>14, <1>15, <1>16, <1>17, MapKeeps

LEMMA AnalystAnsweredKeeps ==
  ASSUME RestartInv, UNCHANGED processVars, NEW i \in Ids, AnalystAnswered(i)
  PROVE  RestartInv'
  <1>1. status[i] \in Past
    BY DEF AnalystAnswered, RestartInv, AnsweredInv
  <1>2. PICK e \in {"silence", "promote"} : lastEvent' = [lastEvent EXCEPT ![i] = e]
    BY DEF AnalystAnswered, Publish
  <1>3. /\ answer' = [answer EXCEPT ![i] = "none"]
        /\ UNCHANGED <<status, reserving, pendingVars, task, sweep>>
    BY DEF AnalystAnswered
  <1>4. PICK k \in Keys : k = KeyOf[i]
    OBVIOUS
  <1>5. /\ Shrinks(cluster') /\ (mode = "running" => Lets(cluster', byId'))
        /\ byId' \in SUBSET Ids
        /\ cooldown' \in [Keys -> {"none", "active", "expired"}]
        /\ i \notin byId => UNCHANGED <<cluster, byId>>
    <2>1. CASE i \in byId /\ MarkSilenced(i)
      <3>1. /\ cluster' = [cluster EXCEPT ![k] = NoCluster]
            /\ byId' = byId \ {i}
            /\ cooldown' = [cooldown EXCEPT ![k] = "active"]
        BY <1>4, <2>1 DEF MarkSilenced
      <3>2. /\ cluster'[k] = NoCluster /\ \A q \in Keys \ {k} : cluster'[q] = cluster[q]
            /\ cluster' \in [Keys -> ClusterState]
        BY <3>1, NoClusterFacts, Types DEF TypeOK
      <3>3. Shrinks(cluster')
        BY <3>2 DEF Shrinks
      <3>4. ASSUME mode = "running" PROVE Lets(cluster', byId')
        <4>1. cluster[k] # NoCluster =>
                /\ Free(cluster[k].id)
                /\ cluster[k].id = i \/ AllHidden(k)
          BY <1>1, <1>4, <2>1, <3>4, MappedIsFree
        <4> QED
          BY <3>1, <3>2, <4>1 DEF Lets
      <3> QED
        BY <2>1, <3>1, <3>3, <3>4, Types DEF TypeOK
    <2>2. CASE MarkPromoted(i)
      <3>1. byId' = byId /\ cooldown' = cooldown
        BY <2>2 DEF MarkPromoted
      <3>2. cluster' = Synced(cluster, i, "promoted")
        BY <2>2 DEF MarkPromoted, Synced, StoreStatus, Ended
      <3>3. i \notin byId => cluster' = cluster
        BY <2>2 DEF MarkPromoted
      <3> QED
        BY <1>1, <3>1, <3>2, <3>3, SyncedMaps, Types DEF TypeOK
    <2>3. CASE i \notin byId /\ MarkSilenced(i)
      <3>1. cluster' = cluster /\ byId' = byId /\ cooldown' = cooldown
        BY <2>3 DEF MarkSilenced
      <3> QED
        BY <3>1, MapsRefl, Types DEF TypeOK
    <2> QED
      BY <2>1, <2>2, <2>3 DEF AnalystAnswered
  <1>6. TypeOK'
    <2>1. answer' \in [Ids -> {"none", "silenced", "promoted"}]
      BY <1>3, Types DEF TypeOK
    <2>2. lastEvent' \in [Ids -> Events]
      BY <1>2, Types DEF TypeOK, Events, EndEvents
    <2> QED
      BY <1>3, <1>5, <2>1, <2>2, Types DEF TypeOK, Shrinks
  <1>7. AnsweredInv'
    BY <1>3, Types DEF RestartInv, AnsweredInv, TypeOK
  <1>8. ASSUME mode = "running" PROVE PassInv'
    BY <1>3, <1>8 DEF RestartInv, DrainInv, PassInv, Free, Hidden
  <1>9. mode \in {"starting", "read"} => UNCHANGED <<cluster, byId, sweep>>
    BY <1>3, <1>5 DEF RestartInv, RestInv
  <1> QED
    BY <1>3, <1>5, <1>6, <1>7, <1>8, <1>9, MapKeeps

-------------------------------------------------------------------------------
(* The end of handle().                                                    *)

\* Deferred hits that are absorbed change a timestamp and nothing else.
LEMMA AbsorbedKinds ==
  ASSUME NEW k \in Keys, NEW c \in [Keys -> ClusterState], NEW left,
         \A q \in Keys : c[q] # NoCluster => c[q].id # NoId,
         NEW d, d = Absorbed(k, c, left)
  PROVE  /\ d \in [Keys -> ClusterState]
         /\ \A q \in Keys : /\ d[q].id = c[q].id /\ d[q].status = c[q].status
                            /\ d[q] = NoCluster <=> c[q] = NoCluster
  <1>1. /\ d \in [Keys -> ClusterState]
        /\ \A q \in Keys : /\ d[q].id = c[q].id /\ d[q].status = c[q].status
                           /\ c[q] = NoCluster => d[q] = NoCluster
    BY AbsorbedFacts
  <1>2. \A q \in Keys : d[q] = NoCluster => c[q] = NoCluster
    BY <1>1, NoClusterFacts
  <1> QED
    BY <1>1, <1>2

\* What ReplayOrReturn does to the callers and the reservations.
LEMMA ReplayFacts ==
  ASSUME RestartInv, mode = "running", NEW w \in Handlers, task[w].at # "idle",
         NEW k \in Keys, NEW c \in [Keys -> ClusterState],
         NEW left \in 0 .. MaxDeferred, NEW holds, holds = task[w].holds,
         KeyOf[task[w].inc] = k, ReplayOrReturn(w, k, c, left, holds),
         c[k].status = "open" =>
           c[k].id \in Ids /\ KeyOf[c[k].id] = k /\ status[c[k].id] # "absent",
         UNCHANGED status,
         \A q \in Keys \ {k} : pending'[q] = pending[q], pending' = pending \/ holds
  PROVE  /\ task' \in [Handlers -> Task]
         /\ reserving' \in SUBSET Keys
         /\ cooldown' \in [Keys -> {"none", "active", "expired"}]
         /\ TaskInv' /\ CreateExclusive'
  <1>1. holds \in BOOLEAN
    BY TaskType, Types
  <1>2. /\ task' = [task EXCEPT ![w] = NextTask(k, c, left, holds)]
        /\ reserving' = IF Again(k, c, left) \/ ~holds THEN reserving ELSE reserving \ {k}
        /\ cooldown' = IF Replays(k, left) THEN [cooldown EXCEPT ![k] = "none"] ELSE cooldown
    BY DEF ReplayOrReturn
  <1>3. PICK t \in Task : t = NextTask(k, c, left, holds)
    BY <1>1, NextTaskFacts
  <1>4. /\ task' \in [Handlers -> Task]
        /\ task'[w] = t
        /\ \A v \in Handlers \ {w} : task'[v] = task[v]
    BY <1>2, <1>3, Types DEF TypeOK
  <1>5. reserving' \in SUBSET Keys /\ cooldown' \in [Keys -> {"none", "active", "expired"}]
    BY <1>2, Types DEF TypeOK
  <1>6. TaskInv /\ CreateExclusive
    BY DEF RestartInv, DrainInv
  <1>7. ASSUME NEW v \in Handlers \ {w}, task[v].holds, task[w].holds
        PROVE  KeyOf[task[v].inc] \in Keys \ {k}
    <2>1. task[v].inc \in Ids
      BY <1>6, <1>7 DEF TaskInv
    <2>2. KeyOf[task[v].inc] # KeyOf[task[w].inc]
      BY <1>6, <1>7 DEF CreateExclusive
    <2> QED
      BY <2>1, <2>2
  <1>8. ASSUME NEW v \in Handlers \ {w}, task[v].at \in {"creating", "created"}
        PROVE  pending'[KeyOf[task[v].inc]] = task[v].inc
    BY <1>6, <1>7, <1>8 DEF TaskInv
  <1>9. CASE Again(k, c, left)
    <2>1. /\ t.at = "updating" /\ t.holds = holds
          /\ t.inc \in Ids /\ KeyOf[t.inc] = k /\ status[t.inc] # "absent"
      BY <1>1, <1>3, <1>9, NextTaskFacts DEF Again
    <2>2. reserving' = reserving
      BY <1>2, <1>9
    <2>3. TaskInv'
      BY <1>4, <1>6, <1>8, <2>1 DEF TaskInv, TrueReply
    <2>4. CreateExclusive'
      BY <1>4, <1>6, <2>1, <2>2 DEF CreateExclusive
    <2> QED
      BY <1>4, <1>5, <2>3, <2>4
  <1>10. CASE ~Again(k, c, left)
    <2>1. task'[w] = Idle
      BY <1>1, <1>3, <1>4, <1>10, NextTaskFacts
    <2>2. reserving' = IF task[w].holds THEN reserving \ {k} ELSE reserving
      BY <1>2, <1>10
    <2>3. TaskInv'
      BY <1>4, <1>6, <1>8, <2>1, IdleTask DEF TaskInv, TrueReply
    <2>4. CreateExclusive'
      BY <1>4, <1>6, <1>7, <2>1, <2>2, IdleTask DEF CreateExclusive
    <2> QED
      BY <1>4, <1>5, <2>3, <2>4
  <1> QED
    BY <1>9, <1>10

LEMMA FinishUpdateKeeps ==
  ASSUME RestartInv, UNCHANGED processVars, NEW w \in Handlers, FinishUpdate(w)
  PROVE  RestartInv'
  <1>1. PICK i \in Ids : i = task[w].inc
    BY Busy DEF FinishUpdate
  <1>2. PICK k \in Keys : k = KeyOf[i]
    OBVIOUS
  <1>3. PICK r : r = task[w].reply
    OBVIOUS
  <1>4. PICK current \in BOOLEAN : current <=> cluster[k].id = i /\ cluster[k].status = "open"
    OBVIOUS
  <1>5. PICK c : c = CASE r = "deleted" -> Without(cluster, {i})
                       [] r = "open" /\ current -> [cluster EXCEPT ![k].fresh = TRUE]
                       [] OTHER -> Synced(cluster, i, r)
    OBVIOUS
  <1>6. PICK left \in 0 .. MaxDeferred : left = task[w].left
    BY TaskType, Types
  <1>7. PICK holds : holds = task[w].holds
    OBVIOUS
  <1>8. /\ task[w].at = "updated" /\ mode = "running" /\ status[i] # "absent" /\ TrueReply(i, r)
        /\ byId' = IF r = "deleted" THEN Unmapped(cluster, {i}) ELSE byId
        /\ UNCHANGED <<dbVars, pendingVars, sweep>>
    BY <1>1, <1>2, <1>3, Busy DEF FinishUpdate
  <1>9. IF r = "open" /\ current THEN lastEvent' = [lastEvent EXCEPT ![i] = "update"]
        ELSE lastEvent' = lastEvent
    BY <1>1, <1>2, <1>3, <1>4 DEF FinishUpdate, Publish
  <1>10. ReplayOrReturn(w, k, c, left, holds)
    BY <1>1, <1>2, <1>3, <1>4, <1>5, <1>6, <1>7 DEF FinishUpdate
  <1>11. Shrinks(c) /\ Lets(c, byId')
    <2>1. CASE r = "deleted"
      <3>1. Free(i)
        BY <1>8, <2>1 DEF TrueReply, Free
      <3>2. c = Without(cluster, {i}) /\ byId' = Unmapped(cluster, {i})
        BY <1>5, <1>8, <2>1
      <3>3. {i} \in SUBSET Ids /\ \A j \in {i} : Free(j)
        BY <3>1
      <3> QED
        BY <1>8, <3>2, <3>3, MapsRefl, WithoutShrinks, WithoutLets
    <2>2. CASE r = "open" /\ current
      <3>1. c = [cluster EXCEPT ![k].fresh = TRUE] /\ byId' = byId
        BY <1>5, <1>8, <2>2
      <3>2. cluster[k] # NoCluster
        BY <1>4, <2>2, NoClusterFacts
      <3>3. TRUE \in BOOLEAN
        OBVIOUS
      <3> QED
        BY <3>1, <3>2, <3>3, FreshMaps
    <2>3. CASE r # "deleted" /\ ~(r = "open" /\ current)
      <3>1. c = Synced(cluster, i, r) /\ byId' = byId
        BY <1>5, <1>8, <2>3
      <3>2. mode = "running" /\ r \in Ended => status[i] \in Past
        BY <1>8 DEF TrueReply, Ended
      <3> QED
        BY <1>8, <3>1, <3>2, SyncedMaps
    <2> QED
      BY <2>1, <2>2, <2>3
  <1>12. c \in [Keys -> ClusterState] /\ \A q \in Keys : c[q] # NoCluster => c[q].id # NoId
    BY <1>11, IdIsSome DEF Shrinks, RestartInv, NamedInv
  <1>13. Shrinks(cluster') /\ Lets(cluster', byId')
    <2>1. cluster' = Absorbed(k, c, left)
      BY <1>10 DEF ReplayOrReturn
    <2>2. /\ cluster' \in [Keys -> ClusterState]
          /\ \A q \in Keys : /\ cluster'[q].id = c[q].id /\ cluster'[q].status = c[q].status
                             /\ cluster'[q] = NoCluster <=> c[q] = NoCluster
      BY <1>12, <2>1, AbsorbedKinds
    <2> QED
      BY <1>11, <2>2 DEF Shrinks, Lets
  <1>14. c[k].status = "open" =>
           c[k].id \in Ids /\ KeyOf[c[k].id] = k /\ status[c[k].id] # "absent"
    <2> SUFFICES ASSUME c[k].status = "open"
                 PROVE  c[k].id \in Ids /\ KeyOf[c[k].id] = k /\ status[c[k].id] # "absent"
      OBVIOUS
    <2>1. c[k] # NoCluster
      BY NoClusterFacts
    <2>2. cluster[k] # NoCluster /\ c[k].id = cluster[k].id
      BY <1>11, <2>1 DEF Shrinks
    <2> QED
      BY <1>8, <2>2 DEF RestartInv, NamedInv, DrainInv, TrackedInv
  <1>15. /\ task' \in [Handlers -> Task]
         /\ reserving' \in SUBSET Keys
         /\ cooldown' \in [Keys -> {"none", "active", "expired"}]
         /\ TaskInv' /\ CreateExclusive'
    <2>1. KeyOf[task[w].inc] = k /\ task[w].at # "idle" /\ UNCHANGED <<status, pending>>
      BY <1>1, <1>2, <1>8
    <2> QED
      BY <1>7, <1>8, <1>10, <1>12, <1>14, <2>1, ReplayFacts
  <1>16. TypeOK'
    <2>1. lastEvent' \in [Ids -> Events]
      BY <1>9, Types DEF TypeOK, Events, EndEvents
    <2>2. byId' \in SUBSET Ids
      BY <1>11, Types DEF Lets, TypeOK
    <2> QED
      BY <1>8, <1>13, <1>15, <2>1, <2>2, Types DEF TypeOK, Shrinks
  <1>17. DrainInv'
    <2>1. PassInv'
      BY <1>8 DEF RestartInv, DrainInv, PassInv, Free, Hidden
    <2>2. TrackedInv' /\ MappedInv' /\ OwnedInv' /\ RetryInv'
      BY <1>8, <1>13, MapDrain
    <2> QED
      BY <1>15, <2>1, <2>2 DEF DrainInv
  <1>18. AnsweredInv' /\ NamedInv' /\ Onward
    BY <1>8, <1>13, ShrinkNames, OnwardRefl, Types DEF RestartInv, AnsweredInv
  <1> QED
    BY <1>8, <1>16, <1>17, <1>18, Assemble

LEMMA FinishCreateKeeps ==
  ASSUME RestartInv, UNCHANGED processVars, NEW w \in Handlers, FinishCreate(w)
  PROVE  RestartInv'
  <1>1. PICK i \in Ids : i = task[w].inc /\ pending[KeyOf[i]] = i
    BY Busy DEF FinishCreate
  <1>2. PICK k \in Keys : k = KeyOf[i]
    OBVIOUS
  <1>3. PICK s : s = StoreStatus(task[w].reply)
    OBVIOUS
  <1>4. /\ mode = "running" /\ task[w].at = "created" /\ task[w].reply # "error"
        /\ TrueReply(i, task[w].reply) /\ task[w].holds
    BY <1>1, Busy DEF FinishCreate
  <1>5. task[w].holds = TRUE
    BY <1>4, TaskType, Types
  <1>6. cluster[k] = NoCluster
    BY <1>1, <1>2, <1>4, IdIsSome DEF RestartInv, DrainInv, RetryInv
  <1>7. /\ s \in {"open", "promoted", "terminal"}
        /\ status[i] # "absent"
        /\ s # "open" => Free(i)
    BY <1>3, <1>4 DEF TrueReply, StoreStatus, Past, Ended, Free
  <1>8. PICK c : c = [cluster EXCEPT ![k] = [id |-> i, status |-> s, fresh |-> TRUE]]
    OBVIOUS
  <1>9. /\ c[k].id = i /\ c[k].status = s /\ c[k] \in ClusterState /\ c[k] # NoCluster
        /\ \A q \in Keys \ {k} : c[q] = cluster[q]
    BY <1>7, <1>8, NoClusterFacts, IdIsSome, Types DEF TypeOK, ClusterState
  <1>10. c \in [Keys -> ClusterState] /\ \A q \in Keys : c[q] # NoCluster => c[q].id # NoId
    BY <1>8, <1>9, IdIsSome, Types DEF TypeOK, RestartInv, NamedInv
  <1>11. PICK left \in 0 .. MaxDeferred : left = IF s = "open" THEN deferred[k] ELSE 0
    BY Types DEF TypeOK
  <1>12. /\ byId' = byId \cup {i}
         /\ pending' = [pending EXCEPT ![k] = NoId] /\ deferred' = [deferred EXCEPT ![k] = 0]
         /\ status' = status /\ answer' = answer /\ sweep' = sweep
         /\ lastEvent' = [lastEvent EXCEPT ![i] = "open"] \/ lastEvent' = lastEvent
    BY <1>1, <1>2, <1>3 DEF FinishCreate, Publish
  <1>13. ReplayOrReturn(w, k, c, left, TRUE)
    BY <1>1, <1>2, <1>3, <1>8, <1>11 DEF FinishCreate
  <1>14. /\ cluster' \in [Keys -> ClusterState]
         /\ cluster'[k].id = i /\ cluster'[k].status = s
         /\ \A q \in Keys \ {k} : /\ cluster'[q].id = cluster[q].id
                                  /\ cluster'[q].status = cluster[q].status
                                  /\ cluster'[q] = NoCluster <=> cluster[q] = NoCluster
    <2>1. cluster' = Absorbed(k, c, left)
      BY <1>13 DEF ReplayOrReturn
    <2>2. /\ cluster' \in [Keys -> ClusterState]
          /\ \A q \in Keys : /\ cluster'[q].id = c[q].id /\ cluster'[q].status = c[q].status
                             /\ cluster'[q] = NoCluster <=> c[q] = NoCluster
      BY <1>10, <2>1, AbsorbedKinds
    <2> QED
      BY <1>9, <2>2
  <1>15. /\ pending'[k] = NoId /\ \A q \in Keys \ {k} : pending'[q] = pending[q]
         /\ pending' \in [Keys -> Ids \cup {NoId}] /\ deferred' \in [Keys -> 0 .. MaxDeferred]
    BY <1>12, Types DEF TypeOK
  <1>16. /\ task' \in [Handlers -> Task]
         /\ reserving' \in SUBSET Keys
         /\ cooldown' \in [Keys -> {"none", "active", "expired"}]
         /\ TaskInv' /\ CreateExclusive'
    <2>1. KeyOf[task[w].inc] = k /\ task[w].at # "idle" /\ UNCHANGED status
      BY <1>1, <1>2, <1>4, <1>12
    <2>2. c[k].status = "open" =>
            c[k].id \in Ids /\ KeyOf[c[k].id] = k /\ status[c[k].id] # "absent"
      BY <1>2, <1>7, <1>9
    <2> QED
      BY <1>4, <1>5, <1>10, <1>13, <1>15, <2>1, <2>2, ReplayFacts
  <1>17. TypeOK'
    <2>1. lastEvent' \in [Ids -> Events]
      BY <1>12, Types DEF TypeOK, Events, EndEvents
    <2>2. byId' \in SUBSET Ids
      BY <1>12, Types DEF TypeOK
    <2> QED
      BY <1>12, <1>14, <1>15, <1>16, <2>1, <2>2, Types DEF TypeOK
  <1>18. NamedInv'
    BY <1>2, <1>14 DEF RestartInv, NamedInv
  <1>19. \A j : Free(j)' <=> Free(j)
    BY <1>12 DEF Free, Hidden
  <1>20. \A q : AllHidden(q)' <=> AllHidden(q)
    BY <1>12 DEF AllHidden, Hidden
  <1>21. TrackedInv'
    <2> SUFFICES ASSUME NEW q \in Keys, cluster'[q] # NoCluster, NEW j, j = cluster'[q].id
                 PROVE  /\ status[j] # "absent"
                        /\ cluster'[q].status # "open" => Free(j)'
      BY <1>12 DEF TrackedInv
    <2>1. CASE q = k
      BY <1>7, <1>14, <1>19, <2>1
    <2>2. CASE q # k
      <3>1. cluster[q] # NoCluster /\ j = cluster[q].id /\ cluster'[q].status = cluster[q].status
        BY <1>14, <2>2
      <3> QED
        BY <1>4, <1>19, <3>1 DEF RestartInv, DrainInv, TrackedInv
    <2> QED
      BY <2>1, <2>2
  <1>22. MappedInv'
    <2> SUFFICES ASSUME NEW j \in byId \cup {i}
                 PROVE  cluster'[KeyOf[j]].id = j \/ AllHidden(KeyOf[j])
      BY <1>12, <1>20 DEF MappedInv
    <2>1. j \in Ids /\ KeyOf[j] \in Keys
      BY Types DEF TypeOK
    <2>2. CASE j = i
      BY <1>2, <1>14, <2>2
    <2>3. CASE j # i
      <3>1. cluster[KeyOf[j]].id = j \/ AllHidden(KeyOf[j])
        BY <1>4, <2>3 DEF RestartInv, DrainInv, MappedInv
      <3>2. CASE KeyOf[j] = k
        BY <1>6, <2>1, <3>1, <3>2, NoClusterFacts, IdIsSome
      <3>3. CASE KeyOf[j] # k
        BY <1>14, <2>1, <3>1, <3>3
      <3> QED
        BY <3>2, <3>3
    <2> QED
      BY <2>2, <2>3
  <1>23. OwnedInv'
    <2> SUFFICES ASSUME NEW j \in Ids, status[j] = "open", ~Free(j)
                 PROVE  cluster'[KeyOf[j]].id = j \/ pending'[KeyOf[j]] = j
      BY <1>12, <1>19 DEF OwnedInv
    <2>1. cluster[KeyOf[j]].id = j \/ pending[KeyOf[j]] = j
      BY <1>4 DEF RestartInv, DrainInv, OwnedInv
    <2>2. CASE KeyOf[j] = k
      BY <1>1, <1>2, <1>6, <1>14, <2>1, <2>2, IdIsSome, NoClusterFacts
    <2>3. CASE KeyOf[j] # k
      BY <1>14, <1>15, <2>1, <2>3
    <2> QED
      BY <2>2, <2>3
  <1>24. RetryInv'
    BY <1>4, <1>12, <1>14, <1>15 DEF RestartInv, DrainInv, RetryInv
  <1>25. PassInv'
    BY <1>4, <1>12, <1>19 DEF RestartInv, DrainInv, PassInv
  <1>26. AnsweredInv' /\ Onward
    BY <1>12, OnwardRefl, Types DEF RestartInv, AnsweredInv
  <1> QED
    BY <1>4, <1>16, <1>17, <1>18, <1>21, <1>22, <1>23, <1>24, <1>25, <1>26, Assemble DEF DrainInv

-------------------------------------------------------------------------------
(* The process: crash, read, rehydration.                                  *)

LEMMA InitRestartInv == RestartInit => RestartInv
  <1> SUFFICES ASSUME RestartInit PROVE RestartInv
    OBVIOUS
  <1>1. TypeOK
    <2>1. cluster \in [Keys -> ClusterState] /\ task \in [Handlers -> Task]
      BY NoClusterFacts, IdleTask DEF RestartInit
    <2>2. sweep \in SweepState
      BY DEF RestartInit, SweepState, NoSweep, NoId
    <2>3. /\ status \in [Ids -> DbStatus] /\ answer \in [Ids -> {"none", "silenced", "promoted"}]
          /\ byId \in SUBSET Ids /\ reserving \in SUBSET Keys
          /\ pending \in [Keys -> Ids \cup {NoId}] /\ deferred \in [Keys -> 0 .. MaxDeferred]
          /\ cooldown \in [Keys -> {"none", "active", "expired"}]
          /\ lastEvent \in [Ids -> Events]
      BY DEF RestartInit, DbStatus, Events
    <2> QED
      BY <2>1, <2>2, <2>3 DEF TypeOK
  <1>2. RestartTypeOK
    <2>1. restarts \in 0 .. MaxRestarts
      <3>1. restarts = 0 /\ MaxRestarts \in Nat
        BY RestartAssumption DEF RestartInit, RestartAssumption
      <3> QED
        BY <3>1
    <2>2. mode \in {"starting", "read", "running", "blocked"} /\ degraded \in BOOLEAN
      BY DEF RestartInit
    <2>3. rows \in [Ids -> {"none", "open", "promoted"}]
      BY DEF RestartInit, NoRows
    <2> QED
      BY <1>1, <2>1, <2>2, <2>3 DEF RestartTypeOK
  <1>3. Numbering /\ OlderInv /\ AnsweredInv /\ RestInv
    BY DEF RestartInit, Numbering, OlderInv, AnsweredInv, RestInv
  <1>4. RowsInv /\ NamedInv /\ mode # "running"
    BY DEF RestartInit, RowsInv, NamedInv
  <1> QED
    BY <1>2, <1>3, <1>4 DEF RestartInv

LEMMA CrashKeeps ==
  ASSUME RestartInv, Crash
  PROVE  RestartInv'
  <1>1. TypeOK'
    <2>1. cluster' \in [Keys -> ClusterState] /\ task' \in [Handlers -> Task]
      BY NoClusterFacts, IdleTask DEF Crash
    <2>2. sweep' \in SweepState
      BY DEF Crash, SweepState, NoSweep, NoId
    <2>3. /\ status' \in [Ids -> DbStatus] /\ answer' \in [Ids -> {"none", "silenced", "promoted"}]
          /\ byId' \in SUBSET Ids /\ reserving' \in SUBSET Keys
          /\ pending' \in [Keys -> Ids \cup {NoId}] /\ deferred' \in [Keys -> 0 .. MaxDeferred]
          /\ cooldown' \in [Keys -> {"none", "active", "expired"}]
          /\ lastEvent' \in [Ids -> Events]
      BY Types DEF Crash, TypeOK
    <2> QED
      BY <2>1, <2>2, <2>3 DEF TypeOK
  <1>2. RestartTypeOK'
    <2>1. restarts' \in 0 .. MaxRestarts
      BY RestartAssumption DEF RestartInv, RestartTypeOK, Crash, RestartAssumption
    <2> QED
      BY <1>1, <2>1 DEF Crash, RestartTypeOK, NoRows
  <1>3. Numbering' /\ OlderInv'
    BY DEF Crash, RestartInv, Numbering, OlderInv, Hidden
  <1>4. AnsweredInv' /\ RestInv' /\ RowsInv' /\ NamedInv' /\ mode' # "running"
    BY DEF Crash, AnsweredInv, RestInv, RowsInv, NamedInv
  <1> QED
    BY <1>2, <1>3, <1>4 DEF RestartInv

LEMMA ReadFailsKeeps ==
  ASSUME RestartInv, ReadFails
  PROVE  RestartInv'
  <1>1. RestartTypeOK'
    <2>1. TypeOK'
      BY Types DEF ReadFails, vars, TypeOK
    <2> QED
      BY <2>1 DEF ReadFails, RestartInv, RestartTypeOK
  <1>2. Numbering' /\ OlderInv'
    BY DEF ReadFails, vars, RestartInv, Numbering, OlderInv, Hidden
  <1>3. AnsweredInv' /\ RestInv' /\ RowsInv' /\ NamedInv' /\ mode' # "running"
    BY DEF ReadFails, vars, RestartInv, AnsweredInv, RestInv, RowsInv, NamedInv
  <1> QED
    BY <1>1, <1>2, <1>3 DEF RestartInv

\* What the query saw.
LEMMA ReadKeeps ==
  ASSUME RestartInv, Read
  PROVE  RestartInv'
  <1>1. PICK lost \in SUBSET Live(status) : rows' = RowsOf(lost) /\ degraded' = (lost # {})
    BY DEF Read
  <1>2. UNCHANGED vars /\ mode = "starting" /\ mode' = "read"
    BY DEF Read
  <1>3. TypeOK'
    BY <1>2, Types DEF vars, TypeOK
  <1>4. /\ rows' \in [Ids -> {"none", "open", "promoted"}]
        /\ \A i \in Ids : rows'[i] # "none" => rows'[i] = status[i]
        /\ \A i \in Ids : lost = {} /\ status[i] = "open" => rows'[i] = "open"
    BY <1>1 DEF RowsOf, Live
  <1>5. RestartTypeOK'
    BY <1>1, <1>2, <1>3, <1>4 DEF Read, RestartInv, RestartTypeOK
  <1>6. Numbering' /\ OlderInv'
    BY <1>2 DEF vars, RestartInv, Numbering, OlderInv, Hidden
  <1>7. AnsweredInv' /\ RestInv' /\ NamedInv'
    BY <1>2 DEF vars, RestartInv, AnsweredInv, RestInv, NamedInv
  <1>8. RowsInv'
    <2> SUFFICES ASSUME NEW i \in Ids
                 PROVE  /\ status[i] = "open" /\ ~degraded' => rows'[i] = "open"
                        /\ rows'[i] = "promoted" => status[i] \in {"promoted", "deleted"}
                        /\ rows'[i] = "open" =>
                             /\ status[i] # "absent"
                             /\ \A j \in Ids : i < j /\ KeyOf[j] = KeyOf[i] /\ status[j] # "absent"
                                                 => Hidden(i)'
      BY <1>2 DEF vars, RowsInv
    <2>1. rows'[i] = "open" => status[i] = "open"
      BY <1>4
    <2>2. Hidden(i) => Hidden(i)'
      BY <1>2 DEF vars, Hidden
    <2> QED
      BY <1>1, <1>4, <2>1, <2>2 DEF RestartInv, OlderInv
  <1> QED
    BY <1>2, <1>5, <1>6, <1>7, <1>8 DEF RestartInv

\* A set of ids has a smallest one.
LEMMA OldestFacts ==
  ASSUME NEW S \in SUBSET Ids, S # {}
  PROVE  Oldest(S) \in S /\ \A j \in S : Oldest(S) <= j
  <1> DEFINE R == {p \in Nat \X Nat : p[1] < p[2]}
  <1>1. R = OpToRel(<, Nat)
    BY DEF OpToRel
  <1>2. IsWellFoundedOn(R, Nat)
    BY <1>1, NatLessThanWellFounded
  <1>3. S \subseteq Nat
    OBVIOUS
  <1> HIDE DEF R
  <1>4. PICK i \in S : \A j \in S : ~ (<<j, i>> \in R)
    BY <1>2, <1>3, WFMin
  <1>5. ASSUME NEW j \in S PROVE i <= j
    <2>1. <<j, i>> \notin R
      BY <1>4
    <2>2. i \in Nat /\ j \in Nat
      BY <1>3
    <2>3. ~(j < i)
      BY <2>1, <2>2 DEF R
    <2> QED
      BY <2>2, <2>3
  <1> QED
    BY <1>5 DEF Oldest

\* The clusters that the rows make.
LEMMA RehydratedFacts ==
  ASSUME RestartInv, Rehydrate, NEW k \in Keys
  PROVE  \/ cluster'[k] = NoCluster /\ \A i \in Ids : KeyOf[i] = k => rows[i] = "none"
         \/ \E i \in Ids :
              /\ KeyOf[i] = k /\ rows[i] \in {"open", "promoted"}
              /\ cluster'[k].id = i /\ cluster'[k].status = rows[i]
              /\ cluster'[k] \in ClusterState /\ cluster'[k] # NoCluster
              /\ \A j \in Ids : KeyOf[j] = k /\ rows[j] # "none" => i <= j
  <1>1. PICK F \in SUBSET Ids :
          cluster' = [q \in Keys |->
            IF RowsFor(q) = {} THEN cluster[q]
            ELSE LET i == Oldest(RowsFor(q))
                 IN [id |-> i, status |-> rows[i], fresh |-> i \in F]]
    BY DEF Rehydrate
  <1>2. cluster[k] = NoCluster
    BY DEF Rehydrate, RestartInv, RestInv
  <1>3. CASE RowsFor(k) = {}
    BY <1>1, <1>2, <1>3 DEF RowsFor
  <1>4. CASE RowsFor(k) # {}
    <2>1. RowsFor(k) \in SUBSET Ids
      BY DEF RowsFor
    <2>2. PICK i : i = Oldest(RowsFor(k))
      OBVIOUS
    <2>3. i \in RowsFor(k) /\ \A j \in RowsFor(k) : i <= j
      BY <1>4, <2>1, <2>2, OldestFacts
    <2>4. cluster'[k] = [id |-> i, status |-> rows[i], fresh |-> i \in F]
      BY <1>1, <1>4, <2>2
    <2>5. i \in Ids /\ KeyOf[i] = k /\ rows[i] \in {"open", "promoted"}
      BY <2>3 DEF RowsFor, RestartInv, RestartTypeOK
    <2>6. (i \in F) \in BOOLEAN
      OBVIOUS
    <2>7. cluster'[k] \in ClusterState /\ cluster'[k].id = i /\ cluster'[k].status = rows[i]
      BY <2>4, <2>5, <2>6 DEF ClusterState
    <2>8. cluster'[k] # NoCluster
      BY <2>5, <2>7, NoClusterFacts, IdIsSome
    <2>9. \A j \in Ids : KeyOf[j] = k /\ rows[j] # "none" => i <= j
      BY <2>3 DEF RowsFor
    <2> QED
      BY <2>5, <2>7, <2>8, <2>9
  <1> QED
    BY <1>3, <1>4

LEMMA RehydrateKeeps ==
  ASSUME RestartInv, Rehydrate
  PROVE  RestartInv'
  <1>1. /\ mode = "read" /\ mode' = (IF degraded THEN "blocked" ELSE "running")
        /\ rows' = NoRows
        /\ byId' = {i \in Ids : rows[i] # "none"}
        /\ UNCHANGED <<status, answer, reserving, pending, deferred, cooldown, task, sweep,
                       lastEvent, degraded, restarts>>
    BY DEF Rehydrate, RestartInv, RestInv
  <1>2. cluster' \in [Keys -> ClusterState]
    <2>1. \A k \in Keys : cluster'[k] \in ClusterState
      BY RehydratedFacts, NoClusterFacts
    <2>2. cluster' = [k \in Keys |-> cluster'[k]]
      BY DEF Rehydrate
    <2> QED
      BY <2>1, <2>2
  <1>3. TypeOK'
    BY <1>1, <1>2, Types DEF TypeOK
  <1>4. RestartTypeOK'
    BY <1>1, <1>3 DEF RestartInv, RestartTypeOK, NoRows
  <1>5. Numbering' /\ OlderInv' /\ AnsweredInv'
    BY <1>1 DEF RestartInv, Numbering, OlderInv, AnsweredInv, Hidden
  <1>6. /\ task = [w \in Handlers |-> Idle] /\ pending = [k \in Keys |-> NoId] /\ reserving = {}
        /\ sweep = NoSweep
    BY <1>1 DEF RestartInv, RestInv
  <1>7. RestInv' /\ RowsInv'
    BY <1>1, <1>6 DEF RestInv, RowsInv
  <1>8. NamedInv'
    BY RehydratedFacts DEF NamedInv
  <1>9. ASSUME ~degraded PROVE DrainInv'
    <2>1. \A i : Hidden(i)' <=> Hidden(i)
      BY <1>1 DEF Hidden
    <2>2. \A i : Free(i)' <=> Free(i)
      BY <1>1, <2>1 DEF Free
    <2>3. /\ \A i \in Ids : status[i] = "open" => rows[i] = "open"
          /\ \A i \in Ids : rows[i] = "promoted" => status[i] \in {"promoted", "deleted"}
          /\ \A i \in Ids : rows[i] = "open" => status[i] # "absent"
          /\ \A i, j \in Ids : rows[i] = "open" /\ i < j /\ KeyOf[j] = KeyOf[i]
                                 /\ status[j] # "absent" => Hidden(i)
      BY <1>1, <1>9 DEF RestartInv, RowsInv
    <2>4. TrackedInv'
      <3> SUFFICES ASSUME NEW k \in Keys, cluster'[k] # NoCluster, NEW i, i = cluster'[k].id
                   PROVE  /\ status[i] # "absent"
                          /\ cluster'[k].status # "open" => Free(i)
        BY <1>1, <2>2 DEF TrackedInv
      <3>1. /\ i \in Ids /\ rows[i] \in {"open", "promoted"} /\ cluster'[k].status = rows[i]
        BY RehydratedFacts
      <3> QED
        BY <2>3, <3>1 DEF Free, Past, Ended
    <2>5. ASSUME NEW i \in Ids, rows[i] # "none", cluster'[KeyOf[i]].id # i
          PROVE  AllHidden(KeyOf[i])
      <3>1. PICK o \in Ids :
              /\ KeyOf[o] = KeyOf[i] /\ rows[o] \in {"open", "promoted"}
              /\ cluster'[KeyOf[i]].id = o
              /\ \A j \in Ids : KeyOf[j] = KeyOf[i] /\ rows[j] # "none" => o <= j
        BY <2>5, RehydratedFacts
      <3>2. o < i
        <4>1. o <= i
          BY <2>5, <3>1
        <4>2. o # i
          BY <2>5, <3>1
        <4>3. o \in Nat /\ i \in Nat
          BY <2>5, <3>1
        <4> QED
          BY <4>1, <4>2, <4>3
      <3>3. status[i] # "absent"
        <4>1. rows[i] \in {"open", "promoted"}
          BY <2>5 DEF RestartInv, RestartTypeOK
        <4> QED
          BY <2>3, <4>1
      <3> SUFFICES ASSUME NEW j \in Ids, KeyOf[j] = KeyOf[i], status[j] \in {"absent", "open"}
                   PROVE  Hidden(j)
        BY DEF AllHidden
      <3>4. o <= j
        <4>1. CASE status[j] = "open"
          BY <2>3, <3>1, <4>1
        <4>2. CASE status[j] = "absent"
          <5>1. ~(j < i)
            BY <3>3, <4>2 DEF RestartInv, Numbering
          <5> QED
            BY <3>2, <5>1
        <4> QED
          BY <4>1, <4>2
      <3>5. CASE rows[o] = "promoted"
        <4>1. status[o] \in {"promoted", "deleted"}
          BY <2>3, <3>5
        <4>2. o # j
          BY <4>1
        <4>3. o < j
          BY <3>4, <4>2
        <4> QED
          BY <3>1, <4>1, <4>3 DEF Hidden
      <3>6. CASE rows[o] = "open"
        <4>1. Hidden(o)
          BY <2>3, <3>1, <3>2, <3>3, <3>6
        <4>2. PICK h \in Ids : h < o /\ KeyOf[h] = KeyOf[o] /\ status[h] \in {"promoted", "deleted"}
          BY <4>1 DEF Hidden
        <4>3. h < j
          BY <3>4, <4>2
        <4> QED
          BY <3>1, <4>2, <4>3 DEF Hidden
      <3> QED
        BY <3>1, <3>5, <3>6
    <2>6. MappedInv'
      <3> SUFFICES ASSUME NEW i \in byId', cluster'[KeyOf[i]].id # i
                   PROVE  AllHidden(KeyOf[i])'
        BY DEF MappedInv
      <3>1. AllHidden(KeyOf[i])
        BY <1>1, <2>5
      <3> QED
        BY <1>1, <2>1, <3>1 DEF AllHidden
    <2>7. OwnedInv'
      <3> SUFFICES ASSUME NEW i \in Ids, status[i] = "open", cluster'[KeyOf[i]].id # i
                   PROVE  Free(i)
        BY <1>1, <2>2 DEF OwnedInv
      <3>1. AllHidden(KeyOf[i])
        BY <2>3, <2>5
      <3> QED
        BY <3>1 DEF AllHidden, Free
    <2>8. RetryInv'
      BY <1>1, <1>6 DEF RetryInv
    <2>9. TaskInv' /\ CreateExclusive'
      BY <1>1, <1>6, IdleTask DEF TaskInv, CreateExclusive
    <2>10. PassInv'
      BY <1>1, <1>6 DEF PassInv, NoSweep
    <2> QED
      BY <2>4, <2>6, <2>7, <2>8, <2>9, <2>10 DEF DrainInv
  <1>10. mode' = "running" => DrainInv'
    BY <1>1, <1>9
  <1> QED
    BY <1>4, <1>5, <1>7, <1>8, <1>10 DEF RestartInv

-------------------------------------------------------------------------------
(* Every step, and what follows for every behaviour.                       *)

LEMMA DrainKeeps ==
  ASSUME RestartInv, UNCHANGED processVars, Drain
  PROVE  RestartInv'
  <1>1. PICK w \in Handlers, k \in Keys : mode = "running" /\ Decide(w, k)
    BY DEF Drain
  <1> QED
    BY <1>1, StartCreateKeeps, RaceDroppedKeeps, AbsorbKeeps, StartUpdateKeeps DEF Decide

LEMMA OthersKeep ==
  ASSUME RestartInv, UNCHANGED processVars, Others
  PROVE  RestartInv'
  <1>1. ASSUME NEW w \in Handlers, Database(w) PROVE RestartInv'
    BY <1>1, CreateIncidentKeeps, CreateRaisesKeeps, ApplySignalUpdateKeeps, UpdateRaisesKeeps
       DEF Database
  <1>2. ASSUME NEW w \in Handlers, UpdateReplayed(w) PROVE RestartInv'
    BY <1>2, UpdateReplayedKeeps
  <1>3. ASSUME NEW w \in Handlers, Resume(w) PROVE RestartInv'
    BY <1>3, FailedCreateKeeps, FinishCreateKeeps, FinishUpdateKeeps DEF Resume
  <1>4. CASE SweepStart \/ FinishClose
    BY <1>4, SweepStartKeeps, FinishCloseKeeps
  <1>5. ASSUME NEW i \in Ids, CloseIncident(i) \/ CloseRaises(i) PROVE RestartInv'
    BY <1>5, CloseIncidentKeeps, CloseRaisesKeeps
  <1>6. ASSUME NEW i \in Ids, AnalystDecides(i) \/ AnalystAnswerLost(i) \/ AnalystAnswered(i)
        PROVE  RestartInv'
    BY <1>6, AnalystDecidesKeeps, AnalystAnswerLostKeeps, AnalystAnsweredKeeps
  <1>7. ASSUME NEW i \in Ids, DeleteIncident(i) PROVE RestartInv'
    BY <1>7, DeleteIncidentKeeps
  <1>8. ASSUME NEW k \in Keys, QuietElapses(k) \/ CooldownElapses(k) PROVE RestartInv'
    BY <1>8, QuietElapsesKeeps, CooldownElapsesKeeps
  <1> QED
    BY <1>1, <1>2, <1>3, <1>4, <1>5, <1>6, <1>7, <1>8 DEF Others

LEMMA StutterKeeps ==
  ASSUME RestartInv, UNCHANGED allVars
  PROVE  RestartInv'
  <1>1. UNCHANGED vars /\ UNCHANGED processVars
    BY DEF allVars
  <1>2. UNCHANGED <<status, answer, cluster, byId, reserving, pending, deferred, cooldown, task,
                    sweep, lastEvent>>
    BY <1>1 DEF vars
  <1>3. TypeOK'
    BY <1>2, Types DEF TypeOK
  <1>4. AnsweredInv'
    BY <1>2 DEF RestartInv, AnsweredInv
  <1>5. ASSUME mode = "running" PROVE PassInv'
    BY <1>2, <1>5 DEF RestartInv, DrainInv, PassInv, Free, Hidden
  <1> QED
    BY <1>1, <1>2, <1>3, <1>4, <1>5, MapsRefl, MapKeeps

LEMMA RestartStep == RestartInv /\ [RestartNext]_allVars => RestartInv'
  <1> SUFFICES ASSUME RestartInv, [RestartNext]_allVars PROVE RestartInv'
    OBVIOUS
  <1>1. CASE Crash \/ Read \/ ReadFails \/ Rehydrate
    BY <1>1, CrashKeeps, ReadKeeps, ReadFailsKeeps, RehydrateKeeps
  <1>2. CASE (Drain \/ Others) /\ UNCHANGED processVars
    BY <1>2, DrainKeeps, OthersKeep
  <1>3. CASE UNCHANGED allVars
    BY <1>3, StutterKeeps
  <1> QED
    BY <1>1, <1>2, <1>3 DEF RestartNext

\* The store, the table and the rows a start has read stay in the relation that
\* RestartInv describes, through any number of crashes, failed reads and degraded
\* rehydrations, and with every interleaving of ClusterStore in between.
THEOREM RestartInvariant == RestartSpec => []RestartInv
  BY InitRestartInv, RestartStep, PTL DEF RestartSpec

\* Every variable of the process and its store keeps its type across restarts.
THEOREM RestartTypes == RestartSpec => []RestartTypeOK
  <1>1. RestartInv => RestartTypeOK
    BY DEF RestartInv
  <1> QED
    BY <1>1, RestartInvariant, PTL

\* No restart orphans an open incident: once the drain runs, the store tracks it or
\* will retry its create, unless an older incident of its burst was promoted.
THEOREM OrphansHaveCause == RestartSpec => []OrphanNeedsPromoted
  <1>1. RestartInv => OrphanNeedsPromoted
    <2> SUFFICES ASSUME RestartInv, mode = "running", NEW i \in Ids, status[i] = "open",
                        cluster[KeyOf[i]].id # i, pending[KeyOf[i]] # i
                 PROVE  \E j \in Ids : /\ j < i /\ KeyOf[j] = KeyOf[i]
                                       /\ status[j] \in {"promoted", "deleted"}
      BY DEF OrphanNeedsPromoted
    <2>1. Free(i)
      BY DEF RestartInv, DrainInv, OwnedInv
    <2> QED
      BY <2>1 DEF Free, Hidden, Past, Ended
  <1> QED
    BY <1>1, RestartInvariant, PTL

===============================================================================
