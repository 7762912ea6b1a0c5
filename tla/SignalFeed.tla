------------------------------ MODULE SignalFeed ------------------------------
(***************************************************************************)
(* The path of an ingestion signal from the Redis stream to the landing    *)
(* page: redis_consumer_loop reads the stream into the backend's ring      *)
(* buffer (SignalStream), one SSE generator per connection replays and     *)
(* tails the ring, and useSignalFeed in the browser hydrates over REST,    *)
(* follows the SSE stream, reconnects, and fetches a fresh snapshot when   *)
(* the server answers a stale Last-Event-ID with "reset".                  *)
(*                                                                         *)
(* The backend is one asyncio loop and the browser one event loop: the     *)
(* code between two awaits is one step.  Records are numbered in the order *)
(* of their Redis ids, 0 stands for "no id" ("$", null).  The replay       *)
(* window is a horizon: ids below it are older than window_seconds.        *)
(***************************************************************************)
EXTENDS Naturals, FiniteSets, Sequences, SequencesExt

CONSTANTS
  MaxRecords,   \* bound on the records ingestion adds to Redis
  BatchSize,    \* XREAD count (100)
  RingSize,     \* signals_ring_buffer_size (2000)
  QueueSize,    \* maxsize of a live queue (1000)
  FeedCap,      \* newest signals shown (6)
  DedupeCap,    \* ids the browser remembers (500)
  MaxFeedFaults \* bound on lost connections, failed requests and restarts

ASSUME SignalFeedAssumption ==
  /\ MaxRecords \in Nat /\ MaxFeedFaults \in Nat
  /\ {BatchSize, RingSize, QueueSize, FeedCap, DedupeCap} \subseteq Nat \ {0}

\* What is shown is also remembered: FEED_CAP is 6, DEDUPE_CAP 500.
ASSUME ShownIsRemembered == FeedCap <= DedupeCap

VARIABLES
  added,        \* records in the Redis stream
  horizon,      \* first id still inside the replay window
  cursor,       \* last_id of the consumer loop
  reading,      \* the id a blocked XREAD reads after
  ring,         \* SignalStream._buffer
  seen,         \* SignalStream._seen_record_ids
  queue,        \* live queue of the browser's connection
  delivered,    \* last_delivered of its generator
  wire,         \* frames under way to the browser
  phase,        \* life of the browser's connection
  url,          \* last_event_id in the URL of the connection being opened
  items,        \* the signals shown
  dedupe,       \* dedupeOrderRef (dedupeRef holds the same ids)
  lastId,       \* lastEventIdRef
  fetch,        \* the REST request under way: its state or its answer
  resetBuffer,  \* ids that arrived since the last reset frame
  missed,       \* history: a frame was lost that no resynchronisation follows
  feedFaults

redisVars == <<added, horizon>>
ringVars == <<cursor, reading, ring, seen>>
connVars == <<queue, delivered, wire, phase, url>>
viewVars == <<items, dedupe, lastId, fetch, resetBuffer>>
feedVars == <<redisVars, ringVars, connVars, viewVars, missed, feedFaults>>

NoId == 0
NoRead == MaxRecords + 1          \* no XREAD is outstanding
NoBuffer == {NoId}                \* resetBuffer is null
Reset == NoId                    \* the only frame without an id
NoFetch == [at |-> "none", ids |-> {}]
FetchAsked == [at |-> "asked", ids |-> {}]
Answered(ids) == [at |-> "answered", ids |-> ids]
FetchFailed == [at |-> "failed", ids |-> {}]

-------------------------------------------------------------------------------
(* The ring buffer *)

\* The buffer from the first of these places on.
From(buffer, places) ==
  IF places = {} THEN <<>>
  ELSE SubSeq(buffer, CHOOSE n \in places : \A m \in places : n <= m, Len(buffer))

\* _prune: entries leave at the head, up to the first one inside the window.
Pruned(buffer) == From(buffer, {n \in DOMAIN buffer : buffer[n] >= horizon})

\* An entry that leaves the ring leaves the set of seen ids.
SeenAfterPrune(buffer, ids) == ids \ (Range(buffer) \ Range(Pruned(buffer)))

NewestIn(ids, k) == {i \in ids : Cardinality({j \in ids : j > i}) < k}

\* insert_record on the ring, its seen ids and the live queue; a full live queue
\* drops the envelope.
InsertRecord(s, id) ==
  LET fresh == Pruned(s.ring)
      alive == SeenAfterPrune(s.ring, s.seen)
      full == Len(fresh) = RingSize
      drops == phase = "live" /\ Len(s.queue) = QueueSize
  IN  IF id \in s.seen THEN s
      ELSE [ring |-> Append(IF full THEN Tail(fresh) ELSE fresh, id),
            seen |-> (IF full THEN alive \ {Head(fresh)} ELSE alive) \cup {id},
            queue |-> IF phase = "live" /\ ~drops THEN Append(s.queue, id) ELSE s.queue,
            lost |-> s.lost \/ drops]

\* The records of a reply, one after the other.
InsertAll(s, entries) == FoldLeft(InsertRecord, s, entries)

\* An id older than the ring cannot be caught up with.
StaleId(buffer, last) == last # NoId /\ buffer # <<>> /\ last < Head(buffer)

\* Mutant: the entry the client already has is replayed, the one after it is not.
ReplaySkipsOne(buffer, last) ==
  IF last = NoId \/ buffer = <<>> \/ StaleId(buffer, last) THEN <<>>
  ELSE SelectSeq(buffer, LAMBDA e : e = last \/ e > last + 1)

\* get_replay: no id and an empty ring both answer "ok" with nothing.  The entries with
\* a higher id are the last of the ring, because its ids ascend (RingHasNoHole).
Replay(buffer, last) ==
  IF last = NoId \/ buffer = <<>> \/ StaleId(buffer, last) THEN <<>>
  ELSE From(buffer, {n \in DOMAIN buffer : buffer[n] > last})

-------------------------------------------------------------------------------
(* Redis and its consumer *)

RecordAdded ==
  /\ added < MaxRecords
  /\ added' = added + 1
  /\ UNCHANGED <<horizon, ringVars, connVars, viewVars, missed, feedFaults>>

WindowMoves ==
  /\ \E h \in horizon + 1 .. added + 1 : horizon' = h
  /\ UNCHANGED <<added, ringVars, connVars, viewVars, missed, feedFaults>>

\* XREAD BLOCK: "$" stands for the end of the stream when the call is made.
PollBegins ==
  /\ reading = NoRead
  /\ reading' = IF cursor = NoId THEN added ELSE cursor
  /\ UNCHANGED <<redisVars, cursor, ring, seen, connVars, viewVars, missed, feedFaults>>

\* The reply, or the end of the block interval without one.
PollReturns ==
  /\ reading # NoRead
  /\ LET entries == [n \in 1 .. Min({BatchSize, added - reading}) |-> reading + n]
         after == InsertAll([ring |-> ring, seen |-> seen, queue |-> queue, lost |-> FALSE],
                            entries)
     IN  /\ cursor' = IF entries = <<>> THEN cursor ELSE Last(entries)
         /\ ring' = after.ring
         /\ seen' = after.seen
         /\ queue' = after.queue
         /\ missed' = (missed \/ after.lost)
  /\ reading' = NoRead
  /\ UNCHANGED <<redisVars, delivered, wire, phase, url, viewVars, feedFaults>>

\* Mutant: the loop starts again at the end of the stream after an error.
PollFailsFromEnd ==
  /\ reading # NoRead
  /\ feedFaults < MaxFeedFaults
  /\ feedFaults' = feedFaults + 1
  /\ reading' = NoRead
  /\ cursor' = NoId
  /\ UNCHANGED <<redisVars, ring, seen, connVars, viewVars, missed>>

\* A Redis error: the client is thrown away, last_id is kept for the next one.
PollFails ==
  /\ reading # NoRead
  /\ feedFaults < MaxFeedFaults
  /\ feedFaults' = feedFaults + 1
  /\ reading' = NoRead
  /\ UNCHANGED <<redisVars, cursor, ring, seen, connVars, viewVars, missed>>

-------------------------------------------------------------------------------
(* The SSE generator of the connection *)

\* The request arrives: subscribe, compute the replay, send the preamble and the
\* replayed frames.  Every envelope goes out twice, named and unnamed.
Twice(frames) == [n \in 1 .. 2 * Len(frames) |-> frames[(n + 1) \div 2]]

ServerAccepts ==
  /\ phase = "connecting"
  /\ LET buffer == Pruned(ring)
         stale == StaleId(buffer, url)
         replay == Replay(buffer, url)
     IN  /\ ring' = buffer
         /\ seen' = SeenAfterPrune(ring, seen)
         /\ wire' = IF stale THEN <<Reset>> ELSE Twice(replay)
         /\ delivered' = IF replay = <<>> THEN url ELSE Last(replay)
         /\ missed' = CASE stale -> FALSE
                        [] url = NoId -> missed \/ buffer # <<>>
                        [] OTHER -> missed
  /\ queue' = <<>>
  /\ phase' = "live"
  /\ UNCHANGED <<redisVars, cursor, reading, url, viewVars, feedFaults>>

\* The generator takes an envelope off its queue, skips what the replay covered.
ServerSends ==
  /\ phase = "live" /\ queue # <<>>
  /\ queue' = Tail(queue)
  /\ IF Head(queue) <= delivered
     THEN UNCHANGED <<delivered, wire>>
     ELSE /\ delivered' = Head(queue)
          /\ wire' = wire \o Twice(<<Head(queue)>>)
  /\ UNCHANGED <<redisVars, ringVars, phase, url, viewVars, missed, feedFaults>>

-------------------------------------------------------------------------------
(* useSignalFeed *)

Descending(ids) ==
  [n \in 1 .. Cardinality(ids) |-> CHOOSE i \in ids : Cardinality({j \in ids : j > i}) = n - 1]
Newest(ids) == IF ids = {} THEN NoId ELSE CHOOSE i \in ids : \A j \in ids : j <= i

\* rememberSeen for an id that is new; the oldest remembered id makes room.
Remember(id) == IF Len(dedupe) = DedupeCap THEN Append(Tail(dedupe), id) ELSE Append(dedupe, id)

\* publish: show the newest, rebuild the remembered ids if asked, move the cursor
\* forward only.
Publish(ids, newDedupe) ==
  /\ items' = NewestIn(ids, FeedCap)
  /\ dedupe' = newDedupe
  /\ lastId' = IF Newest(ids) > lastId THEN Newest(ids) ELSE lastId

Rebuilt(ids) ==
  LET shown == Descending(NewestIn(ids, FeedCap))
  IN  IF Len(shown) <= DedupeCap THEN shown
      ELSE SubSeq(shown, Len(shown) - DedupeCap + 1, Len(shown))

\* Mutant: the snapshot replaces what is shown.
SnapshotAlone(fresh) == fresh

\* The snapshot that answers a reset is merged with what arrived meanwhile.
MergedSnapshot(fresh) == fresh \cup resetBuffer

\* GET /signals/latest is served; serving it prunes the ring.
RestAnswers ==
  /\ fetch = FetchAsked
  /\ ring' = Pruned(ring)
  /\ seen' = SeenAfterPrune(ring, seen)
  /\ fetch' = Answered(NewestIn(Range(Pruned(ring)), FeedCap))
  /\ UNCHANGED <<redisVars, cursor, reading, connVars, items, dedupe, lastId, resetBuffer,
                 missed, feedFaults>>

RestFails ==
  /\ fetch = FetchAsked
  /\ feedFaults < MaxFeedFaults
  /\ feedFaults' = feedFaults + 1
  /\ fetch' = FetchFailed
  /\ UNCHANGED <<redisVars, ringVars, connVars, items, dedupe, lastId, resetBuffer, missed>>

\* hydrate() resumes: seed the feed, then connect whatever the answer was.
Hydrated ==
  /\ phase = "hydrating" /\ fetch.at \in {"answered", "failed"}
  /\ IF fetch = FetchFailed THEN UNCHANGED <<items, dedupe, lastId>>
     ELSE Publish(fetch.ids, Rebuilt(fetch.ids))
  /\ fetch' = NoFetch
  /\ phase' = "connecting"
  /\ url' = lastId'
  /\ UNCHANGED <<redisVars, ringVars, queue, delivered, wire, resetBuffer, missed, feedFaults>>

\* Mutant: the buffer of the reset is put away only after a successful refetch.
ResetLandsNoFinally ==
  /\ resetBuffer # NoBuffer /\ fetch.at \in {"answered", "failed"}
  /\ IF fetch = FetchFailed
     THEN /\ missed' = TRUE
          /\ UNCHANGED <<items, dedupe, lastId, resetBuffer>>
     ELSE /\ LET all == MergedSnapshot(fetch.ids) IN Publish(all, Rebuilt(all))
          /\ resetBuffer' = NoBuffer
          /\ UNCHANGED missed
  /\ fetch' = NoFetch
  /\ UNCHANGED <<redisVars, ringVars, connVars, feedFaults>>

\* handleReset() resumes.  A failed refetch keeps the display and the arrivals.
ResetLands ==
  /\ resetBuffer # NoBuffer /\ fetch.at \in {"answered", "failed"}
  /\ IF fetch = FetchFailed
     THEN /\ missed' = TRUE
          /\ UNCHANGED <<items, dedupe, lastId>>
     ELSE /\ LET all == MergedSnapshot(fetch.ids) IN Publish(all, Rebuilt(all))
          /\ UNCHANGED missed
  /\ fetch' = NoFetch
  /\ resetBuffer' = NoBuffer
  /\ UNCHANGED <<redisVars, ringVars, connVars, feedFaults>>

\* A reset frame starts a new generation; an older fetch is ignored when it lands,
\* so only the newest one is kept here.
ResetArrives ==
  /\ wire # <<>> /\ Head(wire) = Reset
  /\ wire' = Tail(wire)
  /\ resetBuffer' = {}
  /\ fetch' = FetchAsked
  /\ UNCHANGED <<redisVars, ringVars, queue, delivered, phase, url, items, dedupe, lastId,
                 missed, feedFaults>>

\* handleEnvelope.
EnvelopeArrives ==
  /\ wire # <<>> /\ Head(wire) # Reset
  /\ LET id == Head(wire) IN
       /\ resetBuffer' = IF resetBuffer = NoBuffer THEN NoBuffer
                         ELSE NewestIn(resetBuffer \cup {id}, DedupeCap)
       /\ IF id \in Range(dedupe) THEN UNCHANGED <<items, dedupe, lastId>>
          ELSE Publish(items \cup {id}, Remember(id))
  /\ wire' = Tail(wire)
  /\ UNCHANGED <<redisVars, ringVars, queue, delivered, phase, url, fetch, missed, feedFaults>>

\* onerror: the frames under way are gone, the server unsubscribes the queue.
Disconnected ==
  /\ phase' = IF phase = "hydrating" THEN phase ELSE "backoff"
  /\ queue' = <<>>
  /\ wire' = <<>>
  /\ delivered' = NoId
  /\ url' = NoId

ConnectionLost ==
  /\ phase \in {"connecting", "live"}
  /\ feedFaults < MaxFeedFaults
  /\ feedFaults' = feedFaults + 1
  /\ Disconnected
  /\ UNCHANGED <<redisVars, ringVars, viewVars, missed>>

\* The backoff timer fires.
Reconnect ==
  /\ phase = "backoff"
  /\ phase' = "connecting"
  /\ url' = lastId
  /\ UNCHANGED <<redisVars, ringVars, queue, delivered, wire, viewVars, missed, feedFaults>>

\* The backend restarts: the ring is empty, the consumer starts at "$" again.
BackendRestarts ==
  /\ feedFaults < MaxFeedFaults
  /\ feedFaults' = feedFaults + 1
  /\ cursor' = NoId /\ reading' = NoRead
  /\ ring' = <<>> /\ seen' = {}
  /\ fetch' = IF fetch = FetchAsked THEN FetchFailed ELSE fetch
  /\ Disconnected
  /\ UNCHANGED <<redisVars, items, dedupe, lastId, resetBuffer, missed>>

-------------------------------------------------------------------------------

FeedInit ==
  /\ added = 0 /\ horizon = 1
  /\ cursor = NoId /\ reading = NoRead /\ ring = <<>> /\ seen = {}
  /\ queue = <<>> /\ delivered = NoId /\ wire = <<>>
  /\ phase = "hydrating" /\ url = NoId
  /\ items = {} /\ dedupe = <<>> /\ lastId = NoId
  /\ fetch = FetchAsked /\ resetBuffer = NoBuffer
  /\ missed = FALSE /\ feedFaults = 0

Fault == PollFails \/ RestFails \/ ConnectionLost \/ BackendRestarts

FeedNext ==
  \/ RecordAdded \/ WindowMoves \/ Fault
  \/ PollBegins \/ PollReturns
  \/ ServerAccepts \/ ServerSends
  \/ RestAnswers \/ Hydrated \/ ResetLands
  \/ ResetArrives \/ EnvelopeArrives \/ Reconnect

FeedSpec == FeedInit /\ [][FeedNext]_feedVars

\* The two event loops run what is ready; Redis, the window and the faults owe
\* nothing.
FairFeedSpec ==
  /\ FeedSpec
  /\ WF_feedVars(ServerAccepts) /\ WF_feedVars(ServerSends)
  /\ WF_feedVars(RestAnswers) /\ WF_feedVars(Hydrated) /\ WF_feedVars(ResetLands)
  /\ WF_feedVars(ResetArrives) /\ WF_feedVars(EnvelopeArrives) /\ WF_feedVars(Reconnect)

-------------------------------------------------------------------------------
(* Properties *)

\* Everything the server has for the browser has arrived.
FeedQuiet ==
  /\ phase = "live" /\ queue = <<>> /\ wire = <<>>
  /\ fetch = NoFetch /\ resetBuffer = NoBuffer

\* The consumer hands on every record from the first it read: a batch, an error
\* and a new Redis client in between leave no hole in the ring.
RingHasNoHole ==
  \A n \in 1 .. Len(ring) - 1 : ring[n + 1] = ring[n] + 1

\* The replay, the live queue and the reset snapshot fit together without a gap:
\* when nothing is under way and nothing was dropped, the browser shows the newest
\* signals of the ring, whatever connections were lost on the way.
QuietFeedComplete ==
  FeedQuiet /\ ~missed => NewestIn(Range(ring), FeedCap) \subseteq items

\* A signal that arrives while a reset snapshot is being fetched stays on the
\* display when the snapshot lands, unless FeedCap newer ones displace it.
ResetKeepsLive ==
  [][resetBuffer # NoBuffer /\ resetBuffer' = NoBuffer
       => \A i \in resetBuffer :
            i \in items' \/ Cardinality({j \in items' : j > i}) >= FeedCap]_viewVars

\* Once the faults are over the browser is connected and up to date again: no
\* order of errors, timers and late answers leaves it waiting for ever.
FeedSettles == <>[]FeedQuiet

===============================================================================
