--------------------------- MODULE TelegramCollector ---------------------------
(***************************************************************************)
(* One Telegram channel and the collector that polls it: the newest        *)
(* messages above the watermark are fetched, grouped into albums, walked   *)
(* in id order and, one by one, enqueued for vision, extracted, written to *)
(* Qdrant and marked as seen.  The watermark moves through the contiguous  *)
(* run of items that succeeded.  Redis, Qdrant and Neo4j outlive the       *)
(* collector; a poll may end between any two of its steps.                 *)
(*                                                                         *)
(* The vision stream is written here and read by VisionConsumer.tla; its   *)
(* entries are named by their position in it.                              *)
(***************************************************************************)
EXTENDS Naturals, FiniteSets, Sequences, FiniteSetsExt

CONSTANTS
  MaxId,         \* message ids of the channel are 1..MaxId
  Album,         \* grouped_id of a message; 0 is none
  Photos,        \* messages with a photo
  Service,       \* messages with neither text nor media
  Limit,         \* messages fetched by a poll (50)
  MaxPending,    \* vision_queue_max_pending (100)
  HighPriority,  \* the channel's priority is "high"
  MaxFaults      \* bound on faults

ASSUME TelegramAssumption ==
  /\ {MaxId, Limit} \subseteq Nat \ {0} /\ {MaxPending, MaxFaults} \subseteq Nat
  /\ Album \in [1..MaxId -> Nat]
  /\ Photos \subseteq 1..MaxId /\ Service \subseteq 1..MaxId
  /\ \A m \in Service : m \notin Photos /\ Album[m] = 0
  /\ HighPriority \in BOOLEAN

VARIABLES
  posted,     \* messages 1..posted are in the channel
  watermark,  \* telegram:last_msg; 0 is none
  seen,       \* telegram:seen, the dedup hashes
  point,      \* the Qdrant point of a hash
  graph,      \* urls with a Document node in Neo4j
  stream,     \* vision:pending, the url of every entry
  group,      \* the consumer group exists
  pel,        \* its pending entries list: delivered, not acknowledged
  poll,       \* the poll in progress, its items still to be walked among the rest
  crowded,    \* history: new messages some poll left out for Limit newer ones
  again,      \* history: hashes upserted more than once
  faults

collectorVars == <<watermark, seen, graph, stream, poll, crowded, again>>

Messages == 1..MaxId
Hash(m) == IF Album[m] = 0 THEN m ELSE MaxId + Album[m]
Hashes == {Hash(m) : m \in Messages}

NoPoint == [url |-> 0, msgs |-> {}, vision |-> "none"]
\* the walk is in the order of the ids
Item == CHOOSE i \in poll.todo : \A j \in poll.todo : i.id <= j.id
Handled == Item.hash \in seen \/ Item.id \in Service
Max2(a, b) == IF a > b THEN a ELSE b

NoPoll == [at |-> "idle", todo |-> {}, water |-> 0, frozen |-> FALSE, vision |-> "skipped"]

Fault == faults < MaxFaults /\ faults' = faults + 1

-------------------------------------------------------------------------------
(* A poll *)

\* get_messages(min_id, limit): the newest ones.
Fetched == {m \in (watermark + 1)..posted : m + Limit > posted}

\* Albums and singles.  The url of an item is that of its canonical message,
\* the smallest of those fetched.
ItemOf(msgs, h) ==
  LET ms == {m \in msgs : Hash(m) = h} IN [id |-> Min(ms), hash |-> h, msgs |-> ms]

Items(msgs) == {ItemOf(msgs, Hash(m)) : m \in msgs}

Post ==
  /\ posted < MaxId
  /\ posted' = posted + 1
  /\ UNCHANGED <<collectorVars, point, group, pel, faults>>

StartPoll ==
  /\ poll.at = "idle" /\ Fetched # {}
  /\ poll' = [NoPoll EXCEPT !.at = "item", !.todo = Items(Fetched), !.water = watermark]
  /\ crowded' = crowded \cup (((watermark + 1)..posted) \ Fetched)
  /\ UNCHANGED <<posted, watermark, seen, point, graph, stream, group, pel, again, faults>>

\* Mutant: a failed item does not freeze the watermark.
FinishedNeverFrozen(ok) ==
  [poll EXCEPT !.at = "item", !.todo = @ \ {Item},
               !.water = IF ok THEN Max2(@, Item.id) ELSE @]

\* The item is over.  A failure freezes the watermark for the rest of the batch.
Finished(ok) ==
  [poll EXCEPT !.at = "item", !.todo = @ \ {Item},
               !.water = IF ok /\ ~poll.frozen THEN Max2(@, Item.id) ELSE @,
               !.frozen = @ \/ ~ok]

\* Mutant: a duplicate is passed over without moving the watermark.
PassOverUncounted ==
  /\ poll.at = "item" /\ poll.todo # {} /\ Handled
  /\ poll' = [poll EXCEPT !.todo = @ \ {Item}]
  /\ UNCHANGED <<posted, watermark, seen, point, graph, stream, group, pel, crowded, again, faults>>

PassOver ==
  /\ poll.at = "item" /\ poll.todo # {} /\ Handled
  /\ poll' = Finished(TRUE)
  /\ UNCHANGED <<posted, watermark, seen, point, graph, stream, group, pel, crowded, again, faults>>

\* XPENDING counts the entries delivered and not acknowledged; XLEN, used until
\* the group exists, counts every entry of the stream.
PendingCount == IF group THEN Cardinality(pel) ELSE Len(stream)

\* The photo is enqueued before anything of the item is persisted.  A failed
\* download leaves the item without media.
Enqueue ==
  /\ poll.at = "item" /\ poll.todo # {} /\ ~Handled
  /\ \E photo \in IF Item.msgs \cap Photos # {} THEN BOOLEAN ELSE {FALSE} :
       LET deferred == PendingCount > MaxPending /\ ~HighPriority IN
       /\ stream' = IF photo /\ ~deferred THEN Append(stream, Item.id) ELSE stream
       /\ poll' = [poll EXCEPT !.at = "extract",
                     !.vision = CASE ~photo -> "skipped"
                                  [] photo /\ deferred -> "deferred"
                                  [] photo /\ ~deferred -> "pending"]
  /\ UNCHANGED <<posted, watermark, seen, point, graph, group, pel, crowded, again, faults>>

\* process_item writes the Document when the text yields events or entities;
\* an error of Neo4j is swallowed.
Extract ==
  /\ poll.at = "extract"
  /\ graph' \in {graph, graph \cup {Item.id}}
  /\ poll' = [poll EXCEPT !.at = "upsert"]
  /\ UNCHANGED <<posted, watermark, seen, point, stream, group, pel, crowded, again, faults>>

\* The upsert replaces the whole payload of the point.
Persist ==
  /\ point' = [point EXCEPT ![Item.hash] =
                 [url |-> Item.id, msgs |-> Item.msgs, vision |-> poll.vision]]
  /\ again' = IF point[Item.hash] = NoPoint THEN again ELSE again \cup {Item.hash}

Upsert ==
  /\ poll.at = "upsert" /\ Persist
  /\ poll' = [poll EXCEPT !.at = "mark"]
  /\ UNCHANGED <<posted, watermark, seen, graph, stream, group, pel, crowded, faults>>

MarkSeen ==
  /\ poll.at = "mark"
  /\ seen' = seen \cup {Item.hash}
  /\ poll' = Finished(TRUE)
  /\ UNCHANGED <<posted, watermark, point, graph, stream, group, pel, crowded, again, faults>>

\* Extraction, embedding, Qdrant or the seen mark fails.
ItemFails ==
  /\ Fault
  /\ poll.at \in {"extract", "upsert", "mark"}
  /\ poll' = Finished(FALSE)
  /\ UNCHANGED <<posted, watermark, seen, point, graph, stream, group, pel, crowded, again>>

SaveWatermark ==
  /\ poll.at = "item" /\ poll.todo = {}
  /\ watermark' = poll.water
  /\ poll' = NoPoll
  /\ UNCHANGED <<posted, seen, point, graph, stream, group, pel, crowded, again, faults>>

\* The 60 s timeout, an error of Redis outside the item's try, or a restart.
\* An upsert that is already running in its thread is carried out all the same.
Abort ==
  /\ Fault
  /\ poll.at # "idle"
  /\ poll' = NoPoll
  /\ \/ poll.at = "upsert" /\ Persist
     \/ UNCHANGED <<point, again>>
  /\ UNCHANGED <<posted, watermark, seen, graph, stream, group, pel, crowded>>

CollectorInit ==
  /\ posted = 0 /\ watermark = 0 /\ seen = {} /\ graph = {} /\ stream = <<>>
  /\ point = [h \in Hashes |-> NoPoint]
  /\ group = FALSE /\ pel = {} /\ poll = NoPoll
  /\ crowded = {} /\ again = {} /\ faults = 0

PollStep == StartPoll \/ PassOver \/ Enqueue \/ Extract \/ Upsert \/ MarkSeen \/ SaveWatermark
CollectorNext == Post \/ PollStep \/ ItemFails \/ Abort

-------------------------------------------------------------------------------
(* Properties *)

Persisted(m) == m \in point[Hash(m)].msgs

\* The watermark passes a message only when its item is persisted and marked: a
\* failed item, or one a timeout cut off, keeps itself and all above it in the
\* next fetch, unless Limit newer ones crowd it out of that.
WatermarkPassesOnlyPersisted ==
  \A m \in 1..watermark : m \notin crowded \cup Service =>
    Hash(m) \in seen /\ point[Hash(m)] # NoPoint

\* No data is lost: of two messages the watermark has passed, the newer one is
\* persisted if the older one is.
NothingSkipped ==
  \A m \in (1..watermark) \ Service :
    (\E n \in 1..(m - 1) : Persisted(n)) => Persisted(m)

\* When failures stop the watermark reaches the newest message.
ChannelCatchesUp == []<>(watermark = posted)
===============================================================================
