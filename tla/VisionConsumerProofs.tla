-------------------------- MODULE VisionConsumerProofs --------------------------
(***************************************************************************)
(* For every channel, every limit and any number of faults: what the       *)
(* watermark has passed is persisted, what the worker was given is         *)
(* accounted for, and a document waits only for an entry that is there.    *)
(***************************************************************************)
EXTENDS VisionConsumer, WellFoundedInduction, TLAPS

-------------------------------------------------------------------------------
(* The inductive invariant *)

Points == [url: 0..MaxId, msgs: SUBSET Messages,
           vision: {"none", "skipped", "pending", "deferred", "completed"}]

Members == [id: Messages, hash: Hashes, msgs: SUBSET Messages]

Polls == [at: {"idle", "item", "extract", "upsert", "mark"}, todo: SUBSET Members,
          water: 0..MaxId, frozen: BOOLEAN, vision: {"skipped", "pending", "deferred"}]

Workers == [at: {"read", "claim", "graph", "point", "publish", "ack", "bury", "buried"},
            batch: SUBSET Nat, turn: {"read", "claim"}]

TypeInv ==
  /\ posted \in 0..MaxId /\ watermark \in 0..posted
  /\ seen \subseteq Hashes
  /\ point \in [Hashes -> Points]
  /\ stream \in Seq(Messages)
  /\ poll \in Polls /\ poll.water <= posted
  /\ delivered \in 0..Len(stream) /\ pel \subseteq 1..delivered
  /\ worker \in Workers /\ worker.batch \subseteq 1..delivered
  /\ worker.at \notin {"read", "claim"} => worker.batch # {}

\* An item is a set of messages of one hash, named by the smallest.
ItemInv ==
  /\ \A i \in poll.todo :
       /\ i.id \in i.msgs
       /\ \A m \in i.msgs : i.id <= m /\ m <= posted /\ Hash(m) = i.hash
  /\ poll.at \in {"extract", "upsert", "mark"} => poll.todo # {}

Fine(m) == Hash(m) \in seen /\ point[Hash(m)] # NoPoint
Exempt == crowded \cup Service
InHand(m) == \E i \in poll.todo : m \in i.msgs

\* Behind the watermark, and behind the one the poll is about to save, everything
\* is persisted; as long as no item has failed, what is not lies ahead.
PollInv ==
  /\ \A h \in seen : point[h] # NoPoint
  /\ WatermarkPassesOnlyPersisted
  /\ poll.at # "idle" =>
       /\ \A m \in 1..poll.water : m \notin Exempt => Fine(m)
       /\ ~poll.frozen =>
            \A i \in poll.todo : \A m \in 1..i.id : m \notin Exempt => Fine(m) \/ InHand(m)
  /\ poll.at = "mark" => point[Item.hash] # NoPoint

\* The image of an entry has reached its point, which may have been replaced since.
Carried(e) ==
  LET h == Hash(stream[e])
  IN  point[h] # NoPoint /\ (h \in again \/ point[h].vision # "pending")

\* What the worker has let go is carried out or dead, and what it has in hand is
\* as far as the place it is at says.
WorkerInv ==
  /\ \A e \in 1..delivered : e \in pel \cup dead \/ (Carried(e) /\ e \in enriched)
  /\ worker.at \in {"publish", "ack"} => Carried(Entry)
  /\ worker.at = "ack" => Entry \in enriched
  /\ worker.at = "buried" => Entry \in dead

Queued(url) == \E e \in 1..Len(stream) : stream[e] = url

\* A point carries the url of its own item, and one that waits has an entry.
PointInv ==
  /\ \A h \in Hashes : point[h] # NoPoint => point[h].url \in Messages /\ Hash(point[h].url) = h
  /\ \A h \in Hashes : point[h].vision = "pending" => Queued(point[h].url)
  /\ poll.at \in {"extract", "upsert", "mark"} /\ poll.vision = "pending" => Queued(Item.id)

VisionInv == TypeInv /\ ItemInv /\ PollInv /\ WorkerInv /\ PointInv

-------------------------------------------------------------------------------
(* Facts about the operators *)

\* A set of numbers has a smallest one.
LEMMA SmallestOf ==
  ASSUME NEW T, T \subseteq Nat, T # {}
  PROVE  \E x \in T : \A y \in T : x <= y
<1>1. PICK x \in T : \A y \in T : ~(<<y, x>> \in OpToRel(<, Nat))
  BY WFMin, NatLessThanWellFounded
<1>2. \A y \in T : x <= y
  <2>1. SUFFICES ASSUME NEW y \in T, y < x PROVE FALSE
    BY SMT
  <2>2. <<y, x>> \in OpToRel(<, Nat)
    BY <2>1 DEF OpToRel
  <2>3. QED BY <1>1, <2>2
<1>3. QED BY <1>2

\* Min is a smallest element.
LEMMA MinOf ==
  ASSUME NEW T, T \subseteq Nat, T # {}
  PROVE  Min(T) \in T /\ \A y \in T : Min(T) <= y
BY SmallestOf DEF Min

\* The item in hand is the first of those to be walked.
LEMMA ItemFirst ==
  ASSUME TypeInv, poll.todo # {}
  PROVE  Item \in poll.todo /\ Item \in Members /\ \A j \in poll.todo : Item.id <= j.id
<1> DEFINE ids == {i.id : i \in poll.todo}
<1>1. poll.todo \subseteq Members
  BY DEF TypeInv, Polls
<1>2. ids \subseteq Nat /\ ids # {}
  BY <1>1, TelegramAssumption DEF Members, Messages
<1>3. PICK x \in ids : \A y \in ids : x <= y
  BY <1>2, SmallestOf
<1>4. \E i \in poll.todo : \A j \in poll.todo : i.id <= j.id
  BY <1>3
<1>5. QED BY <1>1, <1>4 DEF Item

\* Two messages have one hash only if they are of one album; a service message
\* is of none.
LEMMA ServiceAlone ==
  ASSUME NEW m \in Messages, NEW n \in Messages, Hash(m) = Hash(n), m \in Service
  PROVE  n = m
BY TelegramAssumption DEF Hash, Messages

\* The items of a fetch are well formed, and every fetched message is in one.
LEMMA ItemsOf ==
  ASSUME NEW msgs \in SUBSET Messages
  PROVE  /\ Items(msgs) \subseteq Members
         /\ \A i \in Items(msgs) :
              i.id \in i.msgs /\ \A m \in i.msgs : m \in msgs /\ i.id <= m /\ Hash(m) = i.hash
         /\ \A m \in msgs : \E i \in Items(msgs) : m \in i.msgs
<1>1. ASSUME NEW n \in msgs
      PROVE  LET i == ItemOf(msgs, Hash(n))
             IN  /\ i \in Members /\ n \in i.msgs
                 /\ i.id \in i.msgs
                 /\ \A m \in i.msgs : m \in msgs /\ i.id <= m /\ Hash(m) = i.hash
  <2> DEFINE ms == {m \in msgs : Hash(m) = Hash(n)}
  <2>0. Messages \subseteq Nat
    BY TelegramAssumption DEF Messages
  <2>1. ms \subseteq Nat /\ n \in ms
    BY <1>1, <2>0
  <2>2. Min(ms) \in ms /\ \A y \in ms : Min(ms) <= y
    BY <2>1, MinOf
  <2>3. ItemOf(msgs, Hash(n)) = [id |-> Min(ms), hash |-> Hash(n), msgs |-> ms]
    BY DEF ItemOf
  <2>4. Hash(n) \in Hashes
    BY <1>1 DEF Hashes
  <2> HIDE DEF ms
  <2>5. Min(ms) \in Messages /\ ms \in SUBSET Messages
    BY <2>2 DEF ms
  <2>6. ItemOf(msgs, Hash(n)) \in Members
    BY <2>3, <2>4, <2>5 DEF Members
  <2>7. QED BY <2>1, <2>2, <2>3, <2>6 DEF ms
<1>2. QED BY <1>1 DEF Items

-------------------------------------------------------------------------------
(* The collector *)

\* How a step of the collector touches what the worker relies on: the stream
\* grows, and a point that is there is at most replaced, which is remembered.
Respects ==
  /\ stream' \in Seq(Messages) /\ Len(stream) <= Len(stream')
  /\ \A e \in 1..Len(stream) : stream'[e] = stream[e]
  /\ \A h \in Hashes : point[h] # NoPoint =>
       /\ point'[h] # NoPoint
       /\ point'[h] = point[h] \/ h \in again'
  /\ again \subseteq again'

LEMMA WorkerUndisturbed ==
  ASSUME TypeInv, WorkerInv, Respects, UNCHANGED <<workerVars, pel>>
  PROVE  WorkerInv'
<1>1. ASSUME NEW e \in 1..delivered, Carried(e) PROVE Carried(e)'
  <2>1. e \in 1..Len(stream) /\ stream[e] \in Messages /\ stream'[e] = stream[e]
    BY <1>1 DEF TypeInv, Respects
  <2>2. Hash(stream[e]) \in Hashes
    BY <2>1 DEF Hashes
  <2>3. QED BY <1>1, <2>1, <2>2 DEF Carried, Respects
<1>2. worker.at \in {"publish", "ack"} => Entry \in 1..delivered
  <2>1. worker.batch \subseteq Nat
    BY DEF TypeInv, Workers
  <2>2. QED BY <2>1, MinOf DEF TypeInv, Entry
<1>3. Entry' = Entry
  BY DEF Entry, workerVars
<1>4. QED BY <1>1, <1>2, <1>3 DEF WorkerInv, workerVars

\* The points after an upsert.
LEMMA AfterPersist ==
  ASSUME TypeInv, ItemInv, PollInv, PointInv, poll.at = "upsert", Persist, UNCHANGED stream
  PROVE  /\ point' \in [Hashes -> Points]
         /\ point'[Item.hash] # NoPoint
         /\ Respects
         /\ \A h \in Hashes : point'[h] # NoPoint =>
              point'[h].url \in Messages /\ Hash(point'[h].url) = h
         /\ \A h \in Hashes : point'[h].vision = "pending" => Queued(point[h].url)'
<1> DEFINE new == [url |-> Item.id, msgs |-> Item.msgs, vision |-> poll.vision]
<1>1. Item \in Members /\ Item \in poll.todo
  BY ItemFirst DEF ItemInv
<1>2. Item.hash \in Hashes /\ Item.id \in Messages /\ Hash(Item.id) = Item.hash
      /\ Item.msgs \in SUBSET Messages
  BY <1>1 DEF Members, ItemInv
<1>3. poll.vision \in {"skipped", "pending", "deferred"}
  BY DEF TypeInv, Polls
<1>4. new \in Points /\ new.url = Item.id /\ new.vision = poll.vision /\ new # NoPoint
  <2>1. Messages \subseteq 0..MaxId /\ 0 \notin Messages
    BY TelegramAssumption DEF Messages
  <2>2. new.url # NoPoint.url
    BY <1>2, <2>1 DEF NoPoint
  <2>3. new \in Points
    BY <1>2, <1>3, <2>1 DEF Points
  <2>4. QED BY <2>2, <2>3
<1> HIDE DEF new
<1>5. point' = [point EXCEPT ![Item.hash] = new]
  BY DEF Persist, new
<1>6. point \in [Hashes -> Points]
  BY DEF TypeInv
<1>7. \A h \in Hashes : point'[h] = IF h = Item.hash THEN new ELSE point[h]
  BY <1>5, <1>6
<1>8. point' \in [Hashes -> Points]
  BY <1>2, <1>4, <1>5, <1>6
<1>9. again \subseteq again' /\ (point[Item.hash] # NoPoint => Item.hash \in again')
  BY DEF Persist
<1>10. Respects
  <2>1. stream \in Seq(Messages)
    BY DEF TypeInv
  <2>2. Len(stream) \in Nat
    BY <2>1
  <2>3. \A h \in Hashes : point[h] # NoPoint =>
          point'[h] # NoPoint /\ (point'[h] = point[h] \/ h \in again')
    BY <1>4, <1>7, <1>9
  <2>4. stream' = stream
    OBVIOUS
  <2>5. QED BY <1>9, <2>1, <2>2, <2>3, <2>4 DEF Respects
<1>11. \A h \in Hashes : point'[h] # NoPoint =>
         point'[h].url \in Messages /\ Hash(point'[h].url) = h
  BY <1>2, <1>4, <1>7 DEF PointInv
<1>12. \A h \in Hashes : point'[h].vision = "pending" => Queued(point[h].url)'
  <2>1. \A h \in Hashes : point'[h].vision = "pending" => Queued(point'[h].url)
    BY <1>2, <1>4, <1>7 DEF PointInv
  <2>2. QED BY <2>1 DEF Queued
<1>13. QED BY <1>2, <1>4, <1>7, <1>8, <1>10, <1>11, <1>12

\* What Finished leaves of the poll: a finished item that went well is behind,
\* and the watermark may go up to it because all before it went well, too.
LEMMA ItemOver ==
  ASSUME TypeInv, ItemInv, PollInv, poll.at # "idle", poll.todo # {},
         NEW ok \in BOOLEAN, poll' = Finished(ok),
         UNCHANGED <<posted, watermark, crowded>>,
         seen \subseteq seen', seen' \subseteq Hashes,
         \A h \in Hashes : point[h] # NoPoint => point'[h] # NoPoint,
         \A h \in seen' : point'[h] # NoPoint,
         ok => \A m \in Item.msgs : m \notin Service => Fine(m)'
  PROVE  poll' \in Polls /\ poll'.water <= posted' /\ ItemInv' /\ PollInv'
<1>1. Item \in poll.todo /\ Item \in Members /\ \A j \in poll.todo : Item.id <= j.id
  BY ItemFirst
<1>2. poll \in Polls
  BY DEF TypeInv
<1>3. /\ poll'.at = "item" /\ poll'.todo = poll.todo \ {Item}
      /\ poll'.frozen = (poll.frozen \/ ~ok) /\ poll'.vision = poll.vision
      /\ poll'.water = IF ok /\ ~poll.frozen THEN Max2(poll.water, Item.id) ELSE poll.water
  BY <1>2 DEF Finished, Polls
<1>4. Messages \subseteq 1..MaxId /\ MaxId \in Nat /\ posted \in 0..MaxId
  BY TelegramAssumption DEF Messages, TypeInv
<1>5. Item.id <= posted /\ Item.id \in 1..MaxId /\ Item.id \in Item.msgs
  BY <1>1, <1>4 DEF ItemInv, Members
<1>6. poll'.water \in 0..MaxId /\ poll'.water <= posted'
  BY <1>2, <1>3, <1>4, <1>5 DEF TypeInv, Polls, Max2
<1>7. poll' \in Polls
  <2>1. poll'.todo \in SUBSET Members /\ poll'.frozen \in BOOLEAN
    BY <1>2, <1>3 DEF Polls
  <2>2. poll' = [at |-> "item", todo |-> poll'.todo, water |-> poll'.water,
                 frozen |-> poll'.frozen, vision |-> poll'.vision]
    BY <1>2, <1>3 DEF Finished, Polls
  <2>3. poll'.vision \in {"skipped", "pending", "deferred"}
    BY <1>2, <1>3 DEF Polls
  <2>4. QED BY <1>6, <2>1, <2>2, <2>3 DEF Polls
<1>8. ItemInv'
  BY <1>3 DEF ItemInv
<1>9. ASSUME NEW m \in Messages, Fine(m) PROVE Fine(m)'
  BY <1>9 DEF Fine, Hashes
<1>10. \A m \in 1..posted : m \in Messages
  BY <1>4 DEF Messages
<1>11. WatermarkPassesOnlyPersisted'
  BY <1>9, <1>10 DEF PollInv, WatermarkPassesOnlyPersisted, Fine, TypeInv
<1>12. ASSUME NEW m \in 1..poll'.water, m \notin Exempt PROVE Fine(m)'
  <2>1. m \in Messages
    BY <1>4, <1>6, <1>10
  <2>2. CASE m \in 1..poll.water
    BY <1>9, <1>12, <2>1, <2>2 DEF PollInv
  <2>3. CASE m \notin 1..poll.water
    <3>1. ok /\ ~poll.frozen /\ m \in 1..Item.id
      BY <1>2, <1>3, <1>5, <2>3 DEF Max2, Polls
    <3>2. Fine(m) \/ InHand(m)
      BY <1>1, <1>12, <3>1 DEF PollInv
    <3>3. CASE Fine(m)
      BY <1>9, <2>1, <3>3
    <3>4. CASE InHand(m)
      <4>1. PICK j \in poll.todo : m \in j.msgs
        BY <3>4 DEF InHand
      <4>2. Item.id <= j.id /\ j.id <= m /\ j.id \in Messages
        BY <1>1, <1>2, <4>1 DEF ItemInv, Polls, Members
      <4>3. m = Item.id
        BY <1>4, <1>5, <2>1, <3>1, <4>2 DEF Messages
      <4>4. QED BY <1>5, <1>12, <3>1, <4>3 DEF Exempt
    <3>5. QED BY <3>2, <3>3, <3>4
  <2>4. QED BY <2>2, <2>3
<1>13. ASSUME ~poll'.frozen, NEW i \in poll'.todo, NEW m \in 1..i.id, m \notin Exempt
       PROVE  Fine(m)' \/ InHand(m)'
  <2>1. ok /\ ~poll.frozen /\ i \in poll.todo
    BY <1>3, <1>13
  <2>2. i.id \in Messages /\ m \in Messages
    BY <1>2, <1>4, <2>1 DEF Polls, Members, Messages
  <2>3. CASE Fine(m)
    BY <1>9, <2>2, <2>3
  <2>4. CASE \E j \in poll.todo : m \in j.msgs
    <3>1. PICK j \in poll.todo : m \in j.msgs
      BY <2>4
    <3>2. CASE j = Item
      BY <1>13, <2>1, <3>1, <3>2 DEF Exempt
    <3>3. CASE j # Item
      BY <1>3, <3>1, <3>3 DEF InHand
    <3>4. QED BY <3>2, <3>3
  <2>5. QED BY <1>13, <2>1, <2>3, <2>4 DEF PollInv, InHand
<1>14. Exempt' = Exempt
  BY DEF Exempt
<1>15. QED BY <1>3, <1>6, <1>7, <1>8, <1>11, <1>12, <1>13, <1>14 DEF PollInv

\* A poll in which a step is taken that leaves the watermark and the items alone.
LEMMA SamePoll ==
  ASSUME TypeInv, ItemInv, PollInv, poll.at # "idle", poll.todo # {},
         poll' \in Polls, poll'.todo = poll.todo, poll'.water = poll.water,
         poll'.frozen = poll.frozen, poll'.at \in {"extract", "upsert", "mark"},
         UNCHANGED <<posted, watermark, seen, crowded>>,
         \A h \in Hashes : point[h] # NoPoint => point'[h] # NoPoint,
         poll'.at = "mark" => point'[Item.hash] # NoPoint
  PROVE  poll'.water <= posted' /\ ItemInv' /\ PollInv' /\ Item' = Item
<1>1. Item' = Item
  BY DEF Item
<1>2. ItemInv'
  BY DEF ItemInv
<1>3. \A m : Exempt' = Exempt /\ InHand(m)' = InHand(m)
  BY DEF Exempt, InHand
<1>4. \A m \in Messages : Fine(m) => Fine(m)'
  BY DEF Fine, Hashes
<1>5. posted \in 0..MaxId /\ watermark \in 0..posted /\ poll.water \in 0..MaxId
      /\ poll.water <= posted /\ MaxId \in Nat
  BY TelegramAssumption DEF TypeInv, Polls
<1>6. WatermarkPassesOnlyPersisted'
  BY <1>4, <1>5 DEF PollInv, WatermarkPassesOnlyPersisted, Fine, Messages
<1>7. \A m \in 1..poll.water : m \notin Exempt => Fine(m)'
  BY <1>4, <1>5 DEF PollInv, Messages
<1>8. ASSUME ~poll.frozen, NEW i \in poll.todo, NEW m \in 1..i.id, m \notin Exempt
      PROVE  Fine(m)' \/ InHand(m)
  <2>1. i.id \in Messages /\ m \in Messages
    BY <1>5, <1>8 DEF TypeInv, Polls, Members, Messages
  <2>2. Fine(m) \/ InHand(m)
    BY <1>8 DEF PollInv
  <2>3. QED BY <1>4, <2>1, <2>2
<1>9. \A h \in seen' : point'[h] # NoPoint
  BY DEF PollInv, TypeInv
<1>10. QED BY <1>1, <1>2, <1>3, <1>5, <1>6, <1>7, <1>8, <1>9 DEF PollInv

-------------------------------------------------------------------------------
(* The steps of the collector *)

LEMMA PostKeeps ==
  ASSUME VisionInv, Post, UNCHANGED workerVars PROVE VisionInv'
<1> USE DEF Post, collectorVars, workerVars, VisionInv
<1>1. posted \in 0..MaxId /\ posted' = posted + 1 /\ posted' \in 0..MaxId /\ MaxId \in Nat
  BY TelegramAssumption DEF TypeInv
<1>2. TypeInv'
  BY <1>1 DEF TypeInv, Polls
<1>3. ItemInv'
  <2>1. Messages \subseteq Nat
    BY TelegramAssumption DEF Messages
  <2>2. \A i \in poll.todo : \A m \in i.msgs : m \in Nat
    BY <2>1 DEF TypeInv, Polls, Members
  <2>3. ASSUME NEW i \in poll.todo, NEW m \in i.msgs PROVE m <= posted'
    BY <1>1, <2>2, <2>3 DEF ItemInv
  <2>4. QED BY <2>3 DEF ItemInv
<1>4. PollInv'
  BY DEF PollInv, WatermarkPassesOnlyPersisted, Fine, Exempt, InHand, Item
<1>5. Respects
  <2>1. stream \in Seq(Messages) /\ Len(stream) \in Nat
    BY DEF TypeInv
  <2>2. QED BY <2>1 DEF Respects
<1>6. WorkerInv'
  BY <1>5, WorkerUndisturbed
<1>7. PointInv'
  BY DEF PointInv, Queued, Item
<1>8. QED BY <1>2, <1>3, <1>4, <1>6, <1>7

LEMMA StartPollKeeps ==
  ASSUME VisionInv, StartPoll, UNCHANGED workerVars PROVE VisionInv'
<1> USE DEF VisionInv
<1>1. /\ UNCHANGED <<posted, watermark, seen, point, graph, stream, group, pel, again>>
      /\ poll.at = "idle"
      /\ crowded' = crowded \cup (((watermark + 1)..posted) \ Fetched)
      /\ poll' = [NoPoll EXCEPT !.at = "item", !.todo = Items(Fetched), !.water = watermark]
  BY DEF StartPoll
<1>2. posted \in 0..MaxId /\ watermark \in 0..posted /\ MaxId \in Nat
  BY TelegramAssumption DEF TypeInv
<1>3. Fetched \in SUBSET Messages /\ Fetched \subseteq (watermark + 1)..posted
  BY <1>2 DEF Fetched, Messages
<1>4. poll'.at = "item" /\ poll'.todo = Items(Fetched) /\ poll'.water = watermark /\ ~poll'.frozen
  BY <1>1 DEF NoPoll
<1>5. Items(Fetched) \subseteq Members
  BY <1>3, ItemsOf
<1>6. poll' \in Polls
  <2>1. watermark \in 0..MaxId
    BY <1>2
  <2>2. QED BY <1>1, <1>5, <2>1 DEF NoPoll, Polls
<1>7. TypeInv'
  BY <1>1, <1>2, <1>4, <1>6 DEF TypeInv, workerVars
<1>8. ItemInv'
  <2>1. \A m \in Fetched : m <= posted
    BY <1>2, <1>3
  <2>2. QED BY <1>1, <1>3, <1>4, <2>1, ItemsOf DEF ItemInv
<1>9. PollInv'
  <2>1. \A m : Fine(m)' = Fine(m)
    BY <1>1 DEF Fine
  <2>2. Exempt \subseteq Exempt'
    BY <1>1 DEF Exempt
  <2>3. WatermarkPassesOnlyPersisted'
    BY <1>1, <2>2 DEF WatermarkPassesOnlyPersisted, PollInv, Exempt
  <2>4. \A m \in 1..watermark : m \notin Exempt' => Fine(m)'
    BY <2>1, <2>2 DEF PollInv, WatermarkPassesOnlyPersisted, Fine, Exempt
  <2>5. ASSUME NEW i \in Items(Fetched), NEW m \in 1..i.id, m \notin Exempt'
        PROVE  Fine(m)' \/ InHand(m)'
    <3>1. i.id \in Fetched
      BY <1>3, ItemsOf
    <3>2. m \in 1..posted
      <4>1. i.id \in (watermark + 1)..posted /\ m \in 1..i.id
        BY <1>3, <2>5, <3>1
      <4>2. QED BY <1>2, <4>1
    <3>3. CASE m \in 1..watermark
      BY <2>4, <2>5, <3>3
    <3>4. CASE m \notin 1..watermark
      <4>1. m \in (watermark + 1)..posted
        BY <1>2, <3>2, <3>4
      <4>2. m \in Fetched
        BY <1>1, <2>5, <4>1 DEF Exempt
      <4>3. QED BY <1>3, <1>4, <4>2, ItemsOf DEF InHand
    <3>5. QED BY <3>3, <3>4
  <2>6. QED BY <1>1, <1>4, <2>3, <2>4, <2>5 DEF PollInv
<1>10. WorkerInv'
  <2>1. stream \in Seq(Messages) /\ Len(stream) \in Nat
    BY DEF TypeInv
  <2>2. Respects
    BY <1>1, <2>1 DEF Respects
  <2>3. QED BY <1>1, <2>2, WorkerUndisturbed
<1>11. PointInv'
  BY <1>1, <1>4 DEF PointInv, Queued
<1>12. QED BY <1>7, <1>8, <1>9, <1>10, <1>11

LEMMA PassOverKeeps ==
  ASSUME VisionInv, PassOver, UNCHANGED workerVars PROVE VisionInv'
<1> USE DEF VisionInv
<1>1. /\ UNCHANGED <<posted, watermark, seen, point, graph, stream, group, pel, crowded, again>>
      /\ poll.at = "item" /\ poll.todo # {} /\ Handled /\ poll' = Finished(TRUE)
  BY DEF PassOver
<1>2. seen \subseteq Hashes /\ \A h \in seen : point[h] # NoPoint
  BY DEF TypeInv, PollInv
<1>3. Item \in poll.todo /\ Item \in Members
  BY <1>1, ItemFirst
<1>4. ASSUME NEW m \in Item.msgs, m \notin Service PROVE Fine(m)'
  <2>1. m \in Messages /\ Item.id \in Messages /\ Item.id \in Item.msgs
        /\ Hash(m) = Item.hash /\ Hash(Item.id) = Item.hash
    BY <1>3, <1>4 DEF ItemInv, Members
  <2>2. Item.hash \in seen
    BY <1>1, <1>4, <2>1, ServiceAlone DEF Handled
  <2>3. QED BY <1>1, <1>2, <2>1, <2>2 DEF Fine
<1>5. poll' \in Polls /\ poll'.water <= posted' /\ ItemInv' /\ PollInv'
  <2>1. poll.at # "idle"
    BY <1>1
  <2>2. \A h \in seen' : point'[h] # NoPoint
    BY <1>1, <1>2
  <2>3. QED BY <1>1, <1>2, <1>4, <2>1, <2>2, ItemOver
<1>6. poll'.at = "item"
  BY <1>1 DEF Finished, TypeInv, Polls
<1>7. TypeInv'
  BY <1>1, <1>5 DEF TypeInv, workerVars
<1>8. WorkerInv'
  <2>1. stream \in Seq(Messages) /\ Len(stream) \in Nat
    BY DEF TypeInv
  <2>2. Respects
    BY <1>1, <2>1 DEF Respects
  <2>3. QED BY <1>1, <2>2, WorkerUndisturbed
<1>9. PointInv'
  BY <1>1, <1>6 DEF PointInv, Queued
<1>10. QED BY <1>5, <1>7, <1>8, <1>9

LEMMA EnqueueKeeps ==
  ASSUME VisionInv, Enqueue, UNCHANGED workerVars PROVE VisionInv'
<1> USE DEF VisionInv
<1>1. /\ UNCHANGED <<posted, watermark, seen, point, graph, group, pel, crowded, again>>
      /\ poll.at = "item" /\ poll.todo # {}
  BY DEF Enqueue
<1>2. PICK photo \in BOOLEAN, deferred \in BOOLEAN :
        /\ stream' = IF photo /\ ~deferred THEN Append(stream, Item.id) ELSE stream
        /\ poll' = [poll EXCEPT !.at = "extract",
                      !.vision = CASE ~photo -> "skipped"
                                   [] photo /\ deferred -> "deferred"
                                   [] photo /\ ~deferred -> "pending"]
  BY DEF Enqueue
<1>3. poll \in Polls /\ stream \in Seq(Messages) /\ Len(stream) \in Nat
  BY DEF TypeInv
<1>4. Item \in Members /\ Item.id \in Messages
  BY <1>1, ItemFirst DEF Members
<1>5. poll'.vision \in {"skipped", "pending", "deferred"}
      /\ (poll'.vision = "pending" => photo /\ ~deferred)
  BY <1>2, <1>3 DEF Polls
<1>6. poll' = [poll EXCEPT !.at = "extract", !.vision = poll'.vision]
  BY <1>2, <1>3 DEF Polls
<1>7. poll' \in Polls /\ poll'.at = "extract" /\ poll'.todo = poll.todo
      /\ poll'.water = poll.water /\ poll'.frozen = poll.frozen
  BY <1>3, <1>5, <1>6 DEF Polls
<1>8. poll'.water <= posted' /\ ItemInv' /\ PollInv' /\ Item' = Item
  BY <1>1, <1>7, SamePoll
<1>9. Respects
  BY <1>1, <1>2, <1>3, <1>4 DEF Respects
<1>10. TypeInv'
  BY <1>1, <1>3, <1>7, <1>8, <1>9 DEF TypeInv, Respects, workerVars
<1>11. WorkerInv'
  BY <1>1, <1>9, WorkerUndisturbed
<1>12. PointInv'
  <2>1. ASSUME NEW url, Queued(url) PROVE Queued(url)'
    BY <1>3, <1>9, <2>1 DEF Queued, Respects
  <2>2. \A h \in Hashes : point'[h].vision = "pending" => Queued(point[h].url)'
    BY <1>1, <2>1 DEF PointInv
  <2>3. ASSUME poll'.vision = "pending" PROVE Queued(Item.id)'
    <3>1. stream' = Append(stream, Item.id)
      BY <1>2, <1>5, <2>3
    <3>2. Len(stream') \in 1..Len(stream') /\ stream'[Len(stream')] = Item.id
      BY <1>3, <1>4, <3>1
    <3>3. QED BY <1>8, <3>2 DEF Queued
  <2>4. \A h \in Hashes : point'[h] # NoPoint => point'[h].url \in Messages /\ Hash(point'[h].url) = h
    BY <1>1 DEF PointInv
  <2>5. QED BY <2>2, <2>3, <2>4 DEF PointInv
<1>13. QED BY <1>8, <1>10, <1>11, <1>12

LEMMA ExtractKeeps ==
  ASSUME VisionInv, Extract, UNCHANGED workerVars PROVE VisionInv'
<1> USE DEF VisionInv
<1>1. /\ UNCHANGED <<posted, watermark, seen, point, stream, group, pel, crowded, again>>
      /\ poll.at = "extract" /\ poll' = [poll EXCEPT !.at = "upsert"]
  BY DEF Extract
<1>2. poll.todo # {} /\ poll \in Polls
  BY <1>1 DEF ItemInv, TypeInv
<1>3. poll' \in Polls /\ poll'.at = "upsert" /\ poll'.todo = poll.todo
      /\ poll'.water = poll.water /\ poll'.frozen = poll.frozen /\ poll'.vision = poll.vision
  BY <1>1, <1>2 DEF Polls
<1>4. poll'.water <= posted' /\ ItemInv' /\ PollInv' /\ Item' = Item
  BY <1>1, <1>2, <1>3, SamePoll
<1>5. TypeInv'
  BY <1>1, <1>3, <1>4 DEF TypeInv, workerVars
<1>6. WorkerInv'
  <2>1. stream \in Seq(Messages) /\ Len(stream) \in Nat
    BY DEF TypeInv
  <2>2. Respects
    BY <1>1, <2>1 DEF Respects
  <2>3. QED BY <1>1, <2>2, WorkerUndisturbed
<1>7. PointInv'
  BY <1>1, <1>3, <1>4 DEF PointInv, Queued
<1>8. QED BY <1>4, <1>5, <1>6, <1>7

LEMMA UpsertKeeps ==
  ASSUME VisionInv, Upsert, UNCHANGED workerVars PROVE VisionInv'
<1> USE DEF VisionInv
<1>1. /\ UNCHANGED <<posted, watermark, seen, graph, stream, group, pel, crowded>>
      /\ poll.at = "upsert" /\ Persist /\ poll' = [poll EXCEPT !.at = "mark"]
  BY DEF Upsert
<1>2. poll.todo # {} /\ poll \in Polls
  BY <1>1 DEF ItemInv, TypeInv
<1>3. poll' \in Polls /\ poll'.at = "mark" /\ poll'.todo = poll.todo
      /\ poll'.water = poll.water /\ poll'.frozen = poll.frozen /\ poll'.vision = poll.vision
  BY <1>1, <1>2 DEF Polls
<1>4. /\ point' \in [Hashes -> Points] /\ point'[Item.hash] # NoPoint /\ Respects
      /\ \A h \in Hashes : point'[h] # NoPoint =>
           point'[h].url \in Messages /\ Hash(point'[h].url) = h
      /\ \A h \in Hashes : point'[h].vision = "pending" => Queued(point[h].url)'
  BY <1>1, AfterPersist
<1>5. poll'.water <= posted' /\ ItemInv' /\ PollInv' /\ Item' = Item
  <2>1. \A h \in Hashes : point[h] # NoPoint => point'[h] # NoPoint
    BY <1>4 DEF Respects
  <2>2. QED BY <1>1, <1>2, <1>3, <1>4, <2>1, SamePoll
<1>6. TypeInv'
  BY <1>1, <1>3, <1>4, <1>5 DEF TypeInv, workerVars
<1>7. WorkerInv'
  BY <1>1, <1>4, WorkerUndisturbed
<1>8. PointInv'
  <2>1. poll.vision = "pending" => Queued(Item.id)
    BY <1>1 DEF PointInv
  <2>2. poll'.vision = "pending" => Queued(Item.id)'
    BY <1>1, <1>3, <1>5, <2>1 DEF Queued
  <2>3. QED BY <1>4, <2>2 DEF PointInv
<1>9. QED BY <1>5, <1>6, <1>7, <1>8

LEMMA MarkSeenKeeps ==
  ASSUME VisionInv, MarkSeen, UNCHANGED workerVars PROVE VisionInv'
<1> USE DEF VisionInv
<1>1. /\ UNCHANGED <<posted, watermark, point, graph, stream, group, pel, crowded, again>>
      /\ poll.at = "mark" /\ poll' = Finished(TRUE) /\ seen' = seen \cup {Item.hash}
  BY DEF MarkSeen
<1>2. seen \subseteq Hashes /\ \A h \in seen : point[h] # NoPoint
  BY DEF TypeInv, PollInv
<1>3. poll.todo # {} /\ Item \in poll.todo /\ Item \in Members /\ point[Item.hash] # NoPoint
  BY <1>1, ItemFirst DEF ItemInv, PollInv
<1>4. seen' \subseteq Hashes /\ \A h \in seen' : point'[h] # NoPoint
  BY <1>1, <1>2, <1>3 DEF Members
<1>5. ASSUME NEW m \in Item.msgs PROVE Fine(m)'
  BY <1>1, <1>3, <1>5 DEF Fine, ItemInv
<1>6. poll' \in Polls /\ poll'.water <= posted' /\ ItemInv' /\ PollInv'
  <2>1. poll.at # "idle"
    BY <1>1
  <2>2. QED BY <1>1, <1>3, <1>4, <1>5, <2>1, ItemOver
<1>7. poll'.at = "item"
  BY <1>1 DEF Finished, TypeInv, Polls
<1>8. TypeInv'
  BY <1>1, <1>4, <1>6, <1>7 DEF TypeInv, workerVars
<1>9. WorkerInv'
  <2>1. stream \in Seq(Messages) /\ Len(stream) \in Nat
    BY DEF TypeInv
  <2>2. Respects
    BY <1>1, <2>1 DEF Respects
  <2>3. QED BY <1>1, <2>2, WorkerUndisturbed
<1>10. PointInv'
  BY <1>1, <1>7 DEF PointInv, Queued
<1>11. QED BY <1>6, <1>8, <1>9, <1>10

LEMMA ItemFailsKeeps ==
  ASSUME VisionInv, ItemFails, UNCHANGED workerVars PROVE VisionInv'
<1> USE DEF VisionInv
<1>1. /\ UNCHANGED <<posted, watermark, seen, point, graph, stream, group, pel, crowded, again>>
      /\ poll.at \in {"extract", "upsert", "mark"} /\ poll' = Finished(FALSE)
  BY DEF ItemFails
<1>2. seen \subseteq Hashes /\ \A h \in seen : point[h] # NoPoint
  BY DEF TypeInv, PollInv
<1>3. poll' \in Polls /\ poll'.water <= posted' /\ ItemInv' /\ PollInv'
  <2>1. poll.at # "idle" /\ poll.todo # {}
    BY <1>1 DEF ItemInv
  <2>2. \A h \in seen' : point'[h] # NoPoint
    BY <1>1, <1>2
  <2>3. QED BY <1>1, <1>2, <2>1, <2>2, ItemOver
<1>4. poll'.at = "item"
  BY <1>1 DEF Finished, TypeInv, Polls
<1>5. TypeInv'
  BY <1>1, <1>3, <1>4 DEF TypeInv, workerVars
<1>6. WorkerInv'
  <2>1. stream \in Seq(Messages) /\ Len(stream) \in Nat
    BY DEF TypeInv
  <2>2. Respects
    BY <1>1, <2>1 DEF Respects
  <2>3. QED BY <1>1, <2>2, WorkerUndisturbed
<1>7. PointInv'
  BY <1>1, <1>4 DEF PointInv, Queued
<1>8. QED BY <1>3, <1>5, <1>6, <1>7

\* A poll that is over, with or without saving its watermark.
LEMMA PollOver ==
  ASSUME TypeInv, ItemInv, PollInv, PointInv, poll' = NoPoll,
         watermark' \in {watermark, poll.water}, poll.at # "idle",
         UNCHANGED <<posted, seen, stream, crowded>>,
         point' \in [Hashes -> Points],
         \A h \in Hashes : point[h] # NoPoint => point'[h] # NoPoint
  PROVE  watermark' \in 0..posted' /\ poll' \in Polls /\ poll'.water <= posted'
         /\ ItemInv' /\ PollInv' /\ poll'.at = "idle"
<1>1. posted \in 0..MaxId /\ watermark \in 0..posted /\ poll.water \in 0..MaxId
      /\ poll.water <= posted /\ MaxId \in Nat
  BY TelegramAssumption DEF TypeInv, Polls
<1>2. poll' \in Polls /\ poll'.todo = {} /\ poll'.at = "idle" /\ poll'.water = 0
  BY <1>1 DEF NoPoll, Polls
<1>3. \A m \in Messages : Fine(m) => Fine(m)'
  BY DEF Fine, Hashes
<1>4. \A m \in 1..watermark' : m \notin Exempt => Fine(m)'
  <2>1. \A m \in 1..watermark' : m \in Messages
    BY <1>1 DEF Messages
  <2>2. \A m \in 1..watermark' : m \notin Exempt => Fine(m)
    BY DEF PollInv, WatermarkPassesOnlyPersisted, Fine, Exempt
  <2>3. QED BY <1>3, <2>1, <2>2
<1>5. WatermarkPassesOnlyPersisted'
  BY <1>4 DEF WatermarkPassesOnlyPersisted, Fine, Exempt
<1>6. PollInv'
  BY <1>2, <1>5 DEF PollInv, TypeInv
<1>7. QED BY <1>1, <1>2, <1>6 DEF ItemInv

LEMMA SaveWatermarkKeeps ==
  ASSUME VisionInv, SaveWatermark, UNCHANGED workerVars PROVE VisionInv'
<1> USE DEF VisionInv
<1>1. /\ UNCHANGED <<posted, seen, point, graph, stream, group, pel, crowded, again>>
      /\ poll.at = "item" /\ watermark' = poll.water /\ poll' = NoPoll
  BY DEF SaveWatermark
<1>2. watermark' \in 0..posted' /\ poll' \in Polls /\ poll'.water <= posted'
      /\ ItemInv' /\ PollInv' /\ poll'.at = "idle"
  <2>1. point' \in [Hashes -> Points] /\ poll.at # "idle"
    BY <1>1 DEF TypeInv
  <2>2. QED BY <1>1, <2>1, PollOver
<1>3. TypeInv'
  BY <1>1, <1>2 DEF TypeInv, workerVars
<1>4. WorkerInv'
  <2>1. stream \in Seq(Messages) /\ Len(stream) \in Nat
    BY DEF TypeInv
  <2>2. Respects
    BY <1>1, <2>1 DEF Respects
  <2>3. QED BY <1>1, <2>2, WorkerUndisturbed
<1>5. PointInv'
  BY <1>1, <1>2 DEF PointInv, Queued
<1>6. QED BY <1>2, <1>3, <1>4, <1>5

LEMMA AbortKeeps ==
  ASSUME VisionInv, Abort, UNCHANGED workerVars PROVE VisionInv'
<1> USE DEF VisionInv
<1>1. /\ UNCHANGED <<posted, watermark, seen, graph, stream, group, pel, crowded>>
      /\ poll.at # "idle" /\ poll' = NoPoll
      /\ (poll.at = "upsert" /\ Persist) \/ UNCHANGED <<point, again>>
  BY DEF Abort
<1>2. stream \in Seq(Messages) /\ Len(stream) \in Nat
  BY DEF TypeInv
<1>3. /\ point' \in [Hashes -> Points] /\ Respects
      /\ \A h \in Hashes : point'[h] # NoPoint =>
           point'[h].url \in Messages /\ Hash(point'[h].url) = h
      /\ \A h \in Hashes : point'[h].vision = "pending" => Queued(point[h].url)'
  <2>1. CASE poll.at = "upsert" /\ Persist
    BY <1>1, <2>1, AfterPersist
  <2>2. CASE UNCHANGED <<point, again>>
    BY <1>1, <1>2, <2>2 DEF Respects, TypeInv, PointInv, Queued
  <2>3. QED BY <1>1, <2>1, <2>2
<1>4. watermark' \in 0..posted' /\ poll' \in Polls /\ poll'.water <= posted'
      /\ ItemInv' /\ PollInv' /\ poll'.at = "idle"
  <2>1. \A h \in Hashes : point[h] # NoPoint => point'[h] # NoPoint
    BY <1>3 DEF Respects
  <2>2. QED BY <1>1, <1>3, <2>1, PollOver
<1>5. TypeInv'
  BY <1>1, <1>3, <1>4 DEF TypeInv, workerVars
<1>6. WorkerInv'
  BY <1>1, <1>3, WorkerUndisturbed
<1>7. PointInv'
  BY <1>3, <1>4 DEF PointInv
<1>8. QED BY <1>4, <1>5, <1>6, <1>7

-------------------------------------------------------------------------------
(* The steps of the worker *)

LEMMA CollectorUndisturbed ==
  ASSUME VisionInv, UNCHANGED <<posted, collectorVars, point>>
  PROVE  ItemInv' /\ PollInv' /\ PointInv' /\ \A e : Carried(e)' = Carried(e)
<1> USE DEF collectorVars, VisionInv
<1>1. ItemInv'
  BY DEF ItemInv
<1>2. PollInv'
  BY DEF PollInv, WatermarkPassesOnlyPersisted, Fine, Exempt, InHand, Item
<1>3. PointInv'
  BY DEF PointInv, Queued, Item
<1>4. QED BY <1>1, <1>2, <1>3 DEF Carried

\* The entry in hand is the oldest of the batch.
LEMMA EntryInHand ==
  ASSUME TypeInv, worker.at \notin {"read", "claim"}
  PROVE  Entry \in worker.batch /\ Entry \in 1..delivered
<1>1. worker.batch \subseteq Nat /\ worker.batch # {}
  BY DEF TypeInv, Workers
<1>2. QED BY <1>1, MinOf DEF Entry, TypeInv

\* The worker goes on to a place that promises nothing yet.
LEMMA Onward ==
  ASSUME VisionInv, UNCHANGED <<posted, collectorVars, point>>,
         delivered' \in 0..Len(stream), delivered <= delivered', pel' \subseteq 1..delivered',
         worker' \in Workers, worker'.batch \subseteq 1..delivered',
         worker'.at \in {"read", "claim", "graph", "bury"},
         worker'.at \notin {"read", "claim"} => worker'.batch # {},
         dead \subseteq dead', enriched \subseteq enriched',
         \A e \in 1..delivered' : e \in pel' \cup dead' \/ (e \in 1..delivered /\ e \in enriched /\ Carried(e))
  PROVE  VisionInv'
<1>1. TypeInv'
  BY DEF TypeInv, VisionInv, collectorVars
<1>2. WorkerInv'
  BY CollectorUndisturbed DEF WorkerInv
<1>3. QED BY <1>1, <1>2, CollectorUndisturbed DEF VisionInv

LEMMA AdvancedType ==
  ASSUME TypeInv, worker.at \notin {"read", "claim"}
  PROVE  /\ Advanced \in Workers /\ Advanced.batch \subseteq 1..delivered
         /\ Advanced.at \in {"read", "claim", "graph"}
         /\ Advanced.at = "graph" => Advanced.batch # {}
<1>1. worker \in Workers /\ Entry \in worker.batch /\ worker.batch \subseteq 1..delivered
  BY EntryInHand DEF TypeInv
<1>2. CASE worker.batch # {Entry}
  BY <1>1, <1>2 DEF Advanced, Workers
<1>3. CASE worker.batch = {Entry}
  BY <1>1, <1>3 DEF Advanced, Workers, Idle
<1>4. QED BY <1>2, <1>3

LEMMA EnsureGroupKeeps ==
  ASSUME VisionInv, EnsureGroup PROVE VisionInv'
<1>1. UNCHANGED <<posted, collectorVars, point, pel, workerVars>>
  BY DEF EnsureGroup
<1>2. TypeInv'
  BY <1>1 DEF VisionInv, TypeInv, collectorVars, workerVars
<1>3. WorkerInv'
  BY <1>1, CollectorUndisturbed DEF VisionInv, WorkerInv, workerVars, Entry
<1>4. QED BY <1>1, <1>2, <1>3, CollectorUndisturbed DEF VisionInv

LEMMA BeginType ==
  ASSUME TypeInv, NEW batch \in SUBSET Nat, NEW turn \in {"read", "claim"}, Begin(batch, turn)
  PROVE  /\ worker' \in Workers /\ worker'.batch = batch
         /\ worker'.at \in {"read", "claim", "graph"}
         /\ worker'.at = "graph" => batch # {}
<1>1. CASE batch = {}
  BY <1>1 DEF Begin, Idle, Workers
<1>2. CASE batch # {}
  BY <1>2 DEF Begin, Workers
<1>3. QED BY <1>1, <1>2

LEMMA ReadNewKeeps ==
  ASSUME VisionInv, ReadNew PROVE VisionInv'
<1> DEFINE last == Min({delivered + ReadCount, Len(stream)})
           new == (delivered + 1)..last
<1>1. /\ UNCHANGED <<posted, collectorVars, point, dead, enriched>>
      /\ delivered' = last /\ pel' = pel \cup new /\ Begin(new, "claim")
  BY DEF ReadNew
<1>2. delivered \in 0..Len(stream) /\ Len(stream) \in Nat /\ pel \subseteq 1..delivered
  BY DEF VisionInv, TypeInv
<1>3. last \in delivered..Len(stream)
  <2>1. ReadCount \in Nat
    BY VisionAssumption
  <2>2. {delivered + ReadCount, Len(stream)} \subseteq Nat
    BY <1>2, <2>1
  <2>3. last \in {delivered + ReadCount, Len(stream)} /\ last <= Len(stream)
    BY <2>2, MinOf
  <2>4. QED BY <1>2, <2>1, <2>3
<1> HIDE DEF last
<1>4. new \in SUBSET Nat
  BY <1>2, <1>3
<1>5. /\ worker' \in Workers /\ worker'.batch = new
      /\ worker'.at \in {"read", "claim", "graph"}
      /\ worker'.at = "graph" => new # {}
  BY <1>1, <1>4, BeginType DEF VisionInv
<1>6. \A e \in 1..last : e \in pel' \cup dead' \/ (e \in 1..delivered /\ e \in enriched /\ Carried(e))
  <2>1. \A e \in 1..last : e \in 1..delivered \/ e \in new
    BY <1>2, <1>3
  <2>2. QED BY <1>1, <2>1 DEF VisionInv, WorkerInv
<1>7. delivered' \in 0..Len(stream) /\ delivered <= delivered' /\ pel' \subseteq 1..delivered'
      /\ worker'.batch \subseteq 1..delivered'
  BY <1>1, <1>2, <1>3, <1>5
<1>8. QED BY <1>1, <1>5, <1>6, <1>7, Onward

LEMMA ClaimKeeps ==
  ASSUME VisionInv, Claim PROVE VisionInv'
<1>1. PICK idle \in SUBSET pel : ClaimOf(idle)
  BY DEF Claim
<1>2. /\ UNCHANGED <<posted, collectorVars, point, pel, delivered, dead, enriched>>
      /\ Begin(Oldest(idle), "read")
  BY <1>1 DEF ClaimOf
<1>3. delivered \in 0..Len(stream) /\ Len(stream) \in Nat /\ pel \subseteq 1..delivered
  BY DEF VisionInv, TypeInv
<1>4. Oldest(idle) \in SUBSET Nat /\ Oldest(idle) \subseteq 1..delivered
  <2>1. Oldest(idle) \subseteq idle
    BY Zenon DEF Oldest
  <2>2. idle \subseteq 1..delivered /\ 1..delivered \subseteq Nat
    BY <1>1, <1>3
  <2>3. QED BY <2>1, <2>2, Zenon
<1>5. /\ worker' \in Workers /\ worker'.batch = Oldest(idle)
      /\ worker'.at \in {"read", "claim", "graph"}
      /\ worker'.at = "graph" => Oldest(idle) # {}
  BY <1>2, <1>4, BeginType DEF VisionInv
<1>6. \A e \in 1..delivered : e \in pel \cup dead \/ (e \in enriched /\ Carried(e))
  BY DEF VisionInv, WorkerInv
<1>7. QED BY <1>2, <1>3, <1>4, <1>5, <1>6, Onward

\* What is accounted for stays so when the worker only goes on.
LEMMA StillAccounted ==
  ASSUME VisionInv
  PROVE  \A e \in 1..delivered : e \in pel \cup dead \/ (e \in enriched /\ Carried(e))
BY DEF VisionInv, WorkerInv

LEMMA DeliveredType ==
  ASSUME VisionInv
  PROVE  /\ delivered \in 0..Len(stream) /\ delivered \in Nat /\ delivered <= delivered
         /\ pel \subseteq 1..delivered
         /\ worker \in Workers /\ worker.batch \subseteq 1..delivered
<1>1. stream \in Seq(Messages)
  BY DEF VisionInv, TypeInv
<1>2. QED BY <1>1 DEF VisionInv, TypeInv

LEMMA DescribeDocumentKeeps ==
  ASSUME VisionInv, DescribeDocument PROVE VisionInv'
<1>1. /\ UNCHANGED <<posted, collectorVars, point, pel, delivered, dead, enriched>>
      /\ worker.at = "graph" /\ worker' = [worker EXCEPT !.at = "point"]
  BY DEF DescribeDocument, Holding
<1>2. worker' \in Workers /\ worker'.at = "point" /\ worker'.batch = worker.batch
      /\ worker.batch # {}
  BY <1>1, DeliveredType DEF Workers, VisionInv, TypeInv
<1>3. TypeInv'
  BY <1>1, <1>2 DEF VisionInv, TypeInv, collectorVars
<1>4. WorkerInv'
  BY <1>1, <1>2, CollectorUndisturbed DEF VisionInv, WorkerInv
<1>5. QED BY <1>1, <1>3, <1>4, CollectorUndisturbed DEF VisionInv

LEMMA DescribePointKeeps ==
  ASSUME VisionInv, DescribePoint PROVE VisionInv'
<1>1. /\ UNCHANGED <<posted, collectorVars, pel, delivered, dead, enriched>>
      /\ worker.at = "point" /\ worker' = [worker EXCEPT !.at = "publish"]
  BY DEF DescribePoint, Holding
<1>2. PICK h \in Targets : point' = [point EXCEPT ![h].vision = "completed"]
  BY DEF DescribePoint
<1>3. h \in Hashes /\ point[h].url = Url /\ point[h] # NoPoint
  BY <1>2 DEF Targets
<1>4. point \in [Hashes -> Points] /\ point[h] \in Points
  BY <1>3 DEF VisionInv, TypeInv
<1> DEFINE new == [point[h] EXCEPT !.vision = "completed"]
<1>5. /\ new \in Points /\ new.url = point[h].url /\ new.vision = "completed"
      /\ new # NoPoint
  BY <1>4 DEF Points, NoPoint
<1> HIDE DEF new
<1>6. point' = [point EXCEPT ![h] = new]
  BY <1>2, <1>4 DEF new
<1>7. \A g \in Hashes : point'[g] = IF g = h THEN new ELSE point[g]
  BY <1>4, <1>6
<1>8. point' \in [Hashes -> Points]
  BY <1>3, <1>4, <1>5, <1>6
<1>9. worker' \in Workers /\ worker'.at = "publish" /\ worker'.batch = worker.batch
      /\ worker.batch # {}
  BY <1>1, DeliveredType DEF Workers, VisionInv, TypeInv
<1>10. TypeInv'
  BY <1>1, <1>8, <1>9 DEF VisionInv, TypeInv, collectorVars
<1>11. ItemInv'
  BY <1>1 DEF VisionInv, ItemInv, collectorVars
<1>12. \A g \in Hashes : point[g] # NoPoint => point'[g] # NoPoint
  BY <1>5, <1>7
<1>13. PollInv'
  <2>1. Item' = Item
    BY <1>1 DEF Item, collectorVars
  <2>2. \A g \in seen : point'[g] # NoPoint
    BY <1>12 DEF VisionInv, PollInv, TypeInv
  <2>3. ASSUME NEW m, Fine(m) PROVE Fine(m)'
    BY <1>1, <2>2, <2>3 DEF Fine, collectorVars
  <2>4. poll.at = "mark" => point'[Item.hash] # NoPoint
    <3>1. CASE poll.at = "mark"
      <4>1. Item.hash \in Hashes /\ point[Item.hash] # NoPoint
        BY <3>1, ItemFirst DEF VisionInv, ItemInv, PollInv, Members
      <4>2. QED BY <1>12, <4>1
    <3>2. QED BY <3>1
  <2>5. \A m : InHand(m)' = InHand(m) /\ Exempt' = Exempt
    BY <1>1 DEF InHand, Exempt, collectorVars
  <2>6. WatermarkPassesOnlyPersisted'
    BY <1>1, <2>3 DEF VisionInv, PollInv, WatermarkPassesOnlyPersisted, Fine, collectorVars
  <2>7. poll.at # "idle" =>
          /\ \A m \in 1..poll.water : m \notin Exempt => Fine(m)'
          /\ ~poll.frozen =>
               \A i \in poll.todo : \A m \in 1..i.id : m \notin Exempt => Fine(m)' \/ InHand(m)
    BY <2>3 DEF VisionInv, PollInv
  <2>8. UNCHANGED <<poll, seen>>
    BY <1>1 DEF collectorVars
  <2>9. QED BY <2>1, <2>2, <2>4, <2>5, <2>6, <2>7, <2>8 DEF PollInv
<1>14. Url = stream[Entry] /\ Hash(Url) = h
  BY <1>3 DEF VisionInv, PointInv, Url
<1>15. WorkerInv'
  <2>1. stream \in Seq(Messages) /\ Entry \in 1..delivered /\ delivered \in 0..Len(stream)
    BY <1>1, EntryInHand DEF VisionInv, TypeInv
  <2>2. UNCHANGED <<stream, again>> /\ Entry' = Entry
    BY <1>1, <1>9 DEF Entry, collectorVars
  <2>3. Carried(Entry)'
    BY <1>3, <1>5, <1>7, <1>14, <2>2 DEF Carried
  <2>4. ASSUME NEW e \in 1..delivered, Carried(e) PROVE Carried(e)'
    <3>1. Hash(stream[e]) \in Hashes
      BY <2>1 DEF Hashes
    <3>2. QED BY <1>5, <1>7, <2>2, <2>4, <3>1 DEF Carried
  <2>5. QED BY <1>1, <1>9, <2>2, <2>3, <2>4 DEF VisionInv, WorkerInv
<1>16. PointInv'
  <2>1. \A g \in Hashes : point'[g] # NoPoint => point'[g].url \in Messages /\ Hash(point'[g].url) = g
    BY <1>3, <1>5, <1>7 DEF VisionInv, PointInv
  <2>2. \A g \in Hashes : point'[g].vision = "pending" => Queued(point'[g].url)
    BY <1>5, <1>7 DEF VisionInv, PointInv
  <2>3. UNCHANGED <<stream, poll>> /\ Item' = Item
    BY <1>1 DEF Item, collectorVars
  <2>4. QED BY <2>1, <2>2, <2>3 DEF VisionInv, PointInv, Queued
<1>17. QED BY <1>10, <1>11, <1>13, <1>15, <1>16 DEF VisionInv

LEMMA PublishKeeps ==
  ASSUME VisionInv, Publish PROVE VisionInv'
<1>1. /\ UNCHANGED <<posted, collectorVars, point, pel, delivered, dead>>
      /\ enriched' = enriched \cup {Entry}
      /\ worker.at = "publish" /\ worker' = [worker EXCEPT !.at = "ack"]
  BY DEF Publish, Holding
<1>2. worker' \in Workers /\ worker'.at = "ack" /\ worker'.batch = worker.batch
      /\ worker.batch # {}
  BY <1>1, DeliveredType DEF Workers, VisionInv, TypeInv
<1>3. TypeInv'
  BY <1>1, <1>2 DEF VisionInv, TypeInv, collectorVars
<1>4. WorkerInv'
  <2>1. Entry' = Entry
    BY <1>2 DEF Entry
  <2>2. QED BY <1>1, <1>2, <2>1, CollectorUndisturbed DEF VisionInv, WorkerInv
<1>5. QED BY <1>1, <1>3, <1>4, CollectorUndisturbed DEF VisionInv

LEMMA BuryKeeps ==
  ASSUME VisionInv, Bury PROVE VisionInv'
<1>1. /\ UNCHANGED <<posted, collectorVars, point, pel, delivered, enriched>>
      /\ dead' = dead \cup {Entry}
      /\ worker.at = "bury" /\ worker' = [worker EXCEPT !.at = "buried"]
  BY DEF Bury, Holding
<1>2. worker' \in Workers /\ worker'.at = "buried" /\ worker'.batch = worker.batch
      /\ worker.batch # {}
  BY <1>1, DeliveredType DEF Workers, VisionInv, TypeInv
<1>3. TypeInv'
  BY <1>1, <1>2 DEF VisionInv, TypeInv, collectorVars
<1>4. WorkerInv'
  <2>1. Entry' = Entry
    BY <1>2 DEF Entry
  <2>2. QED BY <1>1, <1>2, <2>1, CollectorUndisturbed DEF VisionInv, WorkerInv
<1>5. QED BY <1>1, <1>3, <1>4, CollectorUndisturbed DEF VisionInv

\* An entry is acknowledged when its event is out, or when it is dead.
LEMMA AcknowledgeKeeps ==
  ASSUME VisionInv, Acknowledge \/ AcknowledgeBuried PROVE VisionInv'
<1>1. /\ UNCHANGED <<posted, collectorVars, point, delivered, dead, enriched>>
      /\ pel' = pel \ {Entry} /\ worker' = Advanced
      /\ worker.at \in {"ack", "buried"}
  BY DEF Acknowledge, AcknowledgeBuried, Holding
<1>2. (Carried(Entry) /\ Entry \in enriched) \/ Entry \in dead
  BY <1>1 DEF VisionInv, WorkerInv
<1>3. worker.at \notin {"read", "claim"} /\ TypeInv
  BY <1>1 DEF VisionInv
<1>4. \A e \in 1..delivered : e \in pel' \cup dead \/ (e \in enriched /\ Carried(e))
  BY <1>1, <1>2, StillAccounted
<1>5. QED BY <1>1, <1>3, <1>4, AdvancedType, DeliveredType, Onward

LEMMA CountFailureKeeps ==
  ASSUME VisionInv, CountFailure, worker.at \notin {"read", "claim"},
         UNCHANGED <<posted, collectorVars, point, delivered, dead, enriched>>
  PROVE  VisionInv'
<1>1. pel' = pel /\ worker' \in {Advanced, [worker EXCEPT !.at = "bury"]}
  BY DEF CountFailure
<1>2. TypeInv
  BY DEF VisionInv
<1>3. CASE worker' = Advanced
  BY <1>1, <1>2, <1>3, AdvancedType, DeliveredType, StillAccounted, Onward
<1>4. CASE worker' = [worker EXCEPT !.at = "bury"]
  <2>1. worker' \in Workers /\ worker'.at = "bury" /\ worker'.batch = worker.batch
        /\ worker.batch # {}
    BY <1>4, DeliveredType DEF Workers, VisionInv, TypeInv
  <2>2. QED BY <1>1, <2>1, DeliveredType, StillAccounted, Onward
<1>5. QED BY <1>1, <1>3, <1>4

LEMMA RestartKeeps ==
  ASSUME VisionInv, Restart PROVE VisionInv'
<1>1. /\ UNCHANGED <<posted, collectorVars, point, pel, delivered, dead, enriched>>
      /\ worker' = Idle("read")
  BY DEF Restart
<1>2. worker' \in Workers /\ worker'.at = "read" /\ worker'.batch = {}
  BY <1>1 DEF Idle, Workers
<1>3. QED BY <1>1, <1>2, DeliveredType, StillAccounted, Onward

-------------------------------------------------------------------------------
(* The theorems *)

LEMMA VisionInit == Init => VisionInv
<1> SUFFICES ASSUME Init PROVE VisionInv
  OBVIOUS
<1> USE DEF Init, CollectorInit
<1>1. MaxId \in Nat
  BY TelegramAssumption
<1>2. poll.at = "idle" /\ poll.todo = {} /\ poll \in Polls /\ poll.water = 0
  BY <1>1 DEF NoPoll, Polls
<1>3. worker.at = "read" /\ worker.batch = {} /\ worker \in Workers
  BY DEF Idle, Workers
<1>4. NoPoint \in Points /\ NoPoint.vision = "none"
  BY <1>1 DEF NoPoint, Points
<1>5. TypeInv
  <2>1. stream \in Seq(Messages) /\ Len(stream) = 0
    OBVIOUS
  <2>2. QED BY <1>1, <1>2, <1>3, <1>4, <2>1 DEF TypeInv
<1>6. ItemInv
  BY <1>2 DEF ItemInv
<1>7. PollInv
  BY <1>2 DEF PollInv, WatermarkPassesOnlyPersisted
<1>8. WorkerInv
  BY <1>3 DEF WorkerInv
<1>9. PointInv
  BY <1>2, <1>4 DEF PointInv
<1>10. QED BY <1>5, <1>6, <1>7, <1>8, <1>9 DEF VisionInv

LEMMA VisionStep == VisionInv /\ [Next]_vars => VisionInv'
<1> SUFFICES ASSUME VisionInv, [Next]_vars PROVE VisionInv'
  OBVIOUS
<1>1. CASE CollectorNext /\ UNCHANGED workerVars
  BY <1>1, PostKeeps, StartPollKeeps, PassOverKeeps, EnqueueKeeps, ExtractKeeps, UpsertKeeps,
     MarkSeenKeeps, SaveWatermarkKeeps, ItemFailsKeeps, AbortKeeps DEF CollectorNext, PollStep
<1>2. CASE Fail \/ FailLate
  <2>1. /\ CountFailure /\ worker.at \notin {"read", "claim"}
        /\ UNCHANGED <<posted, collectorVars, point, delivered, dead, enriched>>
    BY <1>2 DEF Fail, FailLate
  <2>2. QED BY <2>1, CountFailureKeeps
<1>3. CASE WorkerNext /\ ~(Fail \/ FailLate)
  BY <1>3, EnsureGroupKeeps, ReadNewKeeps, ClaimKeeps, DescribeDocumentKeeps, DescribePointKeeps,
     PublishKeeps, AcknowledgeKeeps, BuryKeeps, RestartKeeps DEF WorkerNext, EntryStep
<1>4. CASE UNCHANGED vars
  <2>1. UNCHANGED <<posted, collectorVars, point, pel, workerVars>>
    BY <1>4 DEF vars
  <2>2. TypeInv'
    BY <2>1 DEF VisionInv, TypeInv, collectorVars, workerVars
  <2>3. WorkerInv'
    BY <2>1, CollectorUndisturbed DEF VisionInv, WorkerInv, workerVars, Entry
  <2>4. QED BY <2>1, <2>2, <2>3, CollectorUndisturbed DEF VisionInv
<1>5. QED BY <1>1, <1>2, <1>3, <1>4 DEF Next

\* The inductive invariant holds for every channel, limit and number of faults.
THEOREM VisionInvariant == Spec => []VisionInv
<1>1. Init => VisionInv
  BY VisionInit
<1>2. VisionInv /\ [Next]_vars => VisionInv'
  BY VisionStep
<1>3. QED BY <1>1, <1>2, PTL DEF Spec

\* The watermark passes a message only when its item is persisted and marked,
\* whatever fails, times out or restarts (telegram_collector._process_channel).
THEOREM NothingLostBehindWatermark == Spec => []WatermarkPassesOnlyPersisted
<1>1. VisionInv => WatermarkPassesOnlyPersisted
  BY DEF VisionInv, PollInv
<1>2. QED BY <1>1, VisionInvariant, PTL

\* A delivered entry is pending, enriched or dead (consumer.run_consumer).
THEOREM NoEntryLost == Spec => []EntryAccounted
<1>1. VisionInv => EntryAccounted
  BY DEF VisionInv, WorkerInv, EntryAccounted
<1>2. QED BY <1>1, VisionInvariant, PTL

\* A document that waits for its description has an entry that is still to be
\* worked off, or dead, unless it was upserted twice.
THEOREM WaitingIsOwed == Spec => []PendingIsOwed
<1>1. ASSUME VisionInv, NEW h \in Hashes, point[h].vision = "pending", h \notin again
      PROVE  Owed(point[h].url)
  <2>1. PICK e \in 1..Len(stream) : stream[e] = point[h].url
    BY <1>1 DEF VisionInv, PointInv, Queued
  <2>2. point[h] # NoPoint
    BY <1>1 DEF NoPoint
  <2>3. Hash(stream[e]) = h
    BY <1>1, <2>1, <2>2 DEF VisionInv, PointInv
  <2>4. ~Carried(e)
    BY <1>1, <2>3 DEF Carried
  <2>5. delivered \in Nat /\ Len(stream) \in Nat
    BY <1>1, DeliveredType DEF VisionInv, TypeInv
  <2>6. e > delivered \/ e \in pel \cup dead
    BY <1>1, <2>4, <2>5, StillAccounted
  <2>7. QED BY <2>1, <2>6 DEF Owed
<1>2. VisionInv => PendingIsOwed
  BY <1>1 DEF PendingIsOwed
<1>3. QED BY <1>2, VisionInvariant, PTL

=============================================================================
