----------------------------- MODULE IncidentFeed -----------------------------
(***************************************************************************)
(* The path of an incident event from the backend to the War Room: the     *)
(* publishers commit to Neo4j and then publish on IncidentStream, one SSE  *)
(* generator per browser replays and tails its ring, and IncidentProvider  *)
(* keeps the active incident from a REST snapshot and the stream.          *)
(*                                                                         *)
(* A publisher sits between commit and publication while its database call *)
(* returns.  The end of an incident may commit, and be published, while a  *)
(* change before it is unpublished; that change is then published first or *)
(* not at all (ClusterStore shows it for updates).  The clock is the wall  *)
(* clock in milliseconds, an event id the clock and a counter, and both    *)
(* compare as one number because the counter stays below SeqWrap.  The     *)
(* clock is never set back: with one that is, IdsAscend does not hold.     *)
(***************************************************************************)
EXTENDS Naturals, FiniteSets, Sequences, SequencesExt

CONSTANTS
  Incidents,    \* numbered in the order they are triggered
  MaxMs,        \* bound on the clock
  Window,       \* window_seconds (900)
  SeqWrap,      \* the counter of event ids is kept modulo this (10^6)
  RingSize,     \* max_size (200)
  QueueSize,    \* maxsize of a live queue (200)
  DedupeCap,    \* DEDUPE_CAP (200)
  UpdatesUntil, \* bound on updates: none is committed once the counter is here
  MaxFaults     \* bound on lost connections, failed requests and restarts

ASSUME IncidentFeedAssumption ==
  /\ Incidents \subseteq Nat \ {0}
  /\ {MaxMs, Window, UpdatesUntil, MaxFaults} \subseteq Nat
  /\ {SeqWrap, RingSize, QueueSize, DedupeCap} \subseteq Nat \ {0}

VARIABLES
  db,           \* incident table
  unsent,       \* committed changes of each incident still to be published
  clock,        \* time.time() of the backend
  seq,          \* IncidentStream._seq
  ring,         \* IncidentStream._buffer
  top,          \* history: highest event id ever published
  queue,        \* live queue of the browser's connection
  delivered,    \* last_delivered of its generator
  replayed,     \* replay_ids of its generator
  wire,         \* frames under way to the browser
  phase,        \* life of the browser's connection
  url,          \* last_event_id in the URL of the connection being opened
  active,       \* the active incident shown
  dedupe,       \* seenOrderRef (seenRef holds the same ids)
  lastId,       \* lastIdRef
  fetches,      \* REST snapshots under way, in the order they were asked for
  missed,       \* history: the browser lost a frame, or showed an old snapshot
  faults

tableVars == <<db, unsent>>
streamVars == <<clock, seq, ring, top>>
connVars == <<queue, delivered, replayed, wire, phase, url>>
viewVars == <<active, dedupe, lastId, fetches>>
vars == <<tableVars, streamVars, connVars, viewVars, missed, faults>>

NoId == 0
None == 0                         \* no incident
Reset == [id |-> NoId, inc |-> None, ends |-> FALSE]

-------------------------------------------------------------------------------
(* IncidentStream *)

\* The buffer from the first of these places on.
From(buffer, places) ==
  IF places = {} THEN <<>>
  ELSE SubSeq(buffer, CHOOSE n \in places : \A m \in places : n <= m, Len(buffer))

\* _prune: envelopes leave at the head, up to the first one inside the window.
Expired(id) == id + Window * SeqWrap < clock * SeqWrap
Pruned(buffer) == From(buffer, {n \in DOMAIN buffer : ~Expired(buffer[n].id)})

\* Mutant: the counter starts again with every publication.
EventIdNoSeq(ms, count) == ms * SeqWrap

\* _build_event_id.
EventId(ms, count) == ms * SeqWrap + count

\* publish: prune, number, append, fan out; a full live queue drops the envelope.
Publish(inc, ends) ==
  LET count == (seq + 1) % SeqWrap
      env == [id |-> EventId(clock, count), inc |-> inc, ends |-> ends]
      fresh == Pruned(ring)
      drops == phase = "live" /\ Len(queue) = QueueSize
  IN  /\ seq' = count
      /\ ring' = Append(IF Len(fresh) = RingSize THEN Tail(fresh) ELSE fresh, env)
      /\ top' = IF env.id > top THEN env.id ELSE top
      /\ queue' = IF phase = "live" /\ ~drops THEN Append(queue, env) ELSE queue
      /\ missed' = (missed \/ drops)

\* get_replay: no id, and an empty ring, answer "ok" with nothing.  The envelopes with a
\* higher id are the last of the ring, because its ids ascend (IdsAscend).
StaleId(buffer, last) == last # NoId /\ buffer # <<>> /\ last < Head(buffer).id
Replay(buffer, last) ==
  IF last = NoId \/ StaleId(buffer, last) THEN <<>>
  ELSE From(buffer, {n \in DOMAIN buffer : buffer[n].id > last})

-------------------------------------------------------------------------------
(* Incidents are opened, updated and ended; time passes *)

Committed(i, ends) ==
  /\ db' = [db EXCEPT ![i] = IF ends THEN "ended" ELSE "open"]
  /\ unsent' = [unsent EXCEPT ![i] = @ \cup {IF ends THEN "end" ELSE "open"}]
  /\ UNCHANGED <<streamVars, connVars, viewVars, missed, faults>>

\* Incidents open in the order of their trigger time.
IncidentOpens ==
  \E i \in Incidents :
    /\ db[i] = "absent" /\ \A j \in Incidents : j < i => db[j] # "absent"
    /\ Committed(i, FALSE)

\* The promoter hands its next hit over when it has published the one before.
IncidentUpdates ==
  \E i \in Incidents :
    /\ db[i] = "open" /\ unsent[i] = {} /\ seq < UpdatesUntil
    /\ Committed(i, FALSE)

IncidentEnds == \E i \in Incidents : db[i] = "open" /\ Committed(i, TRUE)

\* An update that returns after the end was published finds the cluster ended.
PublisherResumes ==
  \E i \in Incidents : \E change \in unsent[i] :
    /\ Publish(i, change = "end")
    /\ unsent' = [unsent EXCEPT ![i] = IF change = "end" THEN {} ELSE @ \ {change}]
  /\ UNCHANGED <<db, clock, delivered, replayed, wire, phase, url, viewVars, faults>>

ClockTicks ==
  /\ clock < MaxMs
  /\ clock' = clock + 1
  /\ UNCHANGED <<tableVars, seq, ring, top, connVars, viewVars, missed, faults>>

-------------------------------------------------------------------------------
(* The SSE generator of the connection *)

\* Every envelope goes out as two frames: the typed event and a plain message.
Twice(frames) == [n \in 1 .. 2 * Len(frames) |-> frames[(n + 1) \div 2]]

\* What the browser has not seen and this connection will not bring.
LeavesGap(buffer) == top > url /\ (url = NoId \/ buffer = <<>>)

\* The request arrives: subscribe, compute the replay, send preamble and replay.
ServerAccepts ==
  /\ phase = "connecting"
  /\ LET buffer == Pruned(ring)
         stale == StaleId(buffer, url)
         replay == Replay(buffer, url)
     IN  /\ ring' = buffer
         /\ wire' = IF stale THEN <<Reset>> ELSE Twice(replay)
         /\ replayed' = {e.id : e \in Range(replay)}
         /\ delivered' = IF replay = <<>> THEN url ELSE Last(replay).id
         /\ missed' = (~stale /\ (missed \/ LeavesGap(buffer)))
  /\ queue' = <<>>
  /\ phase' = "live"
  /\ UNCHANGED <<tableVars, clock, seq, top, url, viewVars, faults>>

ServerSends ==
  /\ phase = "live" /\ queue # <<>>
  /\ queue' = Tail(queue)
  /\ LET env == Head(queue) IN
       IF env.id \in replayed \/ (delivered # NoId /\ env.id <= delivered)
       THEN UNCHANGED <<delivered, wire>>
       ELSE delivered' = env.id /\ wire' = wire \o Twice(<<env>>)
  /\ UNCHANGED <<tableVars, streamVars, replayed, phase, url, viewVars, missed, faults>>

-------------------------------------------------------------------------------
(* IncidentProvider *)

\* Mutant: every envelope makes its incident the active one.
ActiveAfterAlways(env) == env.inc

\* applyEnvelope: the end of an incident clears it only if it is the active one.
ActiveAfter(env) ==
  CASE ~env.ends -> env.inc
    [] env.ends /\ active = env.inc -> None
    [] OTHER -> active

Remember(id) == IF Len(dedupe) = DedupeCap THEN Append(Tail(dedupe), id) ELSE Append(dedupe, id)

\* handleData, for both frames of an envelope.
EnvelopeArrives ==
  /\ wire # <<>> /\ Head(wire) # Reset
  /\ LET env == Head(wire) IN
       IF env.id \in Range(dedupe) THEN UNCHANGED <<active, dedupe, lastId>>
       ELSE /\ dedupe' = Remember(env.id)
            /\ lastId' = IF env.id <= lastId THEN lastId ELSE env.id
            /\ active' = ActiveAfter(env)
  /\ wire' = Tail(wire)
  /\ UNCHANGED <<tableVars, streamVars, queue, delivered, replayed, phase, url, fetches,
                 missed, faults>>

Asked == [at |-> "asked", open |-> None]

\* rehydrate(): what was seen is forgotten, then a snapshot is asked for.
ResetArrives ==
  /\ wire # <<>> /\ Head(wire) = Reset
  /\ wire' = Tail(wire)
  /\ dedupe' = <<>>
  /\ lastId' = NoId
  /\ fetches' = Append(fetches, Asked)
  /\ UNCHANGED <<tableVars, streamVars, queue, delivered, replayed, phase, url, active,
                 missed, faults>>

\* GET /incidents: the open incident triggered last comes first.
NewestOpen ==
  LET open == {i \in Incidents : db[i] = "open"}
  IN  IF open = {} THEN None ELSE CHOOSE i \in open : \A j \in open : j <= i

RestAnswers ==
  \E n \in DOMAIN fetches :
    /\ fetches[n] = Asked
    /\ fetches' = [fetches EXCEPT ![n] = [at |-> "answered", open |-> NewestOpen]]
    /\ UNCHANGED <<tableVars, streamVars, connVars, active, dedupe, lastId, missed, faults>>

RestFails ==
  /\ faults < MaxFaults
  /\ faults' = faults + 1
  /\ \E n \in DOMAIN fetches :
       /\ fetches[n] = Asked
       /\ fetches' = [fetches EXCEPT ![n] = [at |-> "failed", open |-> None]]
  /\ UNCHANGED <<tableVars, streamVars, connVars, active, dedupe, lastId, missed>>

\* An answer lands: hydrate() connects after it, whatever it was; rehydrate() only
\* shows it.  No answer is compared with what arrived since it was asked for.
SnapshotLands ==
  \E n \in DOMAIN fetches :
    LET answer == fetches[n] IN
      /\ answer.at # "asked"
      /\ fetches' = RemoveAt(fetches, n)
      /\ IF answer.at = "failed"
         THEN missed' = TRUE /\ UNCHANGED active
         ELSE /\ active' = answer.open
              /\ missed' = (missed \/ (answer.open # None /\ db[answer.open] # "open"))
      /\ phase' = IF phase = "hydrating" THEN "connecting" ELSE phase
      /\ url' = IF phase = "hydrating" THEN lastId ELSE url
      /\ UNCHANGED <<tableVars, streamVars, queue, delivered, replayed, wire, dedupe, lastId,
                     faults>>

Disconnected ==
  /\ phase' = IF phase = "hydrating" THEN phase ELSE "backoff"
  /\ queue' = <<>> /\ wire' = <<>> /\ replayed' = {}
  /\ delivered' = NoId /\ url' = NoId

ConnectionLost ==
  /\ phase \in {"connecting", "live"}
  /\ faults < MaxFaults
  /\ faults' = faults + 1
  /\ Disconnected
  /\ UNCHANGED <<tableVars, streamVars, viewVars, missed>>

\* The backoff timer fires.
Reconnect ==
  /\ phase = "backoff"
  /\ phase' = "connecting"
  /\ url' = lastId
  /\ UNCHANGED <<tableVars, streamVars, queue, delivered, replayed, wire, viewVars, missed,
                 faults>>

\* The backend restarts, which takes time, with an empty ring; what was committed and not published
\* is never published.
BackendRestarts ==
  /\ faults < MaxFaults /\ clock < MaxMs
  /\ faults' = faults + 1
  /\ clock' = clock + 1
  /\ seq' = 0 /\ ring' = <<>>
  /\ unsent' = [i \in Incidents |-> {}]
  /\ missed' = (missed \/ \E i \in Incidents : unsent[i] # {})
  /\ fetches' = [n \in DOMAIN fetches |->
                   IF fetches[n] = Asked THEN [at |-> "failed", open |-> None] ELSE fetches[n]]
  /\ Disconnected
  /\ UNCHANGED <<db, top, active, dedupe, lastId>>

-------------------------------------------------------------------------------

Init ==
  /\ db = [i \in Incidents |-> "absent"] /\ unsent = [i \in Incidents |-> {}]
  /\ clock = 0 /\ seq = 0 /\ ring = <<>> /\ top = NoId
  /\ queue = <<>> /\ delivered = NoId /\ replayed = {} /\ wire = <<>>
  /\ phase = "hydrating" /\ url = NoId
  /\ active = None /\ dedupe = <<>> /\ lastId = NoId /\ fetches = <<Asked>>
  /\ missed = FALSE /\ faults = 0

Next ==
  \/ IncidentOpens \/ IncidentUpdates \/ IncidentEnds \/ PublisherResumes \/ ClockTicks
  \/ ServerAccepts \/ ServerSends
  \/ RestAnswers \/ SnapshotLands \/ ResetArrives \/ EnvelopeArrives \/ Reconnect
  \/ RestFails \/ ConnectionLost \/ BackendRestarts

Spec == Init /\ [][Next]_vars

-------------------------------------------------------------------------------
(* Properties *)

\* Everything the server has for the browser has arrived.
Quiet ==
  /\ phase = "live" /\ queue = <<>> /\ wire = <<>> /\ fetches = <<>>
  /\ \A i \in Incidents : unsent[i] = {}

\* Over lost connections, replays and resets the end of an incident reaches the
\* browser that shows it: no order of frames leaves an ended incident active
\* unless an envelope was lost or an old snapshot was shown.
EndedIsTakenDown == Quiet /\ ~missed /\ active # None => db[active] = "open"

\* As the realtime contract has it: who reconnects with an id older than the
\* window, while newer events were published, is told so with a reset event.
LateReconnectIsReset ==
  [][phase = "connecting" /\ phase' = "live" /\ url # NoId /\ Expired(url) /\ url < top
       => wire' = <<Reset>>]_connVars

\* As IncidentStream.publish has it, event ids are monotonic: replay, the reset
\* decision and the skipping of replayed envelopes all compare them.
IdsAscend == \A n \in 1 .. Len(ring) - 1 : ring[n].id < ring[n + 1].id

-------------------------------------------------------------------------------
(* The inductive invariant.  While the counter does not start again within *)
(* a millisecond, an envelope is newer than all that came before it, and   *)
(* the end of the incident shown is on its way, in the ring, or in a gap   *)
(* that the next connection will notice.                                   *)

\* The counter starts again only in a millisecond without an event.
WrapsBetweenEvents ==
  [][PublisherResumes /\ seq + 1 = SeqWrap => top < EventId(clock, 0)]_vars

Envelope == [id : Nat \ {NoId}, inc : Incidents, ends : BOOLEAN]
Snapshot == [at : {"asked", "answered", "failed"}, open : Incidents \cup {None}]

TypeOK ==
  /\ db \in [Incidents -> {"absent", "open", "ended"}]
  /\ unsent \in [Incidents -> SUBSET {"open", "end"}]
  /\ clock \in Nat /\ seq \in 0 .. SeqWrap - 1 /\ top \in Nat
  /\ ring \in Seq(Envelope) /\ queue \in Seq(Envelope)
  /\ wire \in Seq(Envelope \cup {Reset})
  /\ delivered \in Nat /\ replayed \subseteq Nat /\ url \in Nat
  /\ phase \in {"hydrating", "connecting", "live", "backoff"}
  /\ active \in Incidents \cup {None}
  /\ dedupe \in Seq(Nat) /\ lastId \in Nat
  /\ fetches \in Seq(Snapshot)
  /\ missed \in BOOLEAN /\ faults \in Nat

\* The ids of a ring and a queue ascend, those on the wire come in twos.
Ascends(s) == \A n, m \in DOMAIN s : n < m => s[n].id < s[m].id
Climbs(s) == \A n, m \in DOMAIN s : n < m => s[n].id < s[m].id \/ s[n] = s[m]

EndIn(s, i, id) == \E e \in Range(s) : e.inc = i /\ e.ends /\ e.id > id
EndComes(i, id) == "end" \in unsent[i] \/ EndIn(wire, i, id) \/ EndIn(queue, i, id)

\* What the browser wants next has left the ring: it will be told, or counts as missed.
Passed(id) == ring = <<>> \/ id < Head(ring).id
Gap(id) == id < top /\ Passed(id)

NumberInv == top <= EventId(clock, seq)

UnsentInv ==
  \A i \in Incidents : "open" \in unsent[i] => db[i] = "open" \/ "end" \in unsent[i]

RingInv ==
  /\ Ascends(ring)
  /\ \A e \in Range(ring) :
       /\ e.id <= top
       /\ ~e.ends /\ db[e.inc] # "open" => "end" \in unsent[e.inc] \/ EndIn(ring, e.inc, e.id)

BrowserInv ==
  /\ lastId <= top
  /\ \A id \in Range(dedupe) : id <= lastId
  /\ phase = "connecting" => url = lastId
  /\ phase # "live" => queue = <<>> /\ wire = <<>>

ConnInv ==
  /\ phase = "live" => lastId <= delivered /\ delivered <= top
  /\ \A id \in replayed : id <= top
  /\ Ascends(queue)
  /\ \A e \in Range(queue) : delivered < e.id /\ e.id <= top /\ \A id \in replayed : id < e.id
  /\ Climbs(wire)
  /\ \A e \in Range(wire) : e.id <= delivered
  /\ \A e \in Range(wire) \cup Range(queue) :
       e # Reset => lastId <= e.id /\ (e \in Range(ring) \/ Passed(e.id))
  /\ Reset \in Range(wire) => Gap(lastId)

\* Nothing on its way opens an ended incident again for good.
PipeInv ==
  ~missed => \A e \in Range(wire) \cup Range(queue) :
    e # Reset /\ ~e.ends /\ db[e.inc] # "open" => EndComes(e.inc, e.id)

ShownInv ==
  ~missed /\ active # None /\ db[active] # "open" =>
    \/ fetches # <<>> \/ Reset \in Range(wire)
    \/ EndComes(active, lastId)
    \/ phase # "live" /\ (Gap(lastId) \/ EndIn(ring, active, lastId))

FeedInv ==
  /\ TypeOK
  /\ NumberInv
  /\ UnsentInv
  /\ RingInv
  /\ BrowserInv
  /\ ConnInv
  /\ PipeInv
  /\ ShownInv

===============================================================================
