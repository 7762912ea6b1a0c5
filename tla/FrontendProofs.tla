----------------------------- MODULE FrontendProofs -----------------------------
(***************************************************************************)
(* Proofs about the two state machines of the browser.                     *)
(*                                                                         *)
(* The scope controller and its router adapter, for any tree of scopes,    *)
(* any catalog revisions and any number of intents, failures and moves     *)
(* through the history: the URL names the scope shown, and the last intent *)
(* wins, unless the user acts while the URL is being written.  ScopeInv is *)
(* inductive; one lemma per action.                                        *)
(*                                                                         *)
(* The signal feed, for any sizes of the batch, the ring, the queue and    *)
(* the display, and any number of records, failures and restarts: the ring *)
(* has no hole, the replay, the live queue and the snapshots leave none    *)
(* out, and a reset loses nothing that has arrived.  FeedInv is inductive. *)
(***************************************************************************)
EXTENDS ScopeController, SignalFeed, SequenceTheorems, FiniteSetTheorems, WellFoundedInduction,
        TLAPS

-------------------------------------------------------------------------------
(* Types *)

Problems == {"none", "bad", "url", "revision", "catalog"}
Entries == [cand : Candidates, rev : Nat, id : Nat]
Writes == [scope : Scopes, rev : Nat, id : Nat, replace : BOOLEAN]
Requests == [entry : Entries, replace : BOOLEAN, on : BOOLEAN]
Adapter == [location : Entries, queue : Seq(Writes), active : Writes, fallback : Writes,
            desired : Writes, committed : Writes, stale : SUBSET Nat, repairs : SUBSET Nat,
            going : Requests]
Intents == [at : {"none", "resolve", "write", "replace", "repair"}, target : Scopes,
            rev : Nat, mode : {"none", "push", "replace"}, id : Nat, fallback : BOOLEAN,
            repair : BOOLEAN, problem : Problems]
Controller == [started : BOOLEAN, phase : {"hydrating", "ready", "resolving"}, scope : Scopes,
               rev : Nat, problem : Problems, offered : Nat, intent : Intents,
               ids : SUBSET Nat, lastId : Nat]
States == [nav : Adapter, ctl : Controller]

TypeOK ==
  /\ entries \in Seq(Entries) /\ pos \in DOMAIN entries
  /\ unseen \in BOOLEAN /\ overtaken \in BOOLEAN /\ refused \in BOOLEAN
  /\ nav \in Adapter /\ ctl \in Controller
  /\ active \in Nat /\ moves \in Nat /\ wanted \in Scopes \cup {Anything}

EntryOf(w) == Entry(w.scope, w.rev, w.id)

Writing(s) == s.ctl.intent.at \in {"write", "replace", "repair"}

\* The write of the scope a has just been asked of the router.
Written(s, a, n) ==
  /\ s.nav.queue = <<>> /\ ~Idle(s.nav) /\ Writing(s)
  /\ s.nav.active.scope = a
  /\ s.ctl.intent.id = s.nav.active.id /\ s.ctl.ids = {s.nav.active.id}
  /\ s.nav.going.on /\ s.nav.going.entry = EntryOf(s.nav.active)
  /\ s.nav.location = n.location /\ s.nav.stale = n.stale /\ s.nav.repairs = n.repairs

LEMMA Constants ==
  /\ NoWrite \in Writes /\ NoRequest \in Requests /\ NoIntent \in Intents
  /\ Hydrating \in Controller
  BY ScopeAssumption DEF NoWrite, NoRequest, NoIntent, Hydrating, Writes, Requests, Intents,
     Controller, Entries, Entry, Candidates, Problems

LEMMA MeaningIsScope ==
  ASSUME NEW c \in Candidates, c # Bad
  PROVE  Meaning(c) \in Scopes
  BY ScopeAssumption DEF Candidates, Meaning

LEMMA StateFields ==
  ASSUME NEW s \in States
  PROVE  /\ s.nav \in Adapter /\ s.ctl \in Controller
         /\ s.ctl.intent \in Intents /\ s.ctl.intent.id \in Nat /\ s.ctl.intent.target \in Scopes
         /\ s.ctl.intent.problem \in Problems
         /\ s.ctl.scope \in Scopes /\ s.ctl.rev \in Nat /\ s.ctl.lastId \in Nat
         /\ s.ctl.ids \in SUBSET Nat
  BY DEF States, Controller, Intents

LEMMA DroppedIs ==
  ASSUME NEW s \in States
  PROVE  /\ Dropped(s) \in States
         /\ Dropped(s).nav = s.nav
         /\ Dropped(s).ctl.intent = NoIntent
         /\ Dropped(s).ctl.ids = s.ctl.ids \ {s.ctl.intent.id}
         /\ Dropped(s).ctl.phase = s.ctl.phase
         /\ Dropped(s).ctl.scope = s.ctl.scope /\ Dropped(s).ctl.rev = s.ctl.rev
         /\ Dropped(s).ctl.started = s.ctl.started
         /\ Dropped(s).ctl.lastId = s.ctl.lastId
  <1> DEFINE c == [s.ctl EXCEPT !.intent = NoIntent, !.ids = s.ctl.ids \ {s.ctl.intent.id}]
  <1>1. Dropped(s) = [s EXCEPT !.ctl = c]
    BY DEF Dropped, States
  <1>2. /\ c \in Controller /\ c.intent = NoIntent
        /\ c.ids = s.ctl.ids \ {s.ctl.intent.id} /\ c.phase = s.ctl.phase
        /\ c.scope = s.ctl.scope /\ c.rev = s.ctl.rev /\ c.started = s.ctl.started
        /\ c.lastId = s.ctl.lastId
    BY Constants, StateFields DEF Controller
  <1> HIDE DEF c
  <1> QED BY <1>1, <1>2 DEF States

LEMMA RunIs ==
  ASSUME NEW s \in States, NEW i \in Intents
  PROVE  /\ Run(s, i) \in States
         /\ Run(s, i).nav = s.nav
         /\ Run(s, i).ctl.intent = [i EXCEPT !.at = "resolve"]
         /\ Run(s, i).ctl.ids = s.ctl.ids \ {s.ctl.intent.id}
         /\ Run(s, i).ctl.phase = IF s.ctl.phase = "hydrating" THEN "hydrating" ELSE "resolving"
         /\ Run(s, i).ctl.scope = s.ctl.scope /\ Run(s, i).ctl.started = s.ctl.started
  <1> DEFINE d == Dropped(s)
             j == [i EXCEPT !.at = "resolve"]
             p == IF s.ctl.phase = "hydrating" THEN "hydrating" ELSE "resolving"
             c == [d.ctl EXCEPT !.intent = j, !.problem = "none", !.phase = p]
  <1>1. j \in Intents /\ p \in {"hydrating", "ready", "resolving"}
    BY DEF Intents
  <1>2. /\ d \in States /\ d.nav = s.nav
        /\ d.ctl.ids = s.ctl.ids \ {s.ctl.intent.id} /\ d.ctl.phase = s.ctl.phase
        /\ d.ctl.scope = s.ctl.scope /\ d.ctl.started = s.ctl.started
    BY DroppedIs
  <1>3. Run(s, i) = [d EXCEPT !.ctl = c]
    <2> HIDE DEF d, j
    <2> QED BY <1>2 DEF Run, States, Controller, d, j
  <1> HIDE DEF d, j, p
  <1>4. /\ c \in Controller /\ c.intent = j /\ c.ids = d.ctl.ids /\ c.phase = p
        /\ c.scope = d.ctl.scope /\ c.started = d.ctl.started
    BY <1>1, <1>2 DEF States, Controller, Problems
  <1> HIDE DEF c
  <1>5. /\ Run(s, i) \in States /\ Run(s, i).nav = d.nav /\ Run(s, i).ctl = c
    BY <1>2, <1>3, <1>4 DEF States
  <1> QED BY <1>2, <1>4, <1>5 DEF j, p

\* The adapter: what it makes of a queue, of a new write and of a failed one.
LEMMA RollbackTyped ==
  ASSUME NEW n \in Adapter, NEW w \in Writes
  PROVE  Rollback(n, w) \in Writes
  <1>a. n.location.cand \in Candidates /\ w.rev \in Nat /\ w.id \in Nat
    BY DEF Adapter, Entries, Writes
  <1>b. MaxIds \in Nat
    BY ScopeAssumption
  <1>1. n.location.cand \in Candidates /\ w.rev \in Nat /\ w.id \in Nat /\ MaxIds + w.id \in Nat
    BY <1>a, <1>b
  <1>2. CASE n.location.cand = Bad
    BY <1>2, Constants DEF Rollback
  <1>3. CASE n.location.cand # Bad
    BY <1>1, <1>3, MeaningIsScope DEF Rollback, Writes
  <1> QED BY <1>2, <1>3

LEMMA RequestTyped ==
  ASSUME NEW w \in Writes, NEW r \in BOOLEAN
  PROVE  /\ Request(w, r) \in Requests /\ Request(w, r).on
         /\ Request(w, r).entry = Entry(w.scope, w.rev, w.id)
  BY DEF Request, Requests, Writes, Entries, Entry, Candidates

LEMMA ProcessTyped ==
  ASSUME NEW n \in Adapter
  PROVE  Process(n) \in Adapter
  <1>1. CASE ~Idle(n) \/ n.queue = <<>>
    BY <1>1 DEF Process
  <1>2. CASE Idle(n) /\ n.queue # <<>>
    <2> DEFINE w == Head(n.queue)
               f == IF n.committed # NoWrite THEN n.committed ELSE Rollback(n, w)
               g == Request(w, w.replace)
    <2>1. n.queue \in Seq(Writes)
      BY DEF Adapter
    <2>2. w \in Writes /\ Tail(n.queue) \in Seq(Writes)
      BY <1>2, <2>1
    <2>3. f \in Writes /\ g \in Requests
      BY <2>2, RollbackTyped, RequestTyped DEF Adapter, Writes
    <2>4. Process(n) = [n EXCEPT !.queue = Tail(n.queue), !.active = w, !.fallback = f, !.going = g]
      BY <1>2 DEF Process, Adapter
    <2> HIDE DEF w, f, g
    <2> QED BY <2>2, <2>3, <2>4 DEF Adapter
  <1> QED BY <1>1, <1>2

LEMMA WriteScopeTyped ==
  ASSUME NEW n \in Adapter, NEW w \in Writes
  PROVE  WriteScope(n, w) \in Adapter
  <1> DEFINE q == Append(n.queue, w)
             m == [n EXCEPT !.desired = w, !.queue = q]
  <1>1. n.queue \in Seq(Writes)
    BY DEF Adapter
  <1>a. q \in Seq(Writes)
    BY <1>1
  <1>3. WriteScope(n, w) = Process(m)
    BY DEF WriteScope, Adapter
  <1> HIDE DEF q
  <1>2. m \in Adapter
    BY <1>a DEF Adapter
  <1> QED BY <1>2, <1>3, ProcessTyped

LEMMA WriteScopeIs ==
  ASSUME NEW n \in Adapter, NEW w \in Writes, Idle(n), n.queue = <<>>
  PROVE  /\ WriteScope(n, w) \in Adapter
         /\ WriteScope(n, w).active = w /\ WriteScope(n, w).queue = <<>>
         /\ WriteScope(n, w).going = Request(w, w.replace)
         /\ WriteScope(n, w).location = n.location
         /\ WriteScope(n, w).stale = n.stale /\ WriteScope(n, w).repairs = n.repairs
  <1> DEFINE q == Append(n.queue, w)
             m == [n EXCEPT !.desired = w, !.queue = q]
             f == IF m.committed # NoWrite THEN m.committed ELSE Rollback(m, w)
  <1>2. WriteScope(n, w) = Process(m)
    BY DEF WriteScope, Adapter
  <1>a. q = <<w>> /\ q \in Seq(Writes)
    OBVIOUS
  <1> HIDE DEF q
  <1>1. /\ m \in Adapter /\ Idle(m) /\ m.queue = <<w>> /\ m.location = n.location
        /\ m.stale = n.stale /\ m.repairs = n.repairs
    BY <1>a DEF Adapter, Idle
  <1>b. Head(<<w>>) = w /\ Tail(<<w>>) = <<>> /\ <<w>> # <<>>
    OBVIOUS
  <1>3. Head(m.queue) = w /\ Tail(m.queue) = <<>> /\ m.queue # <<>>
    BY <1>a, <1>b, <1>1
  <1> HIDE DEF m
  <1>4. Process(m) = [m EXCEPT !.queue = <<>>, !.active = w, !.fallback = f,
                               !.going = Request(w, w.replace)]
    BY <1>1, <1>3 DEF Process, Adapter
  <1>5. f \in Writes /\ Request(w, w.replace) \in Requests
    BY <1>1, RollbackTyped, RequestTyped DEF Adapter, Writes
  <1> DEFINE g == Request(w, w.replace)
             e == <<>>
  <1>6. e \in Seq(Writes)
    OBVIOUS
  <1> HIDE DEF f, g, e
  <1>7. Process(m) = [m EXCEPT !.queue = e, !.active = w, !.fallback = f, !.going = g]
    BY <1>4 DEF g, e
  <1>8. /\ Process(m) \in Adapter /\ Process(m).active = w /\ Process(m).queue = e
        /\ Process(m).going = g /\ Process(m).location = m.location
        /\ Process(m).stale = m.stale /\ Process(m).repairs = m.repairs
    BY <1>1, <1>5, <1>6, <1>7 DEF Adapter, g
  <1> QED BY <1>1, <1>2, <1>8 DEF g, e

\* What a write of the controller does whatever the adapter is at.
WriteGives(s, t, at, scope, rev, replace) ==
  /\ t \in States
  /\ t.nav = WriteScope(s.nav, [scope |-> scope, rev |-> rev, id |-> s.ctl.lastId + 1,
                                replace |-> replace])
  /\ t.ctl.ids = s.ctl.ids \cup {s.ctl.lastId + 1}
  /\ t.ctl.intent = [s.ctl.intent EXCEPT !.at = at, !.id = s.ctl.lastId + 1]
  /\ t.ctl.phase = s.ctl.phase /\ t.ctl.scope = s.ctl.scope /\ t.ctl.started = s.ctl.started

Reasons == {"write", "replace", "repair"}

LEMMA WriteTyped ==
  ASSUME NEW s \in States, NEW at \in Reasons, NEW scope \in Scopes,
         NEW rev \in Nat, NEW replace \in BOOLEAN
  PROVE  WriteGives(s, Write(s, at, scope, rev, replace), at, scope, rev, replace)
  <1> DEFINE id == s.ctl.lastId + 1
             w == [scope |-> scope, rev |-> rev, id |-> id, replace |-> replace]
             i == [s.ctl.intent EXCEPT !.at = at, !.id = id]
             c == [s.ctl EXCEPT !.lastId = id, !.ids = s.ctl.ids \cup {id}, !.intent = i]
             n == WriteScope(s.nav, w)
  <1>1. id \in Nat /\ w \in Writes
    BY StateFields DEF Writes
  <1>2. i \in Intents
    BY <1>1, StateFields DEF Intents, Reasons
  <1>3. n \in Adapter
    BY <1>1, StateFields, WriteScopeTyped
  <1> DEFINE t == Write(s, at, scope, rev, replace)
  <1>4. /\ t = [nav |-> t.nav, ctl |-> t.ctl] /\ t.nav = n /\ t.ctl = c
    <2>1. t = [s EXCEPT !.ctl.lastId = id, !.ctl.ids = @ \cup {id}, !.ctl.intent.at = at,
                        !.ctl.intent.id = id, !.nav = WriteScope(@, w)]
      BY DEF Write
    <2> HIDE DEF t, w, id
    <2>2. s = [nav |-> s.nav, ctl |-> s.ctl]
      BY DEF States
    <2>3. t = [nav |-> t.nav, ctl |-> t.ctl] /\ t.nav = n
      BY <2>1, <2>2
    <2>4. t.ctl = c
      BY <2>1 DEF States, Controller, Intents
    <2> QED BY <2>3, <2>4
  <1> HIDE DEF t, w, n, i
  <1>5. /\ c \in Controller /\ c.ids = s.ctl.ids \cup {id} /\ c.intent = i
        /\ c.phase = s.ctl.phase /\ c.scope = s.ctl.scope /\ c.started = s.ctl.started
    BY <1>1, <1>2, StateFields DEF Controller
  <1> HIDE DEF c
  <1>6. t \in States
    BY <1>3, <1>4, <1>5 DEF States
  <1> QED BY <1>4, <1>5, <1>6 DEF t, n, w, i, WriteGives

\* The write t of the scope a that the state s has come to.
Wrote(s, t, at, a) ==
  /\ t \in States /\ Written(t, a, s.nav)
  /\ t.ctl.intent.at = at /\ t.ctl.intent.target = s.ctl.intent.target
  /\ t.ctl.intent.mode = s.ctl.intent.mode
  /\ t.ctl.intent.repair = s.ctl.intent.repair /\ t.ctl.intent.fallback = s.ctl.intent.fallback
  /\ t.ctl.phase = s.ctl.phase /\ t.ctl.scope = s.ctl.scope /\ t.ctl.started = s.ctl.started

LEMMA WriteIs ==
  ASSUME NEW s \in States, NEW at \in Reasons, NEW scope \in Scopes,
         NEW rev \in Nat, NEW replace \in BOOLEAN,
         Idle(s.nav), s.nav.queue = <<>>, s.ctl.ids = {}
  PROVE  Wrote(s, Write(s, at, scope, rev, replace), at, scope)
  <1> DEFINE t == Write(s, at, scope, rev, replace)
             id == s.ctl.lastId + 1
             w == [scope |-> scope, rev |-> rev, id |-> id, replace |-> replace]
  <1>1. s.nav \in Adapter /\ w \in Writes /\ id \in Nat /\ id # 0
    BY StateFields DEF Writes
  <1>2. /\ t \in States /\ t.nav = WriteScope(s.nav, w) /\ t.ctl.ids = s.ctl.ids \cup {id}
        /\ t.ctl.intent = [s.ctl.intent EXCEPT !.at = at, !.id = id]
        /\ t.ctl.phase = s.ctl.phase /\ t.ctl.scope = s.ctl.scope
        /\ t.ctl.started = s.ctl.started
    <2>1. WriteGives(s, Write(s, at, scope, rev, replace), at, scope, rev, replace)
      BY WriteTyped
    <2> QED BY <2>1 DEF WriteGives
  <1>3. w.scope = scope /\ w.id = id /\ w # NoWrite
    BY <1>1 DEF NoWrite
  <1> HIDE DEF t, w, id
  <1>4. /\ t.nav.active = w /\ t.nav.queue = <<>>
        /\ t.nav.going = Request(w, w.replace) /\ t.nav.location = s.nav.location
        /\ t.nav.stale = s.nav.stale /\ t.nav.repairs = s.nav.repairs
    BY <1>1, <1>2, WriteScopeIs
  <1>5. t.nav.going.on /\ t.nav.going.entry = EntryOf(t.nav.active)
    BY <1>1, <1>4, RequestTyped DEF EntryOf, Writes
  <1>6. /\ t.ctl.intent.at = at /\ t.ctl.intent.target = s.ctl.intent.target
        /\ t.ctl.intent.mode = s.ctl.intent.mode
        /\ t.ctl.intent.repair = s.ctl.intent.repair
        /\ t.ctl.intent.fallback = s.ctl.intent.fallback /\ t.ctl.intent.id = id
    BY <1>2, StateFields DEF Intents
  <1>7. ~Idle(t.nav)
    BY <1>3, <1>4 DEF Idle
  <1> HIDE DEF Idle
  <1> QED BY <1>2, <1>3, <1>4, <1>5, <1>6, <1>7 DEF t, Wrote, Written, Writing, Reasons

\* The phase after a foreground intent has ended.
Rested(p) == IF p = "resolving" THEN "ready" ELSE p

LEMMA SettledIs ==
  ASSUME NEW s \in States
  PROVE  /\ Settled(s) \in States /\ Settled(s).nav = s.nav
         /\ Settled(s).ctl.intent = s.ctl.intent /\ Settled(s).ctl.ids = s.ctl.ids
         /\ Settled(s).ctl.phase = Rested(s.ctl.phase)
         /\ Settled(s).ctl.scope = s.ctl.scope /\ Settled(s).ctl.started = s.ctl.started
  BY StateFields DEF Settled, Rested, States, Controller

LEMMA UnchangedIs ==
  ASSUME NEW s \in States
  PROVE  LET t == Unchanged(s) IN
         /\ t \in States /\ t.nav = s.nav
         /\ t.ctl.intent = IF s.ctl.intent.at = "none" THEN s.ctl.intent ELSE NoIntent
         /\ t.ctl.ids = IF s.ctl.intent.at = "none" THEN s.ctl.ids
                        ELSE s.ctl.ids \ {s.ctl.intent.id}
         /\ t.ctl.phase = "hydrating" <=> s.ctl.phase = "hydrating"
         /\ t.ctl.scope = s.ctl.scope /\ t.ctl.started = s.ctl.started
  <1>1. CASE s.ctl.intent.at = "none"
    BY <1>1 DEF Unchanged
  <1>2. CASE s.ctl.intent.at # "none"
    <2>1. Unchanged(s) = Settled(Dropped(s))
      BY <1>2 DEF Unchanged
    <2> QED BY <1>2, <2>1, DroppedIs, SettledIs DEF Rested
  <1> QED BY <1>1, <1>2

LEMMA PublishFailureIs ==
  ASSUME NEW s \in States, NEW p \in Problems
  PROVE  LET t == PublishFailure(s, p) IN
         /\ t \in States /\ t.nav = s.nav /\ t.ctl.intent = NoIntent
         /\ t.ctl.ids = s.ctl.ids \ {s.ctl.intent.id}
         /\ t.ctl.phase = "hydrating" <=> s.ctl.phase = "hydrating"
         /\ t.ctl.scope = s.ctl.scope /\ t.ctl.started = s.ctl.started
  <1> DEFINE d == Dropped(s)
             e == [d EXCEPT !.ctl.problem = p]
  <1>1. /\ d \in States /\ d.nav = s.nav /\ d.ctl.intent = NoIntent
        /\ d.ctl.ids = s.ctl.ids \ {s.ctl.intent.id} /\ d.ctl.phase = s.ctl.phase
        /\ d.ctl.scope = s.ctl.scope /\ d.ctl.started = s.ctl.started
    BY DroppedIs
  <1>2. PublishFailure(s, p) = Settled(e)
    BY DEF PublishFailure
  <1> HIDE DEF d
  <1>3. /\ e \in States /\ e.nav = d.nav /\ e.ctl.intent = d.ctl.intent
        /\ e.ctl.ids = d.ctl.ids /\ e.ctl.phase = d.ctl.phase /\ e.ctl.scope = d.ctl.scope
        /\ e.ctl.started = d.ctl.started
    BY <1>1 DEF States, Controller
  <1> HIDE DEF e
  <1> QED BY <1>1, <1>2, <1>3, SettledIs DEF Rested

LEMMA CommitIs ==
  ASSUME NEW s \in States, NEW scope \in Scopes, NEW rev \in Nat
  PROVE  LET t == Commit(s, scope, rev) IN
         /\ t \in States /\ t.nav = s.nav /\ t.ctl.intent = NoIntent
         /\ t.ctl.ids = s.ctl.ids \ {s.ctl.intent.id} /\ t.ctl.phase = "ready"
         /\ t.ctl.scope = scope /\ t.ctl.started = s.ctl.started
  <1> DEFINE d == Dropped(s)
             p == s.ctl.intent.problem
             c == [d.ctl EXCEPT !.phase = "ready", !.scope = scope, !.rev = rev, !.problem = p]
  <1>1. /\ d \in States /\ d.nav = s.nav /\ d.ctl.intent = NoIntent
        /\ d.ctl.ids = s.ctl.ids \ {s.ctl.intent.id}
        /\ d.ctl.scope = s.ctl.scope /\ d.ctl.started = s.ctl.started
        /\ p \in Problems
    BY DroppedIs, StateFields
  <1>2. Commit(s, scope, rev) = [d EXCEPT !.ctl.phase = "ready", !.ctl.scope = scope,
                                          !.ctl.rev = rev, !.ctl.problem = p]
    BY DEF Commit
  <1> DEFINE t == Commit(s, scope, rev)
  <1> HIDE DEF d, p, t
  <1>3. t = [nav |-> t.nav, ctl |-> t.ctl] /\ t.nav = d.nav
    BY <1>1, <1>2 DEF States, t
  <1>4. t.ctl = c
    BY <1>1, <1>2 DEF States, Controller, t
  <1>5. /\ c \in Controller /\ c.intent = d.ctl.intent /\ c.ids = d.ctl.ids /\ c.phase = "ready"
        /\ c.scope = scope /\ c.started = d.ctl.started
    BY <1>1 DEF States, Controller
  <1> HIDE DEF c
  <1>6. t \in States
    BY <1>1, <1>3, <1>4, <1>5 DEF States
  <1> QED BY <1>1, <1>3, <1>4, <1>5, <1>6 DEF t

LEMMA CompletedIs ==
  ASSUME NEW n \in Adapter
  PROVE  /\ Completed(n) \in Adapter /\ Idle(Completed(n))
         /\ Completed(n).queue = n.queue /\ Completed(n).going = n.going
         /\ Completed(n).location = n.location
         /\ Completed(n).stale = n.stale /\ Completed(n).repairs = n.repairs
  BY Constants DEF Completed, Adapter, Idle

\* What processQueue leaves alone when nothing is queued.
LEMMA ProcessNothing ==
  ASSUME NEW n \in Adapter, n.queue = <<>>
  PROVE  Process(n) = n
  BY DEF Process

LEMMA FailedActiveIs ==
  ASSUME NEW n \in Adapter, NEW late \in BOOLEAN
  PROVE  /\ FailedActive(n, late) \in Adapter
         /\ n.queue = <<>> =>
              /\ Idle(FailedActive(n, late)) /\ FailedActive(n, late).queue = <<>>
              /\ FailedActive(n, late).going = n.going
              /\ FailedActive(n, late).location = n.location
  <1> DEFINE st == IF late THEN n.stale \cup {n.active.id} ELSE n.stale
             d == IF n.desired.id = n.active.id THEN n.fallback ELSE n.desired
             m == [n EXCEPT !.active = NoWrite, !.stale = st, !.desired = d]
  <1>1. st \in SUBSET Nat /\ d \in Writes
    BY DEF Adapter, Writes
  <1>2. FailedActive(n, late) = Process(m)
    BY DEF FailedActive, Adapter
  <1> HIDE DEF st, d
  <1>3. /\ m \in Adapter /\ Idle(m) /\ m.queue = n.queue /\ m.going = n.going
        /\ m.location = n.location
    BY <1>1, Constants DEF Adapter, Idle
  <1> HIDE DEF m
  <1> QED BY <1>2, <1>3, ProcessTyped, ProcessNothing

LEMMA RepairedIs ==
  ASSUME NEW n \in Adapter
  PROVE  /\ Repaired(n) \in Adapter
         /\ Repaired(n).queue = n.queue /\ Repaired(n).active = n.active
         /\ Repaired(n).location = n.location
  <1> DEFINE wanted0 == IF ~Idle(n) THEN n.active
                        ELSE IF n.desired # NoWrite THEN n.desired ELSE n.committed
             r == IF Idle(n) THEN n.repairs \cup {wanted0.id} ELSE n.repairs
             g == Request(wanted0, TRUE)
  <1>1. wanted0 \in Writes
    BY DEF Adapter
  <1>2. r \in SUBSET Nat /\ g \in Requests
    BY <1>1, RequestTyped DEF Adapter, Writes
  <1>3. CASE wanted0 = NoWrite
    BY <1>3 DEF Repaired
  <1>4. CASE wanted0 # NoWrite
    <2>1. Repaired(n) = [n EXCEPT !.repairs = r, !.going = g]
      BY <1>4 DEF Repaired, Adapter
    <2> HIDE DEF r, g
    <2> QED BY <1>2, <2>1 DEF Adapter
  <1> QED BY <1>3, <1>4

LEMMA ReplaceLocationTyped ==
  ASSUME NEW s \in States, NEW p \in Problems
  PROVE  /\ ReplaceLocation(s, p) \in States
         /\ ReplaceLocation(s, p).ctl.phase = s.ctl.phase
         /\ ReplaceLocation(s, p).ctl.scope = s.ctl.scope
         /\ ReplaceLocation(s, p).ctl.started = s.ctl.started
         /\ Idle(s.nav) /\ s.nav.queue = <<>> /\ s.ctl.ids \subseteq {s.ctl.intent.id} =>
              Written(ReplaceLocation(s, p), s.ctl.scope, s.nav)
              /\ ReplaceLocation(s, p).ctl.intent.at = "replace"
              /\ ~ReplaceLocation(s, p).ctl.intent.repair
              /\ ~ReplaceLocation(s, p).ctl.intent.fallback
              /\ ReplaceLocation(s, p).ctl.intent.mode = "none"
  <1> DEFINE d == Dropped(s)
             i == [NoIntent EXCEPT !.problem = p]
             b == [d EXCEPT !.ctl.intent = i]
             t == Write(b, "replace", s.ctl.scope, s.ctl.rev, TRUE)
  <1>1. /\ d \in States /\ d.nav = s.nav /\ d.ctl.phase = s.ctl.phase
        /\ d.ctl.ids = s.ctl.ids \ {s.ctl.intent.id}
        /\ d.ctl.scope = s.ctl.scope /\ d.ctl.started = s.ctl.started
    BY DroppedIs
  <1>2. i \in Intents /\ ~i.repair /\ ~i.fallback /\ i.mode = "none"
    BY Constants DEF Intents, NoIntent
  <1>3. ReplaceLocation(s, p) = t
    BY DEF ReplaceLocation
  <1> HIDE DEF d, i
  <1>4. /\ b \in States /\ b.nav = d.nav /\ b.ctl.phase = d.ctl.phase /\ b.ctl.intent = i
        /\ b.ctl.ids = d.ctl.ids /\ b.ctl.scope = d.ctl.scope /\ b.ctl.started = d.ctl.started
    BY <1>1, <1>2 DEF States, Controller
  <1> HIDE DEF b
  <1>5. /\ "replace" \in Reasons /\ s.ctl.scope \in Scopes /\ s.ctl.rev \in Nat
    BY StateFields DEF Reasons
  <1>6. WriteGives(b, t, "replace", s.ctl.scope, s.ctl.rev, TRUE)
    BY <1>4, <1>5, WriteTyped
  <1>7. ASSUME Idle(s.nav), s.nav.queue = <<>>, s.ctl.ids \subseteq {s.ctl.intent.id}
        PROVE  Written(t, s.ctl.scope, s.nav) /\ t.ctl.intent.at = "replace" /\ ~t.ctl.intent.repair
               /\ ~t.ctl.intent.fallback /\ t.ctl.intent.mode = "none"
    <2>1. Idle(b.nav) /\ b.nav.queue = <<>> /\ b.ctl.ids = {}
      BY <1>1, <1>4, <1>7
    <2>2. Wrote(b, t, "replace", s.ctl.scope)
      BY <1>4, <1>5, <2>1, WriteIs
    <2> HIDE DEF t
    <2> QED BY <1>1, <1>2, <1>4, <2>2 DEF Wrote, Written
  <1> HIDE DEF t
  <1> QED BY <1>1, <1>3, <1>4, <1>6, <1>7 DEF WriteGives

LEMMA ForegroundTyped ==
  ASSUME NEW target \in Scopes, NEW rev \in Nat, NEW mode \in {"none", "push", "replace"}
  PROVE  /\ Foreground(target, rev, mode) \in Intents
         /\ Foreground(target, rev, mode).target = target
         /\ Foreground(target, rev, mode).mode = mode
         /\ ~Foreground(target, rev, mode).repair /\ ~Foreground(target, rev, mode).fallback
  BY Constants DEF Foreground, Intents, NoIntent

-------------------------------------------------------------------------------
(* The states in which nobody has acted too early *)

\* Nothing is being written.
Free(s) ==
  /\ Idle(s.nav) /\ s.nav.queue = <<>> /\ s.ctl.ids \subseteq {s.ctl.intent.id}
  /\ ~Writing(s) => s.ctl.ids = {}
  /\ s.ctl.started

\* What an intent is for.
Purpose(s) ==
  /\ s.ctl.intent.at = "write" => s.nav.active.scope = s.ctl.intent.target
  /\ s.ctl.intent.at \in {"replace", "repair"} =>
       s.nav.active.scope = s.ctl.scope /\ s.ctl.phase # "hydrating"
  /\ ~(s.ctl.intent.repair /\ s.ctl.intent.fallback)
  /\ s.ctl.intent.at = "none" => ~s.ctl.intent.repair
  /\ ~s.ctl.started => s.ctl.intent.at = "none" /\ s.ctl.phase = "hydrating"

\* The location here names the scope, or will when its hydration commits.
Shows(s, here) ==
  /\ s.ctl.phase # "hydrating" =>
       \/ here.cand \in {s.ctl.scope, Bad}
       \/ s.ctl.intent.at = "resolve" /\ s.ctl.intent.repair
  /\ s.ctl.intent.at = "resolve" /\ s.ctl.intent.mode = "none" =>
       here.cand \in {s.ctl.intent.target, Bad}

\* The state t after a method that was called when nothing was being written.
Follows(s, t) ==
  /\ t \in States /\ Purpose(t) /\ t.ctl.scope = s.ctl.scope /\ t.ctl.started = s.ctl.started
  /\ \/ Free(t) /\ ~Writing(t) /\ t.nav = s.nav
     \/ Written(t, t.nav.active.scope, s.nav)

LEMMA RunFollows ==
  ASSUME NEW s \in States, Free(s), NEW i \in Intents, ~(i.repair /\ i.fallback)
  PROVE  /\ Follows(s, Run(s, i)) /\ Free(Run(s, i))
         /\ Run(s, i).nav = s.nav
         /\ Run(s, i).ctl.intent = [i EXCEPT !.at = "resolve"]
         /\ Run(s, i).ctl.phase = "hydrating" <=> s.ctl.phase = "hydrating"
  <1> DEFINE t == Run(s, i)
             j == [i EXCEPT !.at = "resolve"]
  <1>1. /\ t \in States /\ t.nav = s.nav /\ t.ctl.intent = j
        /\ t.ctl.ids = s.ctl.ids \ {s.ctl.intent.id}
        /\ t.ctl.phase = "hydrating" <=> s.ctl.phase = "hydrating"
        /\ t.ctl.scope = s.ctl.scope /\ t.ctl.started = s.ctl.started
    BY RunIs
  <1>2. j.at = "resolve" /\ j.repair = i.repair /\ j.fallback = i.fallback
    BY DEF Intents
  <1> HIDE DEF t, j
  <1>3. Free(t) /\ ~Writing(t) /\ Purpose(t)
    BY <1>1, <1>2 DEF Free, Writing, Purpose
  <1> QED BY <1>1, <1>3 DEF Follows, t, j

LEMMA UnchangedFollows ==
  ASSUME NEW s \in States, Free(s), ~Writing(s) \/ s.ctl.intent.at # "none", Purpose(s)
  PROVE  /\ Follows(s, Unchanged(s)) /\ Free(Unchanged(s)) /\ Unchanged(s).nav = s.nav
         /\ Unchanged(s).ctl.intent.at = "none"
         /\ Unchanged(s).ctl.phase = "hydrating" <=> s.ctl.phase = "hydrating"
  <1> DEFINE t == Unchanged(s)
  <1>1. /\ t \in States /\ t.nav = s.nav
        /\ t.ctl.intent = IF s.ctl.intent.at = "none" THEN s.ctl.intent ELSE NoIntent
        /\ t.ctl.ids = IF s.ctl.intent.at = "none" THEN s.ctl.ids
                       ELSE s.ctl.ids \ {s.ctl.intent.id}
        /\ t.ctl.phase = "hydrating" <=> s.ctl.phase = "hydrating"
        /\ t.ctl.scope = s.ctl.scope /\ t.ctl.started = s.ctl.started
    BY UnchangedIs
  <1>2. /\ NoIntent.at = "none" /\ ~NoIntent.repair
    BY DEF NoIntent
  <1> HIDE DEF t
  <1>3. t.ctl.intent.at = "none" /\ ~(t.ctl.intent.repair)
    BY <1>1, <1>2 DEF Purpose
  <1>4. Free(t) /\ ~Writing(t) /\ Purpose(t)
    BY <1>1, <1>3 DEF Free, Writing, Purpose
  <1> QED BY <1>1, <1>3, <1>4 DEF Follows, t

LEMMA ReplaceFollows ==
  ASSUME NEW s \in States, Free(s), NEW p \in Problems, s.ctl.phase # "hydrating"
  PROVE  /\ Follows(s, ReplaceLocation(s, p)) /\ ~Free(ReplaceLocation(s, p))
         /\ ReplaceLocation(s, p).ctl.phase # "hydrating"
  <1> DEFINE t == ReplaceLocation(s, p)
  <1>1. /\ t \in States /\ t.ctl.phase = s.ctl.phase /\ t.ctl.scope = s.ctl.scope
        /\ t.ctl.started = s.ctl.started
        /\ Written(t, s.ctl.scope, s.nav) /\ t.ctl.intent.at = "replace"
        /\ ~t.ctl.intent.repair /\ ~t.ctl.intent.fallback
    BY ReplaceLocationTyped DEF Free
  <1> HIDE DEF t
  <1>2. Purpose(t)
    BY <1>1 DEF Purpose, Written, Free
  <1>3. ~Free(t)
    BY <1>1 DEF Free, Written
  <1> QED BY <1>1, <1>2, <1>3 DEF Follows, Written, t

LEMMA HydrateTyped ==
  ASSUME NEW s \in States, NEW target \in Scopes, NEW rev \in Nat,
         NEW deepLink \in BOOLEAN, NEW misspelt \in BOOLEAN
  PROVE  Hydrate(s, target, rev, deepLink, misspelt) \in States
  <1> DEFINE f == Foreground(target, rev, IF misspelt THEN "replace" ELSE "none")
             i == [f EXCEPT !.fallback = deepLink /\ s.ctl.phase = "hydrating", !.repair = ~deepLink]
  <1>1. f \in Intents
    BY ForegroundTyped
  <1>2. (deepLink /\ s.ctl.phase = "hydrating") \in BOOLEAN /\ (~deepLink) \in BOOLEAN
    OBVIOUS
  <1> HIDE DEF f
  <1>3. i \in Intents
    BY <1>1, <1>2 DEF Intents
  <1>4. "none" \in Problems
    BY DEF Problems
  <1> QED BY <1>3, <1>4, RunIs, UnchangedIs, ReplaceLocationTyped DEF Hydrate, f

LEMMA HydrateFollows ==
  ASSUME NEW s \in States, Free(s), ~Writing(s), Purpose(s), NEW target \in Scopes, NEW rev \in Nat,
         NEW deepLink \in BOOLEAN, NEW misspelt \in BOOLEAN,
         deepLink => s.ctl.phase = "hydrating"
  PROVE  /\ Follows(s, Hydrate(s, target, rev, deepLink, misspelt))
         /\ Hydrate(s, target, rev, deepLink, misspelt).ctl.phase = "hydrating"
              <=> s.ctl.phase = "hydrating"
         /\ \A here : misspelt \/ here.cand = target =>
              (Free(Hydrate(s, target, rev, deepLink, misspelt)) =>
                 Shows(Hydrate(s, target, rev, deepLink, misspelt), here))
  <1> DEFINE f == Foreground(target, rev, IF misspelt THEN "replace" ELSE "none")
             i == [f EXCEPT !.fallback = deepLink /\ s.ctl.phase = "hydrating", !.repair = ~deepLink]
             t == Hydrate(s, target, rev, deepLink, misspelt)
  <1>1. CASE s.ctl.phase # "hydrating" /\ s.ctl.scope = target /\ rev \in {0, s.ctl.rev} /\ misspelt
    <2>1. t = ReplaceLocation(s, "none") /\ "none" \in Problems
      BY <1>1 DEF Hydrate, Problems
    <2> HIDE DEF t
    <2> QED BY <1>1, <2>1, ReplaceFollows DEF t
  <1>2. CASE s.ctl.phase # "hydrating" /\ s.ctl.scope = target /\ rev \in {0, s.ctl.rev} /\ ~misspelt
    <2>1. t = Unchanged(s)
      BY <1>2 DEF Hydrate
    <2> HIDE DEF t
    <2>2. /\ Follows(s, t) /\ t.ctl.intent.at = "none"
          /\ t.ctl.phase = "hydrating" <=> s.ctl.phase = "hydrating"
      BY <2>1, UnchangedFollows
    <2>3. t.ctl.scope = target
      BY <1>2, <2>2 DEF Follows
    <2> QED BY <1>2, <2>2, <2>3 DEF Shows, t
  <1>3. CASE ~(s.ctl.phase # "hydrating" /\ s.ctl.scope = target /\ rev \in {0, s.ctl.rev})
    <2>1. f \in Intents /\ f.target = target /\ f.mode = IF misspelt THEN "replace" ELSE "none"
      BY ForegroundTyped
    <2>2. t = Run(s, i)
      BY <1>3 DEF Hydrate
    <2>3. (deepLink /\ s.ctl.phase = "hydrating") \in BOOLEAN /\ (~deepLink) \in BOOLEAN
      OBVIOUS
    <2> HIDE DEF f, t
    <2>4. /\ i \in Intents /\ i.target = f.target /\ i.mode = f.mode /\ i.repair = ~deepLink
          /\ i.fallback = (deepLink /\ s.ctl.phase = "hydrating")
      BY <2>1, <2>3 DEF Intents
    <2> HIDE DEF i
    <2>5. ~(i.repair /\ i.fallback)
      BY <2>4
    <2>6. /\ Follows(s, t) /\ t.ctl.intent = [i EXCEPT !.at = "resolve"]
          /\ t.ctl.phase = "hydrating" <=> s.ctl.phase = "hydrating"
      BY <2>2, <2>4, <2>5, RunFollows
    <2>7. /\ t.ctl.intent.at = "resolve" /\ t.ctl.intent.target = target
          /\ t.ctl.intent.mode = f.mode /\ t.ctl.intent.repair = ~deepLink
      BY <2>1, <2>4, <2>6 DEF Intents
    <2>8. ASSUME NEW here, misspelt \/ here.cand = target
          PROVE  Shows(t, here)
      BY <2>1, <2>6, <2>7, <2>8 DEF Shows
    <2> QED BY <2>6, <2>8 DEF t
  <1> QED BY <1>1, <1>2, <1>3

LEMMA HydrateCandidateTyped ==
  ASSUME NEW s \in States, NEW e \in Entries, NEW deepLink \in BOOLEAN
  PROVE  HydrateCandidate(s, e, deepLink) \in States
  <1> DEFINE f == Foreground(World, 0, "replace")
             i == [f EXCEPT !.problem = "bad"]
  <1>1. CASE e.cand # Bad
    <2>1. Meaning(e.cand) \in Scopes /\ e.rev \in Nat /\ (e.cand = Spelling) \in BOOLEAN
      BY <1>1, MeaningIsScope DEF Entries
    <2> QED BY <1>1, <2>1, HydrateTyped DEF HydrateCandidate
  <1>2. CASE e.cand = Bad
    <2>1. "bad" \in Problems
      BY DEF Problems
    <2>2. f \in Intents
      BY ForegroundTyped, ScopeAssumption
    <2> HIDE DEF f
    <2>3. i \in Intents
      BY <2>1, <2>2 DEF Intents
    <2> HIDE DEF i
    <2>4. Run(s, i) \in States /\ ReplaceLocation(s, "bad") \in States
      BY <2>1, <2>3, RunIs, ReplaceLocationTyped
    <2>5. [s EXCEPT !.ctl.problem = "bad"] \in States
      BY <2>1 DEF States, Controller
    <2> QED BY <1>2, <2>4, <2>5 DEF HydrateCandidate, i, f
  <1> QED BY <1>1, <1>2

LEMMA HydrateCandidateFollows ==
  ASSUME NEW s \in States, Free(s), ~Writing(s), Purpose(s), NEW e \in Entries,
         NEW deepLink \in BOOLEAN, deepLink => s.ctl.phase = "hydrating"
  PROVE  /\ Follows(s, HydrateCandidate(s, e, deepLink))
         /\ Free(HydrateCandidate(s, e, deepLink)) => Shows(HydrateCandidate(s, e, deepLink), e)
  <1> DEFINE f == Foreground(World, 0, "replace")
             i == [f EXCEPT !.problem = "bad"]
             t == HydrateCandidate(s, e, deepLink)
  <1>1. CASE e.cand # Bad
    <2>1. /\ Meaning(e.cand) \in Scopes /\ e.rev \in Nat /\ (e.cand = Spelling) \in BOOLEAN
          /\ (e.cand = Spelling) \/ e.cand = Meaning(e.cand)
      BY <1>1, MeaningIsScope DEF Entries, Meaning
    <2>2. t = Hydrate(s, Meaning(e.cand), e.rev, deepLink, e.cand = Spelling)
      BY <1>1 DEF HydrateCandidate
    <2> DEFINE m == Meaning(e.cand)
               z == e.cand = Spelling
    <2>3. /\ m \in Scopes /\ e.rev \in Nat /\ z \in BOOLEAN /\ (z \/ e.cand = m)
          /\ t = Hydrate(s, m, e.rev, deepLink, z)
      BY <2>1, <2>2
    <2> HIDE DEF t, m, z
    <2>4. /\ Follows(s, t)
          /\ \A here : z \/ here.cand = m => (Free(t) => Shows(t, here))
      BY <2>3, HydrateFollows
    <2> QED BY <2>3, <2>4 DEF t
  <1>2. CASE e.cand = Bad /\ deepLink /\ s.ctl.phase = "hydrating"
    <2>1. "bad" \in Problems
      BY DEF Problems
    <2>2. f \in Intents /\ f.mode = "replace" /\ ~f.repair /\ ~f.fallback
      BY ForegroundTyped, ScopeAssumption
    <2>3. t = Run(s, i)
      BY <1>2 DEF HydrateCandidate
    <2> HIDE DEF f, t
    <2>4. i \in Intents /\ i.mode = "replace" /\ ~i.repair /\ ~i.fallback
      BY <2>1, <2>2 DEF Intents
    <2> HIDE DEF i
    <2>5. /\ Follows(s, t) /\ t.ctl.intent = [i EXCEPT !.at = "resolve"]
          /\ t.ctl.phase = "hydrating" <=> s.ctl.phase = "hydrating"
      BY <2>3, <2>4, RunFollows
    <2>6. t.ctl.intent.mode = "replace"
      BY <2>4, <2>5 DEF Intents
    <2> QED BY <1>2, <2>5, <2>6 DEF Shows, t
  <1>3. CASE e.cand = Bad /\ ~deepLink /\ s.ctl.phase # "hydrating"
    <2>1. "bad" \in Problems /\ t = ReplaceLocation(s, "bad")
      BY <1>3 DEF Problems, HydrateCandidate
    <2> HIDE DEF t
    <2> QED BY <1>3, <2>1, ReplaceFollows DEF t
  <1>4. CASE e.cand = Bad /\ ~deepLink /\ s.ctl.phase = "hydrating"
    <2>1. t = [s EXCEPT !.ctl.problem = "bad"]
      BY <1>4 DEF HydrateCandidate
    <2> HIDE DEF t
    <2>2. /\ t \in States /\ t.nav = s.nav /\ t.ctl.intent = s.ctl.intent /\ t.ctl.ids = s.ctl.ids
          /\ t.ctl.scope = s.ctl.scope /\ t.ctl.phase = s.ctl.phase
          /\ t.ctl.started = s.ctl.started
      BY <2>1 DEF States, Controller, Problems
    <2>3. Free(t) /\ ~Writing(t) /\ Purpose(t)
      BY <2>2 DEF Free, Writing, Purpose
    <2>4. Shows(t, e)
      BY <1>4, <2>2 DEF Shows
    <2> QED BY <2>2, <2>3, <2>4 DEF Follows, t
  <1> QED BY <1>1, <1>2, <1>3, <1>4

LEMMA OnLocationTyped ==
  ASSUME NEW s \in States, NEW e \in Entries
  PROVE  OnLocation(s, e) \in States
  <1>1. [s EXCEPT !.ctl.ids = s.ctl.ids \ {e.id}] \in States
    BY DEF States, Controller
  <1>2. HydrateCandidate(s, e, FALSE) \in States
    BY HydrateCandidateTyped
  <1> QED BY <1>1, <1>2 DEF OnLocation, States, Controller

LEMMA ConfirmedTyped ==
  ASSUME NEW s \in States, NEW w \in Writes
  PROVE  Confirmed(s, w) \in States
  <1>1. w.scope \in Scopes /\ w.rev \in Nat
    BY DEF Writes
  <1>2. s.ctl.intent.problem \in Problems
    BY StateFields
  <1>3. /\ Commit(s, w.scope, w.rev) \in States /\ Dropped(s) \in States
        /\ PublishFailure(s, s.ctl.intent.problem) \in States
    BY <1>1, <1>2, CommitIs, DroppedIs, PublishFailureIs
  <1> QED BY <1>3 DEF Confirmed

\* The three ends of a failed intent.
FallsBack(s) == s.ctl.intent.at \in {"resolve", "write"} /\ s.ctl.intent.fallback /\ s.ctl.intent.target # World
Repairs(s) == s.ctl.intent.at \in {"resolve", "write"} /\ s.ctl.intent.repair /\ s.ctl.phase # "hydrating"

LEMMA FallsBackIs ==
  ASSUME NEW s \in States, NEW p \in Problems, FallsBack(s)
  PROVE  \E i \in Intents : /\ Failed(s, p) = Run(s, i)
                            /\ ~i.repair /\ ~i.fallback /\ i.mode = "replace"
  <1> DEFINE f == Foreground(World, 0, "replace")
             i == [f EXCEPT !.problem = p]
  <1>1. f \in Intents /\ f.mode = "replace" /\ ~f.repair /\ ~f.fallback
    BY ForegroundTyped, ScopeAssumption
  <1>2. Failed(s, p) = Run(s, i)
    BY DEF Failed, FallsBack
  <1> HIDE DEF f
  <1>3. i \in Intents /\ i.mode = "replace" /\ ~i.repair /\ ~i.fallback
    BY <1>1 DEF Intents
  <1> HIDE DEF i
  <1> QED BY <1>2, <1>3

\* The state from which a failed intent writes the committed scope back.
LEMMA RepairsIs ==
  ASSUME NEW s \in States, NEW p \in Problems, ~FallsBack(s), Repairs(s)
  PROVE  \E b \in States :
           /\ Failed(s, p) = Write(b, "repair", s.ctl.scope, s.ctl.rev, TRUE)
           /\ b.nav = s.nav /\ b.ctl.ids = s.ctl.ids \ {s.ctl.intent.id}
           /\ b.ctl.phase = s.ctl.phase /\ b.ctl.scope = s.ctl.scope
           /\ b.ctl.started = s.ctl.started
           /\ b.ctl.intent.repair = s.ctl.intent.repair
           /\ b.ctl.intent.fallback = s.ctl.intent.fallback
  <1> DEFINE b == [s EXCEPT !.ctl.intent.problem = p, !.ctl.ids = @ \ {s.ctl.intent.id}]
             i == [s.ctl.intent EXCEPT !.problem = p]
             c == [s.ctl EXCEPT !.intent = i, !.ids = s.ctl.ids \ {s.ctl.intent.id}]
  <1>1. Failed(s, p) = Write(b, "repair", s.ctl.scope, s.ctl.rev, TRUE)
    BY DEF Failed, FallsBack, Repairs
  <1>a. s = [nav |-> s.nav, ctl |-> s.ctl]
    BY DEF States
  <1>b. b = [s EXCEPT !.ctl.intent.problem = p, !.ctl.ids = @ \ {s.ctl.intent.id}]
    OBVIOUS
  <1> HIDE DEF b
  <1>2. b = [nav |-> b.nav, ctl |-> b.ctl] /\ b.nav = s.nav
    BY <1>a, <1>b
  <1>3. b.ctl = c
    BY <1>b DEF States, Controller, Intents
  <1>4. i \in Intents /\ i.repair = s.ctl.intent.repair /\ i.fallback = s.ctl.intent.fallback
    BY StateFields DEF Intents
  <1> HIDE DEF b, i
  <1>5. /\ c \in Controller /\ c.ids = s.ctl.ids \ {s.ctl.intent.id} /\ c.phase = s.ctl.phase
        /\ c.scope = s.ctl.scope /\ c.started = s.ctl.started /\ c.intent = i
    BY <1>4, StateFields DEF Controller
  <1> HIDE DEF c
  <1>6. b \in States
    BY <1>2, <1>3, <1>5, StateFields DEF States
  <1> QED BY <1>1, <1>2, <1>3, <1>4, <1>5, <1>6

LEMMA FailedTyped ==
  ASSUME NEW s \in States, NEW p \in Problems
  PROVE  Failed(s, p) \in States
  <1>1. CASE FallsBack(s)
    <2>1. PICK i \in Intents : Failed(s, p) = Run(s, i)
      BY <1>1, FallsBackIs
    <2> QED BY <2>1, RunIs
  <1>2. CASE ~FallsBack(s) /\ Repairs(s)
    <2>1. "repair" \in Reasons /\ s.ctl.scope \in Scopes /\ s.ctl.rev \in Nat
      BY StateFields DEF Reasons
    <2>2. PICK b \in States : Failed(s, p) = Write(b, "repair", s.ctl.scope, s.ctl.rev, TRUE)
      BY <1>2, RepairsIs
    <2>3. WriteGives(b, Failed(s, p), "repair", s.ctl.scope, s.ctl.rev, TRUE)
      BY <2>1, <2>2, WriteTyped
    <2> QED BY <2>3 DEF WriteGives
  <1>3. CASE ~FallsBack(s) /\ ~Repairs(s)
    BY <1>3, PublishFailureIs DEF Failed, FallsBack, Repairs
  <1> QED BY <1>1, <1>2, <1>3

LEMMA FailedFollows ==
  ASSUME NEW s \in States, NEW p \in Problems, Free(s), ~(s.ctl.intent.repair /\ s.ctl.intent.fallback)
  PROVE  /\ Follows(s, Failed(s, p))
         /\ \A here : s.ctl.intent.at = "resolve" /\ Shows(s, here) =>
              (Free(Failed(s, p)) => Shows(Failed(s, p), here))
  <1> DEFINE t == Failed(s, p)
  <1>1. CASE FallsBack(s)
    <2>1. PICK i \in Intents : /\ t = Run(s, i)
                               /\ ~i.repair /\ ~i.fallback /\ i.mode = "replace"
      BY <1>1, FallsBackIs
    <2> HIDE DEF t
    <2>2. /\ Follows(s, t) /\ t.ctl.intent = [i EXCEPT !.at = "resolve"]
          /\ t.ctl.phase = "hydrating" <=> s.ctl.phase = "hydrating"
      BY <2>1, RunFollows
    <2>3. t.ctl.intent.mode = "replace"
      BY <2>1, <2>2 DEF Intents
    <2>4. ~s.ctl.intent.repair
      BY <1>1 DEF FallsBack
    <2>5. ASSUME NEW here, Shows(s, here)
          PROVE  Shows(t, here)
      BY <2>2, <2>3, <2>4, <2>5 DEF Shows, Follows
    <2> QED BY <2>2, <2>5 DEF t
  <1>2. CASE ~FallsBack(s) /\ Repairs(s)
    <2>1. "repair" \in Reasons /\ s.ctl.scope \in Scopes /\ s.ctl.rev \in Nat
      BY StateFields DEF Reasons
    <2>2. PICK b \in States :
            /\ t = Write(b, "repair", s.ctl.scope, s.ctl.rev, TRUE)
            /\ b.nav = s.nav /\ b.ctl.ids = s.ctl.ids \ {s.ctl.intent.id}
            /\ b.ctl.phase = s.ctl.phase /\ b.ctl.scope = s.ctl.scope
            /\ b.ctl.started = s.ctl.started
            /\ b.ctl.intent.repair = s.ctl.intent.repair
            /\ b.ctl.intent.fallback = s.ctl.intent.fallback
      BY <1>2, RepairsIs
    <2> HIDE DEF t
    <2>3. Idle(b.nav) /\ b.nav.queue = <<>> /\ b.ctl.ids = {}
      BY <2>2 DEF Free
    <2>4. Wrote(b, t, "repair", s.ctl.scope)
      BY <2>1, <2>2, <2>3, WriteIs
    <2>a. /\ t \in States /\ Written(t, s.ctl.scope, s.nav) /\ t.ctl.intent.at = "repair"
          /\ t.ctl.scope = b.ctl.scope /\ t.ctl.phase = b.ctl.phase
          /\ t.ctl.started = b.ctl.started
          /\ t.ctl.intent.repair = b.ctl.intent.repair
          /\ t.ctl.intent.fallback = b.ctl.intent.fallback
      <3>1. Written(t, s.ctl.scope, b.nav)
        BY <2>4 DEF Wrote
      <3>2. Written(t, s.ctl.scope, s.nav)
        BY <2>2, <3>1
      <3> QED BY <2>4, <3>2 DEF Wrote
    <2>5. /\ t \in States /\ Written(t, s.ctl.scope, s.nav) /\ t.ctl.intent.at = "repair"
          /\ t.ctl.scope = s.ctl.scope /\ t.ctl.phase # "hydrating"
          /\ t.ctl.started /\ s.ctl.started
          /\ ~(t.ctl.intent.repair /\ t.ctl.intent.fallback)
      BY <1>2, <2>2, <2>a DEF Free, Repairs
    <2>6. Purpose(t) /\ ~Free(t)
      BY <2>5 DEF Purpose, Written, Free
    <2>7. t.ctl.started = s.ctl.started
      BY <2>2, <2>4 DEF Wrote
    <2> QED BY <2>5, <2>6, <2>7 DEF Follows, Written, t
  <1>3. CASE ~FallsBack(s) /\ ~Repairs(s)
    <2>1. t = PublishFailure(s, p)
      BY <1>3 DEF Failed, FallsBack, Repairs
    <2> HIDE DEF t
    <2>2. /\ t \in States /\ t.nav = s.nav /\ t.ctl.intent = NoIntent
          /\ t.ctl.ids = s.ctl.ids \ {s.ctl.intent.id}
          /\ t.ctl.phase = "hydrating" <=> s.ctl.phase = "hydrating"
          /\ t.ctl.scope = s.ctl.scope /\ t.ctl.started = s.ctl.started
      BY <2>1, PublishFailureIs
    <2>3. NoIntent.at = "none" /\ ~NoIntent.repair
      BY DEF NoIntent
    <2>4. Free(t) /\ ~Writing(t) /\ Purpose(t)
      BY <2>2, <2>3 DEF Free, Writing, Purpose
    <2>5. ASSUME NEW here, s.ctl.intent.at = "resolve", Shows(s, here)
          PROVE  Shows(t, here)
      BY <1>3, <2>2, <2>3, <2>5 DEF Shows, Repairs
    <2> QED BY <2>2, <2>4, <2>5 DEF Follows, t
  <1> QED BY <1>1, <1>2, <1>3

LEMMA AcceptLocationTyped ==
  ASSUME NEW s \in States, NEW e \in Entries
  PROVE  AcceptLocation(s, e) \in States
  <1> DEFINE here == [s EXCEPT !.nav.location = e]
             done == [here EXCEPT !.nav = Completed(here.nav)]
             told == OnLocation(done, e)
             next == [told EXCEPT !.nav = Process(told.nav)]
             gone == [here.nav EXCEPT !.stale = @ \ {e.id}]
             mended == [here EXCEPT !.nav = Repaired(gone)]
             heard == [here EXCEPT !.nav.repairs = @ \ {e.id}]
  <1>1. here \in States
    BY DEF States, Adapter
  <1>2. done \in States
    <2> HIDE DEF here
    <2> QED BY <1>1, CompletedIs DEF States
  <1>3. told \in States
    BY <1>2, OnLocationTyped
  <1>4. next \in States
    <2> HIDE DEF told
    <2> QED BY <1>3, ProcessTyped DEF States
  <1>5. Confirmed(next, s.nav.active) \in States
    BY <1>4, ConfirmedTyped DEF States, Adapter
  <1>6. mended \in States
    <2> HIDE DEF here
    <2>1. gone \in Adapter
      BY <1>1 DEF States, Adapter
    <2> HIDE DEF gone
    <2> QED BY <1>1, <2>1, RepairedIs DEF States
  <1>7. heard \in States
    <2> HIDE DEF here
    <2> QED BY <1>1 DEF States, Adapter
  <1>8. OnLocation(here, e) \in States
    BY <1>1, OnLocationTyped
  <1>9. CASE ConfirmsActive(s.nav, e)
    <2>1. AcceptLocation(s, e) = Confirmed(next, s.nav.active)
      BY <1>9 DEF AcceptLocation
    <2> QED BY <1>5, <2>1
  <1>10. CASE ~ConfirmsActive(s.nav, e) /\ IsOwnEcho(s.nav, e)
    BY <1>1, <1>10 DEF AcceptLocation
  <1>11. CASE ~ConfirmsActive(s.nav, e) /\ ~IsOwnEcho(s.nav, e) /\ IsStaleEcho(s.nav, e)
    <2>1. AcceptLocation(s, e) = mended
      BY <1>11 DEF AcceptLocation
    <2> QED BY <1>6, <2>1
  <1>12. CASE /\ ~ConfirmsActive(s.nav, e) /\ ~IsOwnEcho(s.nav, e) /\ ~IsStaleEcho(s.nav, e)
              /\ IsRepairEcho(s.nav, e)
    <2>1. AcceptLocation(s, e) = heard
      BY <1>12 DEF AcceptLocation
    <2> QED BY <1>7, <2>1
  <1>13. CASE /\ ~ConfirmsActive(s.nav, e) /\ ~IsOwnEcho(s.nav, e) /\ ~IsStaleEcho(s.nav, e)
              /\ ~IsRepairEcho(s.nav, e)
    <2>1. AcceptLocation(s, e) = OnLocation(here, e)
      BY <1>13 DEF AcceptLocation
    <2> QED BY <1>8, <2>1
  <1> QED BY <1>9, <1>10, <1>11, <1>12, <1>13

-------------------------------------------------------------------------------
(* Type correctness *)

LEMMA StateTyped ==
  ASSUME TypeOK
  PROVE  State \in States /\ State.nav = nav /\ State.ctl = ctl
  BY DEF TypeOK, State, States

LEMMA BecomeTyped ==
  ASSUME NEW s \in States, Become(s)
  PROVE  nav' \in Adapter /\ ctl' \in Controller
  BY DEF Become, States

LEMMA HereTyped ==
  ASSUME TypeOK
  PROVE  entries[pos] \in Entries /\ nav.location \in Entries
  BY DEF TypeOK, Adapter

LEMMA NavigationTyped ==
  ASSUME NEW e \in Entries
  PROVE  NavigationAt(e) \in Adapter
  <1>1. <<>> \in Seq(Writes)
    OBVIOUS
  <1> QED BY <1>1, Constants DEF NavigationAt, Adapter

LEMMA GoingOff ==
  ASSUME nav \in Adapter, nav' = [nav EXCEPT !.going = NoRequest]
  PROVE  nav' \in Adapter
  BY Constants DEF Adapter

LEMMA UserTyped ==
  ASSUME TypeOK, User
  PROVE  /\ nav' \in Adapter /\ ctl' \in Controller /\ entries' \in Seq(Entries)
         /\ pos' \in DOMAIN entries' /\ unseen' \in BOOLEAN /\ active' \in Nat
         /\ moves' = moves + 1
         /\ wanted' \in Scopes \cup {Anything}
  <1>1. State \in States /\ ctl.scope \in Scopes /\ ctl.rev \in Nat /\ ctl.offered \in Nat
    BY StateTyped DEF TypeOK, Controller
  <1>2. ASSUME NEW target \in Scopes, NEW rev \in Nat, NEW mode \in {"none", "push", "replace"}
        PROVE  Run(State, Foreground(target, rev, mode)) \in States
    BY <1>1, ForegroundTyped, RunIs
  <1>3. Unchanged(State) \in States
    BY <1>1, UnchangedIs
  <1>4. ASSUME NEW target \in Scopes, Enter(target)
        PROVE  nav' \in Adapter /\ ctl' \in Controller
    BY <1>1, <1>2, <1>3, <1>4, BecomeTyped DEF Enter
  <1>5. ASSUME Ascend
        PROVE  nav' \in Adapter /\ ctl' \in Controller /\ wanted' \in Scopes \cup {Anything}
    <2>1. Parent[ctl.scope] \in Scopes
      BY <1>1, ScopeAssumption
    <2> QED BY <1>1, <1>2, <1>3, <1>5, <2>1, BecomeTyped DEF Ascend
  <1>6. CASE \E target \in Scopes : Enter(target)
    BY <1>4, <1>6 DEF Enter, Move, TypeOK, browserVars
  <1>7. CASE Ascend
    BY <1>5, <1>7 DEF Ascend, Move, TypeOK, browserVars
  <1>8. CASE CancelPending
    BY <1>3, <1>8, BecomeTyped DEF CancelPending, Move, TypeOK, browserVars
  <1>9. CASE Rehydrate
    BY <1>1, <1>2, <1>9, BecomeTyped DEF Rehydrate, Move, TypeOK, browserVars
  <1>10. CASE GoBack
    BY <1>10, GoingOff DEF GoBack, Move, TypeOK
  <1>11. CASE Reload
    BY <1>11, HereTyped, NavigationTyped, Constants DEF Reload, Move, TypeOK
  <1> QED BY <1>6, <1>7, <1>8, <1>9, <1>10, <1>11 DEF User

LEMMA LandTyped ==
  ASSUME TypeOK, Land
  PROVE  /\ entries' \in Seq(Entries) /\ pos' \in DOMAIN entries'
         /\ entries'[pos'] = nav.going.entry
         /\ nav' \in Adapter /\ unseen' = TRUE /\ ctl' = ctl
  <1> DEFINE e == nav.going.entry
             before == SubSeq(entries, 1, pos)
  <1>1. e \in Entries /\ entries \in Seq(Entries) /\ pos \in 1 .. Len(entries)
    BY DEF TypeOK, Adapter, Requests
  <1>2. nav' \in Adapter /\ unseen' = TRUE /\ ctl' = ctl
    BY GoingOff DEF Land, TypeOK
  <1>3. CASE nav.going.replace
    <2>1. entries' = [entries EXCEPT ![pos] = e] /\ pos' = pos
      BY <1>3 DEF Land
    <2> QED BY <1>1, <1>2, <2>1
  <1>4. CASE ~nav.going.replace
    <2>1. entries' = Append(before, e) /\ pos' = pos + 1
      BY <1>4 DEF Land
    <2>2. before \in Seq(Entries) /\ Len(before) = pos
      BY <1>1
    <2> HIDE DEF before, e
    <2>3. Append(before, e) \in Seq(Entries) /\ Len(Append(before, e)) = pos + 1
          /\ Append(before, e)[pos + 1] = e
      BY <1>1, <2>2
    <2>4. pos + 1 \in DOMAIN Append(before, e)
      BY <1>1, <2>3
    <2> QED BY <1>1, <1>2, <2>1, <2>3, <2>4 DEF e
  <1> QED BY <1>3, <1>4

\* The states the system's steps begin with and come to.
Started == [nav |-> nav, ctl |-> [ctl EXCEPT !.started = TRUE]]
Offered == [State EXCEPT !.ctl.offered = active]
Unanswered(n, late) == [State EXCEPT !.nav = FailedActive(n, late)]

LEMMA StartedIs ==
  ASSUME TypeOK
  PROVE  /\ Started \in States /\ Started.nav = nav
         /\ Started.ctl = [ctl EXCEPT !.started = TRUE]
  <1>1. [ctl EXCEPT !.started = TRUE] \in Controller
    BY DEF TypeOK, Controller
  <1> QED BY <1>1 DEF Started, States, TypeOK

LEMMA OfferedIs ==
  ASSUME TypeOK
  PROVE  /\ Offered \in States /\ Offered.nav = nav
         /\ Offered.ctl = [ctl EXCEPT !.offered = active]
  <1>1. [ctl EXCEPT !.offered = active] \in Controller
    BY DEF TypeOK, Controller
  <1>2. Offered = [nav |-> nav, ctl |-> [ctl EXCEPT !.offered = active]]
    BY DEF Offered, State
  <1> QED BY <1>1, <1>2 DEF States, TypeOK

LEMMA UnansweredIs ==
  ASSUME TypeOK, NEW n \in Adapter, NEW late \in BOOLEAN
  PROVE  /\ Unanswered(n, late) \in States
         /\ Unanswered(n, late).nav = FailedActive(n, late) /\ Unanswered(n, late).ctl = ctl
  <1>1. Unanswered(n, late) = [nav |-> FailedActive(n, late), ctl |-> ctl]
    BY DEF Unanswered, State
  <1> QED BY <1>1, FailedActiveIs DEF States, TypeOK

LEMMA SystemTyped ==
  ASSUME TypeOK,
         Start \/ Echo \/ Resolve \/ RevisionGone \/ ResolveFails \/ Timeout \/ NavigateFails
  PROVE  /\ nav' \in Adapter /\ ctl' \in Controller /\ UNCHANGED <<entries, pos, active, moves>>
         /\ unseen' \in BOOLEAN /\ wanted' \in {wanted, Anything}
  <1>1. State \in States /\ entries[pos] \in Entries /\ nav.location \in Entries
    BY StateTyped, HereTyped
  <1>2. {"revision", "catalog", "url"} \subseteq Problems
    BY DEF Problems
  <1>3. CASE Start
    <2>1. HydrateCandidate(Started, nav.location, TRUE) \in States
      BY <1>1, StartedIs, HydrateCandidateTyped
    <2>2. Become(HydrateCandidate(Started, nav.location, TRUE))
      BY <1>3 DEF Start, Started
    <2> QED BY <1>3, <2>1, <2>2, BecomeTyped DEF Start, TypeOK, browserVars
  <1>4. CASE Echo
    BY <1>1, <1>4, AcceptLocationTyped, BecomeTyped DEF Echo, TypeOK
  <1>5. CASE Resolve
    <2> DEFINE i == ctl.intent
               c == Commit(State, i.target, active)
               w == Write(State, "write", i.target, active, i.mode = "replace")
    <2>1. i.target \in Scopes /\ active \in Nat /\ (i.mode = "replace") \in BOOLEAN
          /\ "write" \in Reasons
      BY DEF TypeOK, Controller, Intents, Reasons
    <2>2. c \in States
      BY <1>1, <2>1, CommitIs
    <2>3. WriteGives(State, w, "write", i.target, active, i.mode = "replace")
      BY <1>1, <2>1, WriteTyped
    <2>4. w \in States
      BY <2>3 DEF WriteGives
    <2>5. Become(c) \/ Become(w)
      BY <1>5 DEF Resolve
    <2> HIDE DEF c, w
    <2> QED BY <1>5, <2>2, <2>4, <2>5, BecomeTyped DEF Resolve, TypeOK, browserVars
  <1>6. CASE RevisionGone
    <2>1. Failed(Offered, "revision") \in States
      BY <1>2, OfferedIs, FailedTyped
    <2>2. Become(Failed(Offered, "revision"))
      BY <1>6 DEF RevisionGone, Offered
    <2> QED BY <1>6, <2>1, <2>2, BecomeTyped DEF RevisionGone, TypeOK, browserVars
  <1>7. CASE ResolveFails
    BY <1>1, <1>2, <1>7, FailedTyped, BecomeTyped DEF ResolveFails, TypeOK, browserVars
  <1>8. ASSUME NEW w, NEW late \in BOOLEAN, NEW n \in Adapter, Rejected(w, late, n)
        PROVE  nav' \in Adapter /\ ctl' \in Controller
    <2> DEFINE s == Unanswered(n, late)
    <2>1. s \in States /\ Failed(s, "url") \in States
      BY <1>2, UnansweredIs, FailedTyped
    <2>2. Become(Failed(s, "url")) \/ Become(s)
      BY <1>8 DEF Rejected, Unanswered
    <2> HIDE DEF s
    <2> QED BY <2>1, <2>2, BecomeTyped
  <1>9. CASE Timeout
    <2>1. Rejected(nav.active, TRUE, nav) /\ nav \in Adapter
      BY <1>9 DEF Timeout, TypeOK
    <2> QED BY <1>8, <1>9, <2>1 DEF Timeout, TypeOK, browserVars
  <1>10. CASE NavigateFails
    <2> DEFINE n == [nav EXCEPT !.going = NoRequest]
    <2>1. Rejected(nav.active, FALSE, n) /\ n \in Adapter
      BY <1>10, Constants DEF NavigateFails, TypeOK, Adapter
    <2> QED BY <1>8, <1>10, <2>1 DEF NavigateFails, TypeOK, browserVars
  <1> QED BY <1>3, <1>4, <1>5, <1>6, <1>7, <1>9, <1>10

LEMMA FlagsTyped ==
  ASSUME TypeOK, Next
  PROVE  overtaken' \in BOOLEAN /\ refused' \in BOOLEAN
  <1>1. overtaken' = (overtaken \/ Overtakes)
    BY DEF Next
  <1>2. refused' = TRUE \/ refused' = (refused /\ ~Renews)
    BY DEF Next
  <1> QED BY <1>1, <1>2

LEMMA NextTyped ==
  ASSUME TypeOK, [Next]_vars
  PROVE  TypeOK'
  <1>1. CASE UNCHANGED vars
    BY <1>1 DEF TypeOK, vars, scopeVars, browserVars
  <1>2. CASE Next
    <2>1. overtaken' \in BOOLEAN /\ refused' \in BOOLEAN
      BY <1>2, FlagsTyped
    <2>2. CASE User
      BY <2>1, <2>2, UserTyped DEF TypeOK
    <2>3. CASE Land
      <3>1. active' = active /\ moves' = moves /\ wanted' = wanted
        BY <2>3 DEF Land
      <3> QED BY <2>1, <2>3, <3>1, LandTyped DEF TypeOK
    <2>4. CASE Start \/ Echo \/ Resolve \/ RevisionGone \/ ResolveFails \/ Timeout \/ NavigateFails
      BY <2>1, <2>4, SystemTyped DEF TypeOK
    <2>5. CASE PublishCatalog
      BY <2>1, <2>5 DEF PublishCatalog, TypeOK, browserVars
    <2> QED BY <1>2, <2>2, <2>3, <2>4, <2>5 DEF Next, System
  <1> QED BY <1>1, <1>2

LEMMA InitTyped ==
  ASSUME Init
  PROVE  TypeOK
  <1>1. PICK cand \in Candidates : /\ entries = <<Entry(cand, 0, 0)>>
                                   /\ nav = NavigationAt(Entry(cand, 0, 0))
    BY DEF Init
  <1>2. Entry(cand, 0, 0) \in Entries
    BY DEF Entry, Entries
  <1>3. entries \in Seq(Entries) /\ pos \in DOMAIN entries
    BY <1>1, <1>2 DEF Init
  <1>4. nav \in Adapter /\ ctl \in Controller
    BY <1>1, <1>2, NavigationTyped, Constants DEF Init
  <1> QED BY <1>3, <1>4 DEF Init, TypeOK

\* The controller, the adapter and the history keep their types, whatever the user,
\* the router and the catalog do (ScopeController.tla's state is that of
\* scopeController.ts and navigation.ts).
THEOREM ScopeTypes == Spec => []TypeOK
  <1>1. Init => TypeOK
    BY InitTyped
  <1>2. TypeOK /\ [Next]_vars => TypeOK'
    BY NextTyped
  <1> QED BY <1>1, <1>2, PTL DEF Spec

-------------------------------------------------------------------------------
(* The inductive invariant *)

\* One write at a time, on its way to the browser or there and unread.  Nobody
\* was overtaken, so what the adapter waits for is what the router will show.
OneWay(s, here, u) ==
  /\ s.nav.queue = <<>> /\ ~(s.nav.going.on /\ u)
  /\ Idle(s.nav) => ~Writing(s) /\ s.ctl.ids = {}
  /\ ~Idle(s.nav) =>
       /\ Writing(s) /\ s.ctl.intent.id = s.nav.active.id /\ s.ctl.ids = {s.nav.active.id}
       /\ s.ctl.started
       /\ s.nav.going.on \/ u
       /\ s.nav.going.on => s.nav.going.entry = EntryOf(s.nav.active)
       /\ u => here = EntryOf(s.nav.active)

\* The URL names the scope when nothing is on its way to it.
Named(s, here, u) ==
  /\ s.nav.stale = {} /\ s.nav.repairs = {}
  /\ Idle(s.nav) => ~s.nav.going.on
  /\ Idle(s.nav) /\ ~u => Shows(s, here)

\* The user's last command is being carried out, or has been.
Asked(s, u, w) ==
  w # Anything =>
    /\ s.ctl.started
    /\ Idle(s.nav) => ~s.nav.going.on /\ ~u
    /\ \/ /\ s.ctl.intent.at \in {"resolve", "write"} /\ s.ctl.intent.target = w
          /\ s.ctl.intent.mode = "push"
       \/ /\ s.ctl.intent.at = "none"
          /\ s.ctl.phase = "hydrating" \/ s.ctl.scope = w

\* The state s with the location here, unread (u) or not, after a refused write (r)
\* or not, and the command w.
Good(s, here, u, r, w) ==
  /\ ~u => s.nav.location = here
  /\ OneWay(s, here, u) /\ Purpose(s)
  /\ r => s.ctl.started
  /\ r \/ Named(s, here, u)
  /\ Asked(s, u, w)

Prompt == Good(State, entries[pos], unseen, refused, wanted)

ScopeInv == TypeOK /\ (overtaken \/ Prompt)

\* A resolving, cancelled or new intent writes nothing.
LEMMA GoodFree ==
  ASSUME NEW s \in States, NEW here, NEW u \in BOOLEAN, NEW r, NEW w,
         Good(s, here, u, r, w), Idle(s.nav), s.ctl.started
  PROVE  Free(s) /\ ~Writing(s) /\ Purpose(s)
  BY DEF Good, OneWay, Free

LEMMA RunGood ==
  ASSUME NEW s \in States, NEW here, NEW r \in BOOLEAN, NEW w, Good(s, here, FALSE, r, w),
         Idle(s.nav), ~s.nav.going.on, s.ctl.started, ~s.ctl.intent.repair,
         NEW i \in Intents, ~i.repair, i.mode # "none",
         NEW v, v = Anything \/ (i.target = v /\ i.mode = "push")
  PROVE  Run(s, i) \in States /\ Good(Run(s, i), here, FALSE, r, v)
         /\ Run(s, i).ctl.started /\ Idle(Run(s, i).nav)
  <1> DEFINE t == Run(s, i)
  <1>1. Free(s)
    BY GoodFree
  <1>2. /\ Follows(s, t) /\ Free(t) /\ t.nav = s.nav
        /\ t.ctl.intent = [i EXCEPT !.at = "resolve"]
        /\ t.ctl.phase = "hydrating" <=> s.ctl.phase = "hydrating"
    BY <1>1, RunFollows
  <1>3. /\ t.ctl.intent.at = "resolve" /\ t.ctl.intent.mode = i.mode
        /\ t.ctl.intent.target = i.target /\ ~t.ctl.intent.repair
    BY <1>2 DEF Intents
  <1> HIDE DEF t
  <1>4. OneWay(t, here, FALSE) /\ Purpose(t) /\ Asked(t, FALSE, v)
    BY <1>2, <1>3 DEF Follows, Free, Writing, OneWay, Asked
  <1>5. Named(s, here, FALSE) => Named(t, here, FALSE)
    BY <1>2, <1>3 DEF Named, Shows, Follows
  <1> QED BY <1>2, <1>4, <1>5 DEF Good, Follows, Free, t

LEMMA UnchangedGood ==
  ASSUME NEW s \in States, NEW here, NEW r \in BOOLEAN, NEW w, Good(s, here, FALSE, r, w),
         Idle(s.nav), ~s.nav.going.on, s.ctl.started, ~s.ctl.intent.repair,
         NEW v, v = Anything \/ s.ctl.scope = v
  PROVE  Unchanged(s) \in States /\ Good(Unchanged(s), here, FALSE, r, v)
         /\ Unchanged(s).ctl.started /\ Idle(Unchanged(s).nav)
  <1> DEFINE t == Unchanged(s)
  <1>1. Free(s) /\ ~Writing(s) /\ Purpose(s)
    BY GoodFree
  <1>2. /\ Follows(s, t) /\ Free(t) /\ t.nav = s.nav /\ t.ctl.intent.at = "none"
        /\ t.ctl.phase = "hydrating" <=> s.ctl.phase = "hydrating"
    BY <1>1, UnchangedFollows
  <1> HIDE DEF t
  <1>3. OneWay(t, here, FALSE) /\ Purpose(t) /\ Asked(t, FALSE, v)
    BY <1>2 DEF Follows, Free, Writing, OneWay, Asked
  <1>4. Named(s, here, FALSE) => Named(t, here, FALSE)
    BY <1>2 DEF Named, Shows, Follows
  <1> QED BY <1>2, <1>3, <1>4 DEF Good, Follows, Free, t

\* What follows from a state in which nothing was being written, when the router is
\* not asked for a location before the last one was read.
LEMMA FollowsGood ==
  ASSUME NEW s \in States, NEW t \in States, NEW here, NEW u \in BOOLEAN, NEW r \in BOOLEAN,
         Free(s), Follows(s, t), ~u => s.nav.location = here,
         ~(t.nav.going.on /\ u),
         r \/ (/\ s.nav.stale = {} /\ s.nav.repairs = {} /\ ~s.nav.going.on
               /\ ~u /\ Free(t) => Shows(t, here))
  PROVE  Good(t, here, u, r, Anything)
  <1>1. Purpose(t) /\ t.ctl.started /\ Asked(t, u, Anything)
    BY DEF Follows, Free, Asked
  <1>2. CASE Free(t) /\ ~Writing(t) /\ t.nav = s.nav
    <2>1. OneWay(t, here, u) /\ (r \/ Named(t, here, u))
      BY <1>2 DEF OneWay, Free, Named
    <2> QED BY <1>1, <1>2, <2>1 DEF Good
  <1>3. CASE Written(t, t.nav.active.scope, s.nav)
    <2>1. OneWay(t, here, u)
      BY <1>1, <1>3 DEF OneWay, Written
    <2>2. r \/ Named(t, here, u)
      BY <1>3 DEF Written, Named
    <2> QED BY <1>1, <1>3, <2>1, <2>2 DEF Good, Written
  <1> QED BY <1>2, <1>3 DEF Follows

-------------------------------------------------------------------------------
(* Each action keeps it, when the user does not act too early *)

\* The state after a step is what it becomes.
LEMMA BecomesGood ==
  ASSUME NEW t \in States, Become(t), Good(t, entries'[pos'], unseen', refused', wanted')
  PROVE  Prompt'
  <1>1. t = [nav |-> t.nav, ctl |-> t.ctl]
    BY DEF States
  <1>2. [nav |-> nav', ctl |-> ctl'] = t
    BY <1>1 DEF Become
  <1>3. Good([nav |-> nav', ctl |-> ctl'], entries'[pos'], unseen', refused', wanted')
    BY <1>2
  <1> QED BY <1>3 DEF Prompt, State

\* Only the end of a write, or a new page, renews the URL.
LEMMA Kept ==
  ASSUME refused' = (refused /\ ~Renews), refused \in BOOLEAN,
         ctl'.started, Idle(nav) \/ ~Idle(nav')
  PROVE  refused' = refused
  BY DEF Renews

\* The user acts when nothing is under way.
LEMMA UserCalm ==
  ASSUME TypeOK, Prompt, User, ~Overtakes
  PROVE  /\ Idle(nav) /\ ~nav.going.on /\ ~unseen /\ nav.repairs = {} /\ ~ctl.intent.repair
         /\ State \in States /\ State.nav = nav /\ State.ctl = ctl
         /\ Good(State, entries[pos], FALSE, refused, wanted)
  <1>1. moves' = moves + 1 /\ moves \in Nat
    BY UserTyped DEF TypeOK
  <1>2. moves' # moves
    BY <1>1
  <1>3. Idle(nav) /\ ~nav.going.on /\ ~unseen /\ nav.repairs = {} /\ ~ctl.intent.repair
    BY <1>2 DEF Overtakes
  <1>4. unseen = FALSE
    BY <1>3 DEF TypeOK
  <1> QED BY <1>3, <1>4, StateTyped DEF Prompt

LEMMA EnterGood ==
  ASSUME TypeOK, Prompt, ~Overtakes, NEW target \in Scopes, Enter(target),
         refused' = (refused /\ ~Renews)
  PROVE  Prompt'
  <1> DEFINE i == Foreground(target, ctl.rev, "push")
             t == IF ~(ctl.phase = "hydrating") /\ ctl.scope = target THEN Unchanged(State)
                  ELSE Run(State, i)
  <1>1. User
    BY DEF User
  <1>2. /\ Idle(nav) /\ ~nav.going.on /\ ~unseen /\ ~ctl.intent.repair
        /\ State \in States /\ State.nav = nav /\ State.ctl = ctl
        /\ Good(State, entries[pos], FALSE, refused, wanted)
    BY <1>1, UserCalm
  <1>3. i \in Intents /\ i.target = target /\ i.mode = "push" /\ ~i.repair
    BY ForegroundTyped DEF TypeOK, Controller
  <1> HIDE DEF i
  <1>4. /\ t \in States /\ Good(t, entries[pos], FALSE, refused, target)
        /\ t.ctl.started /\ Idle(t.nav)
    BY <1>2, <1>3, RunGood, UnchangedGood DEF Enter, TypeOK
  <1>5. Become(t)
    BY DEF Enter, i
  <1> HIDE DEF t
  <1>6. refused' = refused
    BY <1>2, <1>4, <1>5, Kept DEF TypeOK, Become
  <1>7. entries'[pos'] = entries[pos] /\ unseen' = FALSE /\ wanted' = target
    BY <1>2 DEF Enter, browserVars, TypeOK
  <1> QED BY <1>4, <1>5, <1>6, <1>7, BecomesGood

LEMMA AscendGood ==
  ASSUME TypeOK, Prompt, ~Overtakes, Ascend, refused' = (refused /\ ~Renews)
  PROVE  Prompt'
  <1> DEFINE i == Foreground(Parent[ctl.scope], ctl.rev, "push")
             t == IF ctl.phase = "hydrating" \/ ctl.scope = World THEN Unchanged(State)
                  ELSE Run(State, i)
  <1>1. User
    BY DEF User
  <1>2. /\ Idle(nav) /\ ~nav.going.on /\ ~unseen /\ ~ctl.intent.repair
        /\ State \in States /\ State.nav = nav /\ State.ctl = ctl
        /\ Good(State, entries[pos], FALSE, refused, wanted)
    BY <1>1, UserCalm
  <1>3. /\ Parent[ctl.scope] \in Scopes
        /\ i \in Intents /\ i.target = Parent[ctl.scope] /\ i.mode = "push" /\ ~i.repair
    BY ForegroundTyped, ScopeAssumption DEF TypeOK, Controller
  <1> HIDE DEF i
  <1>4. /\ t \in States /\ Good(t, entries[pos], FALSE, refused, wanted')
        /\ t.ctl.started /\ Idle(t.nav)
    BY <1>2, <1>3, RunGood, UnchangedGood DEF Ascend, TypeOK
  <1>5. Become(t)
    BY DEF Ascend, i
  <1> HIDE DEF t
  <1>6. refused' = refused
    BY <1>2, <1>4, <1>5, Kept DEF TypeOK, Become
  <1>7. entries'[pos'] = entries[pos] /\ unseen' = FALSE
    BY <1>2 DEF Ascend, browserVars, TypeOK
  <1> QED BY <1>4, <1>5, <1>6, <1>7, BecomesGood

LEMMA CancelGood ==
  ASSUME TypeOK, Prompt, ~Overtakes, CancelPending, refused' = (refused /\ ~Renews)
  PROVE  Prompt'
  <1> DEFINE t == Unchanged(State)
  <1>1. User
    BY DEF User
  <1>2. /\ Idle(nav) /\ ~nav.going.on /\ ~unseen /\ ~ctl.intent.repair
        /\ State \in States /\ State.nav = nav /\ State.ctl = ctl
        /\ Good(State, entries[pos], FALSE, refused, wanted)
    BY <1>1, UserCalm
  <1>3. ctl.started
    BY <1>2 DEF CancelPending, Good, Purpose
  <1>4. /\ t \in States /\ Good(t, entries[pos], FALSE, refused, Anything)
        /\ t.ctl.started /\ Idle(t.nav)
    BY <1>2, <1>3, UnchangedGood DEF TypeOK
  <1>5. Become(t)
    BY DEF CancelPending
  <1> HIDE DEF t
  <1>6. refused' = refused
    BY <1>2, <1>4, <1>5, Kept DEF TypeOK, Become
  <1>7. entries'[pos'] = entries[pos] /\ unseen' = FALSE /\ wanted' = Anything
    BY <1>2 DEF CancelPending, browserVars, TypeOK
  <1> QED BY <1>4, <1>5, <1>6, <1>7, BecomesGood

LEMMA RehydrateGood ==
  ASSUME TypeOK, Prompt, ~Overtakes, Rehydrate, refused' = (refused /\ ~Renews)
  PROVE  Prompt'
  <1> DEFINE i == Foreground(ctl.scope, ctl.offered, "replace")
             t == Run(State, i)
  <1>1. User
    BY DEF User
  <1>2. /\ Idle(nav) /\ ~nav.going.on /\ ~unseen /\ ~ctl.intent.repair
        /\ State \in States /\ State.nav = nav /\ State.ctl = ctl
        /\ Good(State, entries[pos], FALSE, refused, wanted)
    BY <1>1, UserCalm
  <1>3. i \in Intents /\ i.mode = "replace" /\ ~i.repair
    BY ForegroundTyped DEF TypeOK, Controller
  <1> HIDE DEF i
  <1>4. ctl.started
    BY <1>2 DEF Rehydrate, Good, Purpose
  <1>5. /\ t \in States /\ Good(t, entries[pos], FALSE, refused, Anything)
        /\ t.ctl.started /\ Idle(t.nav)
    BY <1>2, <1>3, <1>4, RunGood DEF TypeOK
  <1>6. Become(t)
    BY DEF Rehydrate, i
  <1> HIDE DEF t
  <1>7. refused' = refused
    BY <1>2, <1>5, <1>6, Kept DEF TypeOK, Become
  <1>8. entries'[pos'] = entries[pos] /\ unseen' = FALSE /\ wanted' = Anything
    BY <1>2 DEF Rehydrate, browserVars, TypeOK
  <1> QED BY <1>5, <1>6, <1>7, <1>8, BecomesGood

LEMMA GoBackGood ==
  ASSUME TypeOK, Prompt, ~Overtakes, GoBack, refused' = (refused /\ ~Renews)
  PROVE  Prompt'
  <1> DEFINE n == [nav EXCEPT !.going = NoRequest]
             t == [nav |-> n, ctl |-> ctl]
  <1>1. User
    BY DEF User
  <1>2. /\ Idle(nav) /\ ~nav.going.on /\ State \in States /\ State.nav = nav /\ State.ctl = ctl
        /\ Good(State, entries[pos], FALSE, refused, wanted)
    BY <1>1, UserCalm
  <1>3. /\ n \in Adapter /\ n.queue = nav.queue /\ ~n.going.on /\ n.active = nav.active
        /\ n.stale = nav.stale /\ n.repairs = nav.repairs
    BY Constants DEF TypeOK, Adapter, NoRequest
  <1>4. Idle(n)
    BY <1>2, <1>3 DEF Idle
  <1>5. Become(t)
    BY DEF GoBack, Become
  <1> HIDE DEF n
  <1>6. t \in States /\ t.nav = n /\ t.ctl = ctl
    BY <1>3 DEF States, TypeOK
  <1> HIDE DEF t
  <1>7. wanted' = Anything /\ unseen' = TRUE /\ (refused' => refused)
        /\ (~refused' => ~refused \/ ~ctl.started)
    BY <1>2 DEF GoBack, Renews
  <1>8. OneWay(t, entries'[pos'], TRUE) /\ Purpose(t)
    BY <1>2, <1>3, <1>4, <1>6 DEF Good, OneWay, Purpose, Writing
  <1>9. /\ refused' => t.ctl.started
        /\ refused' \/ Named(t, entries'[pos'], TRUE)
    BY <1>2, <1>3, <1>6, <1>7 DEF Good, Named
  <1>10. Good(t, entries'[pos'], unseen', refused', wanted')
    BY <1>7, <1>8, <1>9 DEF Good, Asked
  <1> QED BY <1>5, <1>6, <1>10, BecomesGood

\* A page that is loaded writes nothing.
LEMMA LoadedGood ==
  ASSUME NEW e \in Entries
  PROVE  LET t == [nav |-> NavigationAt(e), ctl |-> Hydrating] IN
         t \in States /\ Good(t, e, FALSE, FALSE, Anything)
  <1> DEFINE n == NavigationAt(e)
             t == [nav |-> n, ctl |-> Hydrating]
  <1>1. n \in Adapter /\ Hydrating \in Controller
    BY NavigationTyped, Constants
  <1>2. /\ n.location = e /\ n.queue = <<>> /\ Idle(n) /\ ~n.going.on
        /\ n.stale = {} /\ n.repairs = {}
    BY DEF NavigationAt, Idle, NoRequest
  <1>3. /\ Hydrating.phase = "hydrating" /\ Hydrating.intent.at = "none" /\ Hydrating.ids = {}
        /\ ~Hydrating.intent.repair
    BY DEF Hydrating, NoIntent
  <1> HIDE DEF n
  <1>4. t \in States /\ t.nav = n /\ t.ctl = Hydrating
    BY <1>1 DEF States
  <1> HIDE DEF t
  <1>5. OneWay(t, e, FALSE) /\ Purpose(t) /\ Named(t, e, FALSE)
    BY <1>2, <1>3, <1>4 DEF OneWay, Purpose, Named, Shows, Writing
  <1> QED BY <1>2, <1>4, <1>5 DEF Good, Asked, t, n

LEMMA ReloadGood ==
  ASSUME TypeOK, Reload, refused' = (refused /\ ~Renews)
  PROVE  Prompt'
  <1> DEFINE t == [nav |-> NavigationAt(entries[pos]), ctl |-> Hydrating]
  <1>1. t \in States /\ Good(t, entries[pos], FALSE, FALSE, Anything)
    BY HereTyped, LoadedGood
  <1>2. Become(t)
    BY DEF Reload, Become
  <1>3. ~refused'
    BY DEF Reload, Renews, Hydrating
  <1>4. refused' = FALSE
    BY <1>3
  <1> HIDE DEF t
  <1>5. Good(t, entries'[pos'], unseen', refused', wanted')
    BY <1>1, <1>4 DEF Reload
  <1> QED BY <1>1, <1>2, <1>5, BecomesGood

LEMMA LandGood ==
  ASSUME TypeOK, Prompt, Land, refused' = (refused /\ ~Renews)
  PROVE  Prompt'
  <1> DEFINE n == [nav EXCEPT !.going = NoRequest]
             t == [nav |-> n, ctl |-> ctl]
             e == nav.going.entry
  <1>1. State.nav = nav /\ State.ctl = ctl /\ Good(State, entries[pos], unseen, refused, wanted)
    BY StateTyped DEF Prompt
  <1>2. nav.going.on /\ entries'[pos'] = e /\ unseen' = TRUE /\ wanted' = wanted
    BY LandTyped DEF Land
  <1>3. /\ n \in Adapter /\ n.queue = nav.queue /\ ~n.going.on /\ n.active = nav.active
        /\ n.stale = nav.stale /\ n.repairs = nav.repairs
    BY Constants DEF TypeOK, Adapter, NoRequest
  <1>4. Idle(n) <=> Idle(nav)
    BY <1>3 DEF Idle
  <1>5. Become(t)
    BY DEF Land, Become
  <1> HIDE DEF n
  <1>6. t \in States /\ t.nav = n /\ t.ctl = ctl
    BY <1>3 DEF States, TypeOK
  <1> HIDE DEF t, e
  <1>7. OneWay(t, e, TRUE) /\ Purpose(t)
    BY <1>1, <1>2, <1>3, <1>4, <1>6 DEF Good, OneWay, Purpose, Writing, e
  <1>8. refused \/ (~Idle(nav) /\ Named(t, e, TRUE))
    BY <1>1, <1>2, <1>3, <1>4, <1>6 DEF Good, Named
  <1>9. Asked(t, TRUE, wanted)
    BY <1>1, <1>2, <1>3, <1>4, <1>6 DEF Good, Asked
  <1>10. (refused' => refused) /\ (~refused' => ~refused \/ ~ctl.started)
    BY <1>3, <1>4, <1>5, <1>6 DEF Renews, Become
  <1>11. (refused' => t.ctl.started) /\ (refused' \/ Named(t, e, TRUE))
    BY <1>1, <1>6, <1>8, <1>10 DEF Good
  <1>12. Good(t, entries'[pos'], unseen', refused', wanted')
    BY <1>2, <1>7, <1>9, <1>11 DEF Good
  <1> QED BY <1>5, <1>6, <1>12, BecomesGood

LEMMA StartGood ==
  ASSUME TypeOK, Prompt, ~Overtakes, Start, refused' = (refused /\ ~Renews)
  PROVE  Prompt'
  <1> DEFINE s == Started
             t == HydrateCandidate(s, nav.location, TRUE)
  <1>1. State.nav = nav /\ State.ctl = ctl /\ Good(State, entries[pos], unseen, refused, wanted)
    BY StateTyped DEF Prompt
  <1>2. /\ ~ctl.started /\ ~refused /\ ctl.intent.at = "none" /\ ctl.phase = "hydrating"
        /\ ~ctl.intent.repair /\ wanted = Anything /\ Idle(nav) /\ nav.queue = <<>>
        /\ ctl.ids = {} /\ nav.stale = {} /\ nav.repairs = {} /\ ~nav.going.on
        /\ (~unseen => nav.location = entries[pos])
    BY <1>1 DEF Start, Good, Purpose, OneWay, Named, Asked, Writing
  <1>3. s \in States /\ s.nav = nav /\ s.ctl = [ctl EXCEPT !.started = TRUE]
    BY StartedIs
  <1> HIDE DEF s
  <1>4. /\ s.ctl.intent = ctl.intent /\ s.ctl.started /\ s.ctl.phase = ctl.phase
        /\ s.ctl.ids = ctl.ids
    BY <1>3 DEF TypeOK, Controller
  <1>5. Free(s) /\ ~Writing(s) /\ Purpose(s)
    BY <1>2, <1>3, <1>4 DEF Free, Writing, Purpose
  <1>6. nav.location \in Entries
    BY HereTyped
  <1>7. Follows(s, t) /\ (Free(t) => Shows(t, nav.location))
    BY <1>2, <1>3, <1>4, <1>5, <1>6, HydrateCandidateFollows
  <1>8. Become(t)
    BY DEF Start, Started, s
  <1> HIDE DEF t
  <1>9. ~(t.nav.going.on /\ unseen)
    BY <1>8 DEF Overtakes, Become, Start, browserVars
  <1>10. t \in States
    BY <1>7 DEF Follows
  <1>11. refused' = FALSE /\ entries'[pos'] = entries[pos] /\ unseen' = unseen /\ wanted' = Anything
    BY <1>2 DEF Start, browserVars
  <1>12. /\ s.nav.stale = {} /\ s.nav.repairs = {} /\ ~s.nav.going.on
         /\ ~unseen /\ Free(t) => Shows(t, entries[pos])
         /\ ~unseen => s.nav.location = entries[pos]
    BY <1>2, <1>3, <1>7
  <1> DEFINE here == entries[pos]
             no == FALSE
  <1>a. unseen \in BOOLEAN /\ no \in BOOLEAN
    BY DEF TypeOK
  <1> HIDE DEF here, no
  <1>b. Good(t, here, unseen, no, Anything)
    BY <1>3, <1>5, <1>7, <1>9, <1>10, <1>12, <1>a, FollowsGood DEF here
  <1>13. Good(t, entries[pos], unseen, FALSE, Anything)
    BY <1>b DEF here, no
  <1> QED BY <1>8, <1>10, <1>11, <1>13, BecomesGood

LEMMA ResolveGood ==
  ASSUME TypeOK, Prompt, ~Overtakes, Resolve, refused' = (refused /\ ~Renews)
  PROVE  Prompt'
  <1> DEFINE i == ctl.intent
             c == Commit(State, i.target, active)
             t == Write(State, "write", i.target, active, i.mode = "replace")
  <1>1. /\ State \in States /\ State.nav = nav /\ State.ctl = ctl
        /\ Good(State, entries[pos], unseen, refused, wanted)
    BY StateTyped DEF Prompt
  <1>2. /\ i.at = "resolve" /\ i.target \in Scopes /\ active \in Nat /\ ctl.started
        /\ (i.mode = "replace") \in BOOLEAN
    BY <1>1 DEF Resolve, TypeOK, Controller, Intents, Good, Purpose
  <1>3. Idle(nav) /\ nav.queue = <<>> /\ ctl.ids = {} /\ ~(nav.going.on /\ unseen)
    BY <1>1, <1>2 DEF Good, OneWay, Writing
  <1>4. entries'[pos'] = entries[pos] /\ unseen' = unseen /\ wanted' = wanted
    BY DEF Resolve, browserVars
  <1>5. CASE i.mode = "none"
    <2>1. Become(c)
      BY <1>5 DEF Resolve
    <2> DEFINE k == i.target
    <2>a. k \in Scopes /\ c = Commit(State, k, active) /\ active \in Nat /\ State \in States
      BY <1>1, <1>2
    <2> HIDE DEF c, k, i
    <2>b. /\ c \in States /\ c.nav = State.nav /\ c.ctl.intent = NoIntent
          /\ c.ctl.ids = State.ctl.ids \ {State.ctl.intent.id} /\ c.ctl.phase = "ready"
          /\ c.ctl.scope = k /\ c.ctl.started = State.ctl.started
      BY <2>a, CommitIs
    <2>2. /\ c \in States /\ c.nav = nav /\ c.ctl.intent = NoIntent
          /\ c.ctl.ids = ctl.ids \ {ctl.intent.id} /\ c.ctl.phase = "ready"
          /\ c.ctl.scope = i.target /\ c.ctl.started = ctl.started
      BY <1>1, <2>b DEF k
    <2>3. NoIntent.at = "none" /\ ~NoIntent.repair
      BY DEF NoIntent
    <2>4. refused' = refused
      BY <1>2, <1>3, <2>1, <2>2, Kept DEF TypeOK, Become
    <2>5. OneWay(c, entries[pos], unseen) /\ Purpose(c)
      BY <1>1, <1>2, <1>3, <2>2, <2>3 DEF OneWay, Purpose, Writing
    <2>6. wanted = Anything
      BY <1>1, <1>2, <1>5 DEF Good, Asked, i
    <2>7. refused \/ Named(c, entries[pos], unseen)
      BY <1>1, <1>2, <1>3, <1>5, <2>2, <2>3 DEF Good, Named, Shows, i
    <2>8. Good(c, entries[pos], unseen, refused, wanted)
      BY <1>1, <1>2, <2>2, <2>5, <2>6, <2>7 DEF Good, Asked
    <2> QED BY <1>4, <2>1, <2>2, <2>4, <2>8, BecomesGood
  <1>6. CASE i.mode # "none"
    <2>1. Become(t)
      BY <1>6 DEF Resolve
    <2>2. "write" \in Reasons
      BY DEF Reasons
    <2>3. Wrote(State, t, "write", i.target)
      BY <1>1, <1>2, <1>3, <2>2, WriteIs
    <2> HIDE DEF t, i
    <2>4. /\ t \in States /\ Written(t, i.target, nav) /\ t.ctl.intent.at = "write"
          /\ t.ctl.intent.target = i.target /\ t.ctl.intent.mode = i.mode
          /\ t.ctl.intent.repair = i.repair /\ t.ctl.intent.fallback = i.fallback
          /\ t.ctl.phase = ctl.phase /\ t.ctl.scope = ctl.scope /\ t.ctl.started = ctl.started
      BY <1>1, <2>3 DEF Wrote, i
    <2>5. refused' = refused
      BY <1>2, <1>3, <2>1, <2>4, Kept DEF TypeOK, Become
    <2>6. ~unseen
      BY <1>4, <2>1, <2>4 DEF Overtakes, Become, Written
    <2>7. OneWay(t, entries[pos], unseen)
      BY <1>2, <2>4, <2>6 DEF OneWay, Written
    <2>8. Purpose(t)
      BY <1>1, <1>2, <2>4 DEF Good, Purpose, Written, i
    <2>9. refused \/ Named(t, entries[pos], unseen)
      BY <1>1, <2>4 DEF Good, Named, Written
    <2>10. Asked(t, unseen, wanted)
      BY <1>1, <1>2, <2>4 DEF Good, Asked, Written, i
    <2>11. Good(t, entries[pos], unseen, refused, wanted)
      BY <1>1, <1>2, <2>4, <2>7, <2>8, <2>9, <2>10 DEF Good, Written
    <2> QED BY <1>4, <2>1, <2>4, <2>5, <2>11, BecomesGood
  <1> QED BY <1>5, <1>6

\* An intent that the catalog refuses: s is the state it is refused in.
LEMMA RefusalGood ==
  ASSUME TypeOK, Prompt, ~Overtakes, ctl.intent.at = "resolve",
         NEW s \in States, s.nav = nav, s.ctl.intent = ctl.intent, s.ctl.ids = ctl.ids,
         s.ctl.phase = ctl.phase, s.ctl.scope = ctl.scope, s.ctl.started = ctl.started,
         NEW p \in Problems, Become(Failed(s, p)), UNCHANGED browserVars, wanted' = Anything,
         refused' = (refused /\ ~Renews)
  PROVE  Prompt'
  <1> DEFINE t == Failed(s, p)
  <1>1. /\ State.nav = nav /\ State.ctl = ctl
        /\ Good(State, entries[pos], unseen, refused, wanted)
    BY StateTyped DEF Prompt
  <1>2. /\ Idle(nav) /\ ctl.started /\ ~(ctl.intent.repair /\ ctl.intent.fallback)
    BY <1>1 DEF Good, OneWay, Writing, Purpose
  <1>3. Free(s) /\ ~Writing(s)
    BY <1>1, <1>2 DEF Good, OneWay, Free, Writing
  <1>4. /\ Follows(s, t)
        /\ Shows(s, entries[pos]) => (Free(t) => Shows(t, entries[pos]))
    BY <1>2, <1>3, FailedFollows
  <1> HIDE DEF t
  <1>5. Shows(State, entries[pos]) => Shows(s, entries[pos])
    BY <1>1 DEF Shows
  <1>6. Become(t) /\ t \in States /\ t.ctl.started
    BY <1>2, <1>4 DEF t, Follows
  <1>7. refused' = refused
    BY <1>2, <1>6, Kept DEF TypeOK, Become
  <1>8. ~(t.nav.going.on /\ unseen)
    BY <1>6 DEF Overtakes, Become, browserVars
  <1>9. refused \/ /\ nav.stale = {} /\ nav.repairs = {} /\ ~nav.going.on
                   /\ ~unseen /\ Free(t) => Shows(t, entries[pos])
    BY <1>1, <1>2, <1>4, <1>5 DEF Good, Named
  <1>10. ~unseen => nav.location = entries[pos]
    BY <1>1 DEF Good
  <1>11. Good(t, entries[pos], unseen, refused, Anything)
    BY <1>3, <1>4, <1>6, <1>8, <1>9, <1>10, FollowsGood DEF TypeOK
  <1>12. entries'[pos'] = entries[pos] /\ unseen' = unseen /\ wanted' = Anything
    BY DEF browserVars
  <1> QED BY <1>6, <1>7, <1>11, <1>12, BecomesGood

LEMMA RevisionGoneGood ==
  ASSUME TypeOK, Prompt, ~Overtakes, RevisionGone, refused' = (refused /\ ~Renews)
  PROVE  Prompt'
  <1>1. Offered \in States /\ Offered.nav = nav /\ Offered.ctl = [ctl EXCEPT !.offered = active]
    BY OfferedIs
  <1>2. /\ Offered.ctl.intent = ctl.intent /\ Offered.ctl.ids = ctl.ids
        /\ Offered.ctl.phase = ctl.phase /\ Offered.ctl.scope = ctl.scope
        /\ Offered.ctl.started = ctl.started
    BY <1>1 DEF TypeOK, Controller
  <1>3. "revision" \in Problems
    BY DEF Problems
  <1>4. Become(Failed(Offered, "revision")) /\ ctl.intent.at = "resolve" /\ wanted' = Anything
    BY DEF RevisionGone, Offered
  <1>5. UNCHANGED browserVars
    BY DEF RevisionGone
  <1> QED BY <1>1, <1>2, <1>3, <1>4, <1>5, RefusalGood

LEMMA ResolveFailsGood ==
  ASSUME TypeOK, Prompt, ~Overtakes, ResolveFails, refused' = (refused /\ ~Renews)
  PROVE  Prompt'
  <1>1. State \in States /\ State.nav = nav /\ State.ctl = ctl
    BY StateTyped
  <1>2. "catalog" \in Problems
    BY DEF Problems
  <1>3. Become(Failed(State, "catalog")) /\ ctl.intent.at = "resolve" /\ wanted' = Anything
    BY DEF ResolveFails
  <1>4. UNCHANGED browserVars
    BY DEF ResolveFails
  <1> QED BY <1>1, <1>2, <1>3, <1>4, RefusalGood

\* A write that the router refuses, or does not echo: n is the adapter then.
LEMMA RejectedGood ==
  ASSUME TypeOK, Prompt, ~Overtakes, ~Idle(nav), NEW n \in Adapter, NEW late \in BOOLEAN,
         n.queue = nav.queue, n.location = nav.location, n.going.on => nav.going.on,
         Rejected(nav.active, late, n), UNCHANGED browserVars, wanted' = Anything,
         refused' = TRUE
  PROVE  Prompt'
  <1> DEFINE s == Unanswered(n, late)
             t == Failed(s, "url")
  <1>1. /\ State.nav = nav /\ State.ctl = ctl
        /\ Good(State, entries[pos], unseen, refused, wanted)
    BY StateTyped DEF Prompt
  <1>2. /\ Writing(State) /\ ctl.intent.id = nav.active.id /\ ctl.ids = {nav.active.id}
        /\ ctl.started /\ nav.queue = <<>> /\ ~(nav.going.on /\ unseen)
        /\ ctl.intent.at # "none" /\ ~(ctl.intent.repair /\ ctl.intent.fallback)
        /\ ~unseen => nav.location = entries[pos]
    BY <1>1 DEF Good, OneWay, Writing, Purpose
  <1>3. s \in States /\ s.nav = FailedActive(n, late) /\ s.ctl = ctl
    BY UnansweredIs
  <1>4. Become(t)
    BY <1>2 DEF Rejected, Unanswered
  <1> HIDE DEF s
  <1>5. /\ Idle(s.nav) /\ s.nav.queue = <<>> /\ s.nav.going = n.going
        /\ s.nav.location = nav.location
    BY <1>2, <1>3, FailedActiveIs
  <1>6. Free(s)
    BY <1>1, <1>2, <1>3, <1>5 DEF Free, Writing
  <1>7. "url" \in Problems
    BY DEF Problems
  <1>8. Follows(s, t)
    BY <1>2, <1>3, <1>6, <1>7, FailedFollows
  <1> HIDE DEF t
  <1>9. t \in States /\ ~(t.nav.going.on /\ unseen)
    BY <1>4, <1>8 DEF Follows, Overtakes, Become, browserVars
  <1> DEFINE here == entries[pos]
             yes == TRUE
  <1>10. /\ unseen \in BOOLEAN /\ yes \in BOOLEAN /\ yes
         /\ ~unseen => s.nav.location = here
    BY <1>2, <1>5 DEF TypeOK
  <1> HIDE DEF here, yes
  <1>11. Good(t, here, unseen, yes, Anything)
    BY <1>3, <1>6, <1>8, <1>9, <1>10, FollowsGood
  <1>12. Good(t, entries'[pos'], unseen', refused', wanted')
    BY <1>11 DEF here, yes, browserVars
  <1> QED BY <1>4, <1>9, <1>12, BecomesGood

LEMMA TimeoutGood ==
  ASSUME TypeOK, Prompt, ~Overtakes, Timeout, refused' = TRUE
  PROVE  Prompt'
  <1>1. /\ ~Idle(nav) /\ nav \in Adapter /\ TRUE \in BOOLEAN
        /\ Rejected(nav.active, TRUE, nav) /\ UNCHANGED browserVars /\ wanted' = Anything
    BY DEF Timeout, TypeOK
  <1> QED BY <1>1, RejectedGood

LEMMA NavigateFailsGood ==
  ASSUME TypeOK, Prompt, ~Overtakes, NavigateFails, refused' = TRUE
  PROVE  Prompt'
  <1> DEFINE n == [nav EXCEPT !.going = NoRequest]
  <1>1. /\ n \in Adapter /\ n.queue = nav.queue /\ n.location = nav.location /\ ~n.going.on
    BY Constants DEF TypeOK, Adapter, NoRequest
  <1>2. /\ ~Idle(nav) /\ FALSE \in BOOLEAN
        /\ Rejected(nav.active, FALSE, n) /\ UNCHANGED browserVars /\ wanted' = Anything
    BY DEF NavigateFails
  <1> HIDE DEF n
  <1> QED BY <1>1, <1>2, RejectedGood

\* The listener on a location that the adapter has made its own.
Located(s, e) == [s EXCEPT !.nav.location = e]

LEMMA LocatedIs ==
  ASSUME NEW s \in States, NEW e \in Entries
  PROVE  /\ Located(s, e) \in States /\ Located(s, e).ctl = s.ctl
         /\ Located(s, e).nav \in Adapter
         /\ Located(s, e).nav.location = e /\ Located(s, e).nav.queue = s.nav.queue
         /\ Located(s, e).nav.active = s.nav.active /\ Located(s, e).nav.going = s.nav.going
         /\ Located(s, e).nav.stale = s.nav.stale /\ Located(s, e).nav.repairs = s.nav.repairs
  <1> DEFINE n == [s.nav EXCEPT !.location = e]
  <1>1. /\ n \in Adapter /\ n.location = e /\ n.queue = s.nav.queue /\ n.active = s.nav.active
        /\ n.going = s.nav.going /\ n.stale = s.nav.stale /\ n.repairs = s.nav.repairs
    BY DEF States, Adapter
  <1>2. Located(s, e) = [s EXCEPT !.nav = n]
    BY DEF Located, States
  <1> HIDE DEF n
  <1>3. Located(s, e) \in States /\ Located(s, e).ctl = s.ctl /\ Located(s, e).nav = n
    BY <1>1, <1>2 DEF States
  <1> QED BY <1>1, <1>3

\* The end t of the write w, which the location e confirms.
Ended(s, t, w, e) ==
  /\ t \in States /\ t.nav.location = e /\ t.nav.queue = <<>> /\ Idle(t.nav)
  /\ t.nav.going = s.nav.going /\ t.nav.stale = s.nav.stale /\ t.nav.repairs = s.nav.repairs
  /\ t.ctl.intent = NoIntent /\ t.ctl.ids = {} /\ t.ctl.started
  /\ t.ctl.scope = IF s.ctl.intent.at = "write" THEN w.scope ELSE s.ctl.scope

LEMMA EchoEnds ==
  ASSUME NEW s \in States, NEW e \in Entries, ~Idle(s.nav), s.nav.queue = <<>>, Writing(s),
         s.ctl.intent.id = s.nav.active.id, s.ctl.ids = {s.nav.active.id}, s.ctl.started,
         e = EntryOf(s.nav.active)
  PROVE  Ended(s, AcceptLocation(s, e), s.nav.active, e)
  <1> DEFINE w == s.nav.active
             l == Located(s, e)
             c == Completed(l.nav)
             d == [l EXCEPT !.nav = c]
             o == [d EXCEPT !.ctl.ids = @ \ {e.id}]
  <1>1. w \in Writes /\ e.id = w.id /\ e.cand = w.scope /\ e.rev = w.rev
    BY DEF States, Adapter, EntryOf, Entry
  <1>2. ConfirmsActive(s.nav, e)
    BY <1>1 DEF ConfirmsActive, IsOwnEcho
  <1>3. /\ l \in States /\ l.ctl = s.ctl /\ l.nav \in Adapter /\ l.nav.location = e
        /\ l.nav.queue = <<>> /\ l.nav.going = s.nav.going
        /\ l.nav.stale = s.nav.stale /\ l.nav.repairs = s.nav.repairs
    <2>1. l = Located(s, e) /\ s \in States /\ e \in Entries /\ s.nav.queue = <<>>
      OBVIOUS
    <2> HIDE DEF l
    <2>2. /\ l \in States /\ l.ctl = s.ctl /\ l.nav \in Adapter /\ l.nav.location = e
          /\ l.nav.queue = s.nav.queue /\ l.nav.going = s.nav.going
          /\ l.nav.stale = s.nav.stale /\ l.nav.repairs = s.nav.repairs
      BY <2>1, LocatedIs
    <2> QED BY <2>1, <2>2
  <1>4. AcceptLocation(s, e) = Confirmed([OnLocation(d, e) EXCEPT !.nav = Process(@)], w)
    BY <1>2 DEF AcceptLocation, Located
  <1> HIDE DEF l, w
  <1>5. /\ c \in Adapter /\ Idle(c) /\ c.queue = <<>> /\ c.going = s.nav.going
        /\ c.location = e /\ c.stale = s.nav.stale /\ c.repairs = s.nav.repairs
    BY <1>3, CompletedIs
  <1> HIDE DEF c
  <1>6. d \in States /\ d.nav = c /\ d.ctl = s.ctl
    BY <1>3, <1>5 DEF States
  <1> HIDE DEF d
  <1>7. /\ o \in States /\ o.nav = c /\ o.ctl.intent = s.ctl.intent
        /\ o.ctl.ids = s.ctl.ids \ {e.id} /\ o.ctl.scope = s.ctl.scope
        /\ o.ctl.started = s.ctl.started
    BY <1>6 DEF States, Controller
  <1>8. OnLocation(d, e) = o
    BY <1>1, <1>6 DEF OnLocation, w
  <1> HIDE DEF o
  <1>9. [o EXCEPT !.nav = Process(@)] = o
    BY <1>5, <1>7, ProcessNothing DEF States
  <1>10. AcceptLocation(s, e) = Confirmed(o, w)
    BY <1>4, <1>8, <1>9
  <1>11. o.ctl.ids = {} /\ o.ctl.intent.id = w.id /\ o.ctl.intent.at # "none" /\ o.ctl.started
    BY <1>1, <1>7 DEF Writing, w
  <1>12. w.scope \in Scopes /\ w.rev \in Nat /\ o.ctl.intent.problem \in Problems
    BY <1>1, <1>7, StateFields DEF Writes
  <1> DEFINE t == Confirmed(o, w)
  <1>13. /\ t \in States /\ t.nav = o.nav /\ t.ctl.intent = NoIntent
         /\ t.ctl.ids = o.ctl.ids \ {o.ctl.intent.id}
         /\ t.ctl.started = o.ctl.started
         /\ t.ctl.scope = IF s.ctl.intent.at = "write" THEN w.scope ELSE s.ctl.scope
    <2>1. CASE o.ctl.intent.at = "write"
      <3> DEFINE a == w.scope
                 r == w.rev
      <3>1. t = Commit(o, a, r) /\ a \in Scopes /\ r \in Nat /\ o \in States
        BY <1>7, <1>11, <1>12, <2>1 DEF Confirmed
      <3> HIDE DEF t, a, r
      <3>2. /\ t \in States /\ t.nav = o.nav /\ t.ctl.intent = NoIntent
            /\ t.ctl.ids = o.ctl.ids \ {o.ctl.intent.id}
            /\ t.ctl.started = o.ctl.started /\ t.ctl.scope = a
        BY <3>1, CommitIs
      <3> QED BY <1>7, <2>1, <3>2 DEF a
    <2>2. CASE o.ctl.intent.at # "write" /\ o.ctl.intent.problem # "none"
      <3>1. t = PublishFailure(o, o.ctl.intent.problem)
        BY <1>11, <2>2 DEF Confirmed
      <3> DEFINE p == o.ctl.intent.problem
      <3>2. p \in Problems /\ t = PublishFailure(o, p) /\ o \in States
        BY <1>7, <1>12, <3>1
      <3> HIDE DEF t, p
      <3>3. /\ t \in States /\ t.nav = o.nav /\ t.ctl.intent = NoIntent
            /\ t.ctl.ids = o.ctl.ids \ {o.ctl.intent.id}
            /\ t.ctl.started = o.ctl.started /\ t.ctl.scope = o.ctl.scope
        BY <3>2, PublishFailureIs
      <3> QED BY <1>7, <2>2, <3>3
    <2>3. CASE o.ctl.intent.at # "write" /\ o.ctl.intent.problem = "none"
      <3>1. t = Dropped(o)
        BY <1>11, <2>3 DEF Confirmed
      <3> HIDE DEF t
      <3> QED BY <1>7, <2>3, <3>1, DroppedIs
    <2> QED BY <2>1, <2>2, <2>3
  <1> HIDE DEF t
  <1> QED BY <1>5, <1>7, <1>10, <1>11, <1>13 DEF Ended, t, w

\* The echo of the write that the controller waits for.
LEMMA OwnEchoGood ==
  ASSUME TypeOK, Prompt, Echo, ~Idle(nav), refused' = (refused /\ ~Renews)
  PROVE  Prompt'
  <1> DEFINE e == entries[pos]
             s == State
             t == AcceptLocation(s, e)
             w == nav.active
  <1>1. /\ s \in States /\ s.nav = nav /\ s.ctl = ctl /\ e \in Entries
        /\ Good(s, e, unseen, refused, wanted)
    BY StateTyped, HereTyped DEF Prompt
  <1>2. /\ unseen /\ unseen' = FALSE /\ entries'[pos'] = e /\ wanted' = wanted /\ Become(t)
    BY DEF Echo
  <1> HIDE DEF e, s
  <1>3. /\ s.nav.queue = <<>> /\ Writing(s) /\ s.ctl.intent.id = s.nav.active.id
        /\ s.ctl.ids = {s.nav.active.id} /\ s.ctl.started /\ e = EntryOf(s.nav.active)
        /\ ~s.nav.going.on /\ ~Idle(s.nav)
    BY <1>1, <1>2 DEF Good, OneWay
  <1>4. Ended(s, t, s.nav.active, e)
    BY <1>1, <1>3, EchoEnds
  <1> HIDE DEF t
  <1>5. /\ t \in States /\ t.nav.location = e /\ t.nav.queue = <<>> /\ Idle(t.nav)
        /\ ~t.nav.going.on /\ t.nav.stale = nav.stale /\ t.nav.repairs = nav.repairs
        /\ t.ctl.intent = NoIntent /\ t.ctl.ids = {} /\ t.ctl.started
        /\ t.ctl.scope = IF s.ctl.intent.at = "write" THEN w.scope ELSE s.ctl.scope
    BY <1>1, <1>3, <1>4 DEF Ended
  <1>6. NoIntent.at = "none" /\ ~NoIntent.repair
    BY DEF NoIntent
  <1>7. t.ctl.scope = w.scope /\ w.scope = e.cand
    BY <1>1, <1>3, <1>5 DEF Good, Purpose, Writing, EntryOf, Entry
  <1>8. OneWay(t, e, FALSE) /\ Purpose(t)
    BY <1>5, <1>6 DEF OneWay, Purpose, Writing
  <1>9. refused' \/ (nav.stale = {} /\ nav.repairs = {})
    <2>1. CASE ~refused
      BY <1>1, <2>1 DEF Good, Named
    <2>2. CASE Renews
      BY <1>2, <1>5, <2>2 DEF Renews, Become
    <2> QED BY <2>1, <2>2 DEF TypeOK
  <1>10. refused' \/ Named(t, e, FALSE)
    BY <1>5, <1>6, <1>7, <1>9 DEF Named, Shows
  <1>11. Asked(t, FALSE, wanted)
    BY <1>1, <1>3, <1>5, <1>6, <1>7 DEF Good, Asked, Writing, Purpose
  <1>12. Good(t, e, FALSE, refused', wanted)
    BY <1>5, <1>8, <1>10, <1>11 DEF Good
  <1> QED BY <1>2, <1>5, <1>12, BecomesGood

\* A late or a repaired location is read: only after a refused write.
Reread(s, t, e) ==
  /\ t \in States /\ t.ctl = s.ctl /\ t.nav.location = e /\ t.nav.queue = s.nav.queue
  /\ t.nav.active = s.nav.active

LEMMA StaleEchoIs ==
  ASSUME NEW s \in States, NEW e \in Entries, Idle(s.nav), IsStaleEcho(s.nav, e)
  PROVE  Reread(s, AcceptLocation(s, e), e)
  <1> DEFINE l == Located(s, e)
             g == [l.nav EXCEPT !.stale = @ \ {e.id}]
             m == Repaired(g)
             t == [l EXCEPT !.nav = m]
  <1>1. l = Located(s, e)
    OBVIOUS
  <1>2. AcceptLocation(s, e) = t
    BY DEF AcceptLocation, IsStaleEcho, ConfirmsActive, IsOwnEcho, Located
  <1> HIDE DEF l
  <1>3. /\ l \in States /\ l.ctl = s.ctl /\ l.nav \in Adapter /\ l.nav.location = e
        /\ l.nav.queue = s.nav.queue /\ l.nav.active = s.nav.active
    BY <1>1, LocatedIs
  <1>4. /\ g \in Adapter /\ g.queue = l.nav.queue /\ g.active = l.nav.active
        /\ g.location = l.nav.location
    BY <1>3 DEF Adapter
  <1> HIDE DEF g
  <1>5. m \in Adapter /\ m.queue = g.queue /\ m.active = g.active /\ m.location = g.location
    BY <1>4, RepairedIs
  <1> HIDE DEF m
  <1>6. t \in States /\ t.nav = m /\ t.ctl = l.ctl
    BY <1>3, <1>5 DEF States
  <1> HIDE DEF t
  <1> QED BY <1>2, <1>3, <1>4, <1>5, <1>6 DEF Reread

LEMMA RepairEchoIs ==
  ASSUME NEW s \in States, NEW e \in Entries, Idle(s.nav), ~IsStaleEcho(s.nav, e),
         IsRepairEcho(s.nav, e)
  PROVE  Reread(s, AcceptLocation(s, e), e)
  <1> DEFINE l == Located(s, e)
             t == [l EXCEPT !.nav.repairs = @ \ {e.id}]
             m == [l.nav EXCEPT !.repairs = l.nav.repairs \ {e.id}]
  <1>1. l = Located(s, e)
    OBVIOUS
  <1>2. AcceptLocation(s, e) = t
    BY DEF AcceptLocation, IsRepairEcho, ConfirmsActive, IsOwnEcho, Located
  <1> HIDE DEF l
  <1>3. /\ l \in States /\ l.ctl = s.ctl /\ l.nav \in Adapter /\ l.nav.location = e
        /\ l.nav.queue = s.nav.queue /\ l.nav.active = s.nav.active
    BY <1>1, LocatedIs
  <1>4. t = [l EXCEPT !.nav = m]
    BY <1>3 DEF States
  <1> HIDE DEF t
  <1>5. m \in Adapter /\ m.queue = l.nav.queue /\ m.active = l.nav.active
        /\ m.location = l.nav.location
    BY <1>3 DEF Adapter
  <1> HIDE DEF m
  <1>6. t \in States /\ t.nav = m /\ t.ctl = l.ctl
    BY <1>3, <1>4, <1>5 DEF States
  <1> QED BY <1>2, <1>3, <1>5, <1>6 DEF Reread

\* The location of somebody else is heard by the controller.
LEMMA OtherEchoIs ==
  ASSUME NEW s \in States, NEW e \in Entries, Idle(s.nav), ~IsStaleEcho(s.nav, e),
         ~IsRepairEcho(s.nav, e), s.ctl.ids = {}
  PROVE  AcceptLocation(s, e) = IF s.ctl.started THEN HydrateCandidate(Located(s, e), e, FALSE)
                                ELSE Located(s, e)
  <1>1. AcceptLocation(s, e) = OnLocation(Located(s, e), e)
    BY DEF AcceptLocation, ConfirmsActive, IsOwnEcho, Located
  <1>2. Located(s, e).ctl = s.ctl
    BY LocatedIs
  <1> QED BY <1>1, <1>2 DEF OnLocation

LEMMA IdleEchoGood ==
  ASSUME TypeOK, Prompt, ~Overtakes, Echo, Idle(nav), refused' = (refused /\ ~Renews)
  PROVE  Prompt'
  <1> DEFINE e == entries[pos]
             s == State
             t == AcceptLocation(s, e)
  <1>1. /\ s \in States /\ s.nav = nav /\ s.ctl = ctl /\ e \in Entries
        /\ Good(s, e, unseen, refused, wanted)
    BY StateTyped, HereTyped DEF Prompt
  <1>2. /\ unseen /\ unseen' = FALSE /\ entries'[pos'] = e /\ wanted' = wanted /\ Become(t)
    BY DEF Echo
  <1> HIDE DEF e, s
  <1>3. /\ s.nav.queue = <<>> /\ ~Writing(s) /\ s.ctl.ids = {} /\ Idle(s.nav)
        /\ ~s.nav.going.on /\ wanted = Anything /\ Purpose(s)
        /\ refused => s.ctl.started
        /\ refused \/ (s.nav.stale = {} /\ s.nav.repairs = {})
    BY <1>1, <1>2 DEF Good, OneWay, Asked, Named
  <1>4. CASE IsStaleEcho(s.nav, e) \/ IsRepairEcho(s.nav, e)
    <2>1. Reread(s, t, e)
      BY <1>1, <1>3, <1>4, StaleEchoIs, RepairEchoIs
    <2> HIDE DEF t
    <2>2. refused = TRUE
      BY <1>3, <1>4 DEF IsStaleEcho, IsRepairEcho, TypeOK
    <2>3. t.ctl.started
      BY <1>3, <2>1, <2>2 DEF Reread
    <2>4. refused' = TRUE
      BY <1>2, <2>2, <2>3, Kept DEF Become
    <2>5. OneWay(t, e, FALSE) /\ Purpose(t)
      BY <1>3, <2>1 DEF OneWay, Purpose, Reread, Idle, Writing
    <2>6. Good(t, e, FALSE, TRUE, Anything)
      BY <2>1, <2>3, <2>5 DEF Good, Reread, Asked
    <2>7. Good(t, entries'[pos'], unseen', refused', wanted')
      BY <1>2, <1>3, <2>4, <2>6
    <2>8. t \in States
      BY <2>1 DEF Reread
    <2> QED BY <1>2, <2>7, <2>8, BecomesGood
  <1>5. CASE ~IsStaleEcho(s.nav, e) /\ ~IsRepairEcho(s.nav, e)
    <2> DEFINE l == Located(s, e)
    <2>1. t = IF s.ctl.started THEN HydrateCandidate(l, e, FALSE) ELSE l
      BY <1>1, <1>3, <1>5, OtherEchoIs
    <2>2. l = Located(s, e)
      OBVIOUS
    <2> HIDE DEF l, t
    <2>3. /\ l \in States /\ l.ctl = s.ctl /\ l.nav \in Adapter /\ l.nav.location = e
          /\ l.nav.queue = s.nav.queue /\ l.nav.active = s.nav.active
          /\ l.nav.going = s.nav.going
          /\ l.nav.stale = s.nav.stale /\ l.nav.repairs = s.nav.repairs
      BY <1>1, <2>2, LocatedIs
    <2>4. CASE ~s.ctl.started
      <3>1. t = l /\ ~refused
        BY <1>3, <2>1, <2>4
      <3>2. refused' = FALSE
        BY <3>1
      <3>3. OneWay(t, e, FALSE) /\ Purpose(t) /\ Named(t, e, FALSE)
        BY <1>3, <2>3, <2>4, <3>1 DEF OneWay, Purpose, Named, Shows, Idle, Writing
      <3>4. Good(t, e, FALSE, FALSE, Anything)
        BY <2>3, <3>1, <3>3 DEF Good, Asked
      <3>5. Good(t, entries'[pos'], unseen', refused', wanted')
        BY <1>2, <1>3, <3>2, <3>4
      <3> QED BY <1>2, <2>3, <3>1, <3>5, BecomesGood
    <2>5. CASE s.ctl.started
      <3>1. Free(l) /\ ~Writing(l) /\ Purpose(l)
        BY <1>3, <2>3, <2>5 DEF Free, Writing, Purpose, Idle
      <3>2. t = HydrateCandidate(l, e, FALSE)
        BY <2>1, <2>5
      <3>3. Follows(l, t) /\ (Free(t) => Shows(t, e))
        BY <1>1, <2>3, <3>1, <3>2, HydrateCandidateFollows
      <3>4. t \in States /\ t.ctl.started
        BY <2>3, <2>5, <3>3 DEF Follows
      <3>5. refused' = refused
        BY <1>2, <3>4, Kept DEF TypeOK, Become
      <3> DEFINE no == FALSE
      <3>6. refused \in BOOLEAN /\ no \in BOOLEAN /\ ~no
        BY DEF TypeOK
      <3> HIDE DEF no
      <3>7. Good(t, e, no, refused, Anything)
        BY <1>3, <2>3, <3>1, <3>3, <3>4, <3>6, FollowsGood
      <3>8. Good(t, entries'[pos'], unseen', refused', wanted')
        BY <1>2, <1>3, <3>5, <3>7 DEF no
      <3> QED BY <1>2, <3>4, <3>8, BecomesGood
    <2> QED BY <2>4, <2>5
  <1> QED BY <1>4, <1>5

-------------------------------------------------------------------------------
(* Every step keeps the invariant *)

LEMMA PromptStep ==
  ASSUME TypeOK, Prompt, Next, ~overtaken'
  PROVE  Prompt'
  <1>1. ~Overtakes
    BY DEF Next
  <1>2. CASE (Timeout \/ NavigateFails) /\ refused' = TRUE
    BY <1>1, <1>2, TimeoutGood, NavigateFailsGood
  <1>3. CASE refused' = (refused /\ ~Renews) /\ User
    BY <1>1, <1>3, EnterGood, AscendGood, CancelGood, RehydrateGood, GoBackGood, ReloadGood
       DEF User
  <1>4. CASE refused' = (refused /\ ~Renews) /\ System
    <2>1. CASE Start
      BY <1>1, <1>4, <2>1, StartGood
    <2>2. CASE Land
      BY <1>4, <2>2, LandGood
    <2>3. CASE Echo
      BY <1>1, <1>4, <2>3, OwnEchoGood, IdleEchoGood
    <2>4. CASE Resolve
      BY <1>1, <1>4, <2>4, ResolveGood
    <2>5. CASE RevisionGone
      BY <1>1, <1>4, <2>5, RevisionGoneGood
    <2> QED BY <1>4, <2>1, <2>2, <2>3, <2>4, <2>5 DEF System
  <1>5. CASE refused' = (refused /\ ~Renews) /\ ResolveFails
    BY <1>1, <1>5, ResolveFailsGood
  <1>6. CASE refused' = (refused /\ ~Renews) /\ PublishCatalog
    <2>1. UNCHANGED <<browserVars, nav, ctl, wanted>>
      BY <1>6 DEF PublishCatalog
    <2>2. (refused' => refused) /\ (~refused' => ~refused \/ ~ctl.started)
      BY <1>6, <2>1 DEF Renews
    <2>3. refused' = refused
      <3>1. refused => ctl.started
        BY StateTyped DEF Prompt, Good
      <3>2. refused \in BOOLEAN /\ refused' \in BOOLEAN
        BY <1>6 DEF TypeOK
      <3> QED BY <2>2, <3>1, <3>2
    <2> QED BY <2>1, <2>3 DEF Prompt, State, browserVars
  <1> QED BY <1>2, <1>3, <1>4, <1>5, <1>6 DEF Next

LEMMA ScopeInvNext ==
  ASSUME ScopeInv, [Next]_vars
  PROVE  ScopeInv'
  <1>1. TypeOK'
    BY NextTyped DEF ScopeInv
  <1>2. CASE UNCHANGED vars
    BY <1>1, <1>2 DEF ScopeInv, Prompt, State, vars, scopeVars, browserVars
  <1>3. CASE Next
    <2>1. overtaken => overtaken'
      BY <1>3 DEF Next
    <2> QED BY <1>1, <1>3, <2>1, PromptStep DEF ScopeInv
  <1> QED BY <1>2, <1>3

LEMMA ScopeInvInit ==
  ASSUME Init
  PROVE  ScopeInv
  <1>1. PICK cand \in Candidates : /\ entries = <<Entry(cand, 0, 0)>>
                                   /\ nav = NavigationAt(Entry(cand, 0, 0))
    BY DEF Init
  <1> DEFINE e == Entry(cand, 0, 0)
  <1>2. e \in Entries
    BY DEF Entry, Entries
  <1>3. entries[pos] = e
    BY <1>1 DEF Init
  <1> HIDE DEF e
  <1>4. Good([nav |-> NavigationAt(e), ctl |-> Hydrating], e, FALSE, FALSE, Anything)
    BY <1>2, LoadedGood
  <1>5. nav = NavigationAt(e)
    BY <1>1 DEF e
  <1>6. State = [nav |-> NavigationAt(e), ctl |-> Hydrating]
    BY <1>5 DEF Init, State
  <1>7. unseen = FALSE /\ refused = FALSE /\ wanted = Anything
    BY DEF Init
  <1> QED BY <1>3, <1>4, <1>6, <1>7, InitTyped DEF ScopeInv, Prompt

\* Unless the user acted while the URL was on its way, there is one write at a time,
\* it is the one the foreground intent waits for, and the URL that is not being
\* written names the committed scope (beginForeground, writeNavigation and
\* onLocationChange in scopeController.ts; processQueue and acceptLocation in
\* navigation.ts).
THEOREM ScopeInvariant == Spec => []ScopeInv
  <1>1. Init => ScopeInv
    BY ScopeInvInit
  <1>2. ScopeInv /\ [Next]_vars => ScopeInv'
    BY ScopeInvNext
  <1> QED BY <1>1, <1>2, PTL DEF Spec

\* When nothing is under way the URL names the committed scope in its canonical
\* spelling, or no scope at all: whatever intents were superseded, cancelled, refused
\* by the catalog or gone back from.  Excepted are what the user did while the URL was
\* on its way, and the time between a failed write and the next confirmed one.
THEOREM UrlAlwaysNamesScope == Spec => []UrlNamesScope
  <1>1. ScopeInv => UrlNamesScope
    <2> SUFFICES ASSUME ScopeInv, Quiet, ctl.phase = "ready", ~refused, ~overtaken
                 PROVE  entries[pos].cand \in {ctl.scope, Bad}
      BY DEF UrlNamesScope
    <2>1. State.nav = nav /\ State.ctl = ctl /\ Good(State, entries[pos], unseen, refused, wanted)
      BY StateTyped DEF ScopeInv, Prompt
    <2>2. Named(State, entries[pos], unseen)
      BY <2>1 DEF Good
    <2> QED BY <2>1, <2>2 DEF Named, Shows, Quiet
  <1> QED BY <1>1, ScopeInvariant, PTL

\* The last intent wins: when nothing is under way, the committed scope is that of the
\* user's last command, unless it was cancelled, failed, or given while the URL was on
\* its way (enter, ascend and runForeground in scopeController.ts).
THEOREM PromptIntentWins == Spec => []LastPromptIntentWins
  <1>1. ScopeInv => LastPromptIntentWins
    <2> SUFFICES ASSUME ScopeInv, ~overtaken, Quiet, wanted # Anything, ctl.phase # "hydrating"
                 PROVE  ctl.scope = wanted
      BY DEF LastPromptIntentWins, LastIntentWins
    <2>1. State.ctl = ctl /\ Asked(State, unseen, wanted)
      BY StateTyped DEF ScopeInv, Prompt, Good
    <2> QED BY <2>1 DEF Asked, Quiet
  <1> QED BY <1>1, ScopeInvariant, PTL

-------------------------------------------------------------------------------
(* The signal feed *)

LEMMA FeedConstants ==
  /\ MaxRecords \in Nat /\ BatchSize \in Nat /\ RingSize \in Nat
  /\ QueueSize \in Nat /\ FeedCap \in Nat /\ DedupeCap \in Nat
  /\ BatchSize # 0 /\ RingSize # 0 /\ FeedCap # 0 /\ DedupeCap # 0
  BY SignalFeedAssumption

USE FeedConstants DEF NoId

-------------------------------------------------------------------------------
(* The inductive invariant of the signal feed. *)

\* The last id the consumer loop knows of: what it inserts next is newer.
Edge == IF cursor # NoId THEN cursor ELSE IF reading # NoRead THEN reading ELSE added

\* s holds the ids up to last, without a hole.
RunsTo(s, last) ==
  /\ s \in Seq(Nat) /\ Len(s) <= last
  /\ \A n \in 1 .. Len(s) : s[n] = last - Len(s) + n

\* The live queue: new ids in ascending order.
Queued(q, last) ==
  /\ q \in Seq(Nat)
  /\ \A n \in 1 .. Len(q) : delivered < q[n] /\ q[n] <= last
  /\ \A n \in 1 .. Len(q) : \A m \in 1 .. n - 1 : q[m] < q[n]

\* Whoever shows the newest of ids has i on the display, or has no room for it.
Above(ids, i) == {j \in ids : j > i}
Covers(ids, i) == i \in ids \/ Cardinality(Above(ids, i)) >= FeedCap

Phases == {"hydrating", "connecting", "live", "backoff"}
FetchStates == {"none", "asked", "answered", "failed"}

SignalTypes ==
  /\ added \in 0 .. MaxRecords /\ horizon \in Nat
  /\ cursor \in 0 .. added /\ reading \in (0 .. added) \cup {NoRead}
  /\ ring \in Seq(Nat) /\ seen \in SUBSET Nat
  /\ queue \in Seq(Nat) /\ delivered \in Nat /\ wire \in Seq(Nat)
  /\ phase \in Phases /\ url \in Nat
  /\ items \in SUBSET Nat /\ dedupe \in Seq(Nat) /\ lastId \in Nat
  /\ fetch \in [at : FetchStates, ids : SUBSET Nat] /\ resetBuffer \in SUBSET Nat
  /\ missed \in BOOLEAN /\ feedFaults \in Nat

\* What the consumer has read and what it will read next.
RingInv ==
  /\ cursor # NoId /\ reading # NoRead => reading = cursor
  /\ RunsTo(ring, Edge) /\ seen \subseteq 1 .. Edge
  /\ cursor = NoId => ring = <<>>

\* Nobody has an id that the consumer has not read.
KnownInv ==
  /\ items \subseteq 1 .. lastId /\ Range(dedupe) \subseteq 1 .. lastId
  /\ resetBuffer = NoBuffer \/ resetBuffer \subseteq 1 .. lastId
  /\ fetch.ids \subseteq 1 .. Edge
  /\ url <= lastId /\ lastId <= Edge /\ delivered <= Edge

\* The frames under way ascend, and what is queued comes after them.
StreamInv ==
  /\ phase # "live" => queue = <<>> /\ wire = <<>>
  /\ Queued(queue, Edge)
  /\ \A n \in 1 .. Len(wire) : wire[n] <= delivered
  /\ \A n \in 1 .. Len(wire) : \A m \in 1 .. n - 1 : wire[m] <= wire[n] /\ wire[n] # Reset

\* Which snapshot is under way, and what it brings.
FetchInv ==
  /\ fetch.at # "answered" => fetch.ids = {}
  /\ phase = "hydrating" =>
       /\ items = {} /\ dedupe = <<>> /\ lastId = NoId /\ resetBuffer = NoBuffer
       /\ fetch.at # "none"
  /\ phase # "hydrating" => (resetBuffer = NoBuffer <=> fetch.at = "none")
  /\ \A i \in fetch.ids : \A r \in Range(ring) : r <= i => Covers(fetch.ids, r)

\* What the browser has seen it shows, or has no room for.
ViewInv ==
  /\ \A i \in Range(dedupe) : Covers(items, i)
  /\ resetBuffer # NoBuffer => \A i \in resetBuffer : Covers(items, i)

\* The id the browser shows, or will show when the snapshot of a reset lands.
Held(r) ==
  \/ resetBuffer # NoBuffer /\ fetch.at \in {"asked", "failed"}
  \/ resetBuffer # NoBuffer /\ fetch.at = "answered" /\ Covers(fetch.ids \cup resetBuffer, r)
  \/ resetBuffer = NoBuffer /\ Covers(items, r)

\* The ids a request for a replay leaves out are shown.
ConnectInv ==
  phase = "connecting" =>
    \A r \in Range(ring) : url < r /\ r <= lastId => resetBuffer = NoBuffer /\ Covers(items, r)

\* Nothing is left out: what the browser's cursor has passed is held, and the rest of
\* the ring is held or under way, or a reset is.
CompleteInv ==
  ~missed /\ phase # "hydrating" =>
    /\ \A r \in Range(ring) : r <= lastId => Held(r)
    /\ phase = "live" =>
         \A r \in Range(ring) : \/ Held(r) \/ r \in Range(wire) \/ r \in Range(queue)
                                \/ Reset \in Range(wire)

FeedInv ==
  /\ SignalTypes /\ RingInv /\ KnownInv /\ StreamInv /\ FetchInv /\ ViewInv /\ ConnectInv
  /\ CompleteInv

-------------------------------------------------------------------------------
(* Sequences. *)

LEMMA PlacesIs ==
  ASSUME NEW s \in Seq(Nat)
  PROVE  /\ DOMAIN s = 1 .. Len(s) /\ Len(s) \in Nat /\ Range(s) \subseteq Nat
         /\ \A n \in 1 .. Len(s) : s[n] \in Range(s) /\ s[n] \in Nat
         /\ \A e \in Range(s) : \E n \in 1 .. Len(s) : e = s[n]
  <1>1. DOMAIN s = 1 .. Len(s) /\ Len(s) \in Nat
    BY LenProperties
  <1>2. \A n \in 1 .. Len(s) : s[n] \in Nat
    BY ElementOfSeq
  <1> QED BY <1>1, <1>2 DEF Range

LEMMA NothingIs == <<>> \in Seq(Nat) /\ Len(<<>>) = 0 /\ Range(<<>>) = {}
  BY DEF Range

LEMMA TailIs ==
  ASSUME NEW s \in Seq(Nat), s # <<>>
  PROVE  /\ Head(s) = s[1] /\ Len(s) >= 1 /\ Head(s) \in Range(s) /\ Head(s) \in Nat
         /\ Tail(s) \in Seq(Nat) /\ Len(Tail(s)) = Len(s) - 1
         /\ \A n \in 1 .. Len(Tail(s)) : Tail(s)[n] = s[n + 1]
         /\ Range(Tail(s)) \subseteq Range(s)
         /\ Range(s) \subseteq {Head(s)} \cup Range(Tail(s))
  <1>1. Len(s) \in Nat /\ Len(s) >= 1
    BY EmptySeq
  <1>2. Head(s) = s[1]
    OBVIOUS
  <1>3. PICK t : t = Tail(s)
    OBVIOUS
  <1>4. /\ t \in Seq(Nat) /\ Len(t) = Len(s) - 1
        /\ \A n \in 1 .. Len(t) : t[n] = s[n + 1]
    BY <1>3, HeadTailProperties
  <1>5. ASSUME NEW e \in Range(t) PROVE e \in Range(s)
    <2>1. PICK n \in 1 .. Len(t) : e = t[n]
      BY <1>4, PlacesIs
    <2>2. n + 1 \in 1 .. Len(s) /\ e = s[n + 1]
      BY <1>1, <1>4, <2>1
    <2> QED BY <2>2, PlacesIs
  <1>6. ASSUME NEW e \in Range(s) PROVE e = Head(s) \/ e \in Range(t)
    <2>1. PICK n \in 1 .. Len(s) : e = s[n]
      BY PlacesIs
    <2>2. CASE n = 1
      BY <1>2, <2>1, <2>2
    <2>3. CASE n # 1
      <3>1. n - 1 \in 1 .. Len(t) /\ (n - 1) + 1 = n
        BY <1>1, <1>4, <2>1, <2>3
      <3>2. t[n - 1] = e
        BY <1>4, <2>1, <3>1
      <3> QED BY <1>4, <3>1, <3>2, PlacesIs
    <2> QED BY <2>2, <2>3
  <1>7. Head(s) \in Range(s) /\ Head(s) \in Nat
    BY <1>1, <1>2, PlacesIs
  <1> QED BY <1>1, <1>2, <1>3, <1>4, <1>5, <1>6, <1>7

LEMMA GrownIs ==
  ASSUME NEW s \in Seq(Nat), NEW e \in Nat
  PROVE  /\ Append(s, e) \in Seq(Nat) /\ Len(Append(s, e)) = Len(s) + 1
         /\ Range(Append(s, e)) = Range(s) \cup {e}
         /\ \A n \in 1 .. Len(s) : Append(s, e)[n] = s[n]
         /\ Append(s, e)[Len(s) + 1] = e
  <1>1. PICK t : t = Append(s, e)
    OBVIOUS
  <1>2. /\ t \in Seq(Nat) /\ Len(t) = Len(s) + 1 /\ Len(s) \in Nat /\ t[Len(s) + 1] = e
        /\ \A n \in 1 .. Len(s) : t[n] = s[n]
    BY <1>1, AppendProperties, PlacesIs
  <1>3. ASSUME NEW f \in Range(t) PROVE f = e \/ f \in Range(s)
    <2>1. PICK n \in 1 .. Len(t) : f = t[n]
      BY <1>2, PlacesIs
    <2>2. n = Len(s) + 1 \/ n \in 1 .. Len(s)
      BY <1>2, <2>1
    <2> QED BY <1>2, <2>1, <2>2, PlacesIs
  <1>4. ASSUME NEW f \in Range(s) PROVE f \in Range(t)
    <2>1. PICK n \in 1 .. Len(s) : f = s[n]
      BY PlacesIs
    <2>2. n \in 1 .. Len(t) /\ f = t[n]
      BY <1>2, <2>1
    <2> QED BY <1>2, <2>2, PlacesIs
  <1>5. e \in Range(t)
    <2>1. Len(s) + 1 \in 1 .. Len(t)
      BY <1>2
    <2> QED BY <1>2, <2>1, PlacesIs
  <1>6. Range(t) = Range(s) \cup {e}
    BY <1>3, <1>4, <1>5
  <1> QED BY <1>1, <1>2, <1>6

\* Every set of natural numbers has a least element, and, when it is bounded, a
\* greatest one.
LEMMA LeastIs ==
  ASSUME NEW P, P \subseteq Nat, P # {}
  PROVE  \E n \in P : \A m \in P : n <= m
  <1> DEFINE R == {p \in Nat \X Nat : p[1] < p[2]}
  <1>1. R = OpToRel(<, Nat)
    BY DEF OpToRel
  <1>2. IsWellFoundedOn(R, Nat)
    BY <1>1, NatLessThanWellFounded
  <1> HIDE DEF R
  <1>3. PICK n \in P : \A m \in P : ~ (<<m, n>> \in R)
    BY <1>2, WFMin
  <1>4. ASSUME NEW m \in P PROVE n <= m
    <2>1. <<m, n>> \notin R
      BY <1>3
    <2>2. n \in Nat /\ m \in Nat
      OBVIOUS
    <2>3. ~(m < n)
      BY <2>1, <2>2 DEF R
    <2> QED BY <2>2, <2>3
  <1> QED BY <1>4

LEMMA GreatestIs ==
  ASSUME NEW b \in Nat, NEW S, S \subseteq 0 .. b, S # {}
  PROVE  \E n \in S : \A m \in S : m <= n
  <1> DEFINE U == {u \in Nat : \A m \in S : m <= u}
  <1>1. b \in U
    OBVIOUS
  <1>2. PICK u \in U : \A v \in U : u <= v
    BY <1>1, LeastIs
  <1>3. u \in S
    <2>1. SUFFICES ASSUME u \notin S PROVE FALSE
      OBVIOUS
    <2>2. PICK i : i \in S
      OBVIOUS
    <2>3. i \in Nat /\ i <= u /\ u \in Nat /\ i # u
      BY <1>2, <2>1, <2>2
    <2>4. \A m \in S : m <= u - 1
      <3> SUFFICES ASSUME NEW m \in S PROVE m <= u - 1
        OBVIOUS
      <3>1. m \in Nat /\ m <= u /\ m # u
        BY <1>2, <2>1
      <3> QED BY <2>3, <3>1
    <2>5. u - 1 \in U
      BY <2>3, <2>4
    <2>6. u <= u - 1
      BY <1>2, <2>5
    <2> QED BY <2>3, <2>6
  <1> QED BY <1>2, <1>3

-------------------------------------------------------------------------------
(* The ring: a run of ids. *)

LEMMA IdsIs ==
  ASSUME NEW last \in Nat, NEW s, RunsTo(s, last)
  PROVE  /\ s \in Seq(Nat) /\ Len(s) \in Nat /\ Len(s) <= last
         /\ Range(s) = last - Len(s) + 1 .. last
         /\ s # <<>> => /\ Head(s) = last - Len(s) + 1 /\ Last(s) = last /\ Len(s) >= 1
                        /\ Tail(s) \in Seq(Nat) /\ RunsTo(Tail(s), last)
                        /\ Len(Tail(s)) = Len(s) - 1
  <1>1. s \in Seq(Nat) /\ Len(s) \in Nat /\ Len(s) <= last
    BY PlacesIs DEF RunsTo
  <1>2. ASSUME NEW r \in Range(s) PROVE r \in last - Len(s) + 1 .. last
    <2>1. PICK n \in 1 .. Len(s) : r = s[n]
      BY <1>1, PlacesIs
    <2>2. r = last - Len(s) + n
      BY <2>1 DEF RunsTo
    <2> QED BY <1>1, <2>2
  <1>3. ASSUME NEW r \in last - Len(s) + 1 .. last PROVE r \in Range(s)
    <2>1. r - (last - Len(s)) \in 1 .. Len(s)
      BY <1>1
    <2>2. s[r - (last - Len(s))] = last - Len(s) + (r - (last - Len(s)))
      BY <2>1 DEF RunsTo
    <2>3. s[r - (last - Len(s))] = r
      BY <1>1, <2>2
    <2> QED BY <1>1, <2>1, <2>3, PlacesIs
  <1>4. ASSUME s # <<>>
        PROVE  /\ Head(s) = last - Len(s) + 1 /\ Last(s) = last /\ Len(s) >= 1
               /\ Tail(s) \in Seq(Nat) /\ RunsTo(Tail(s), last) /\ Len(Tail(s)) = Len(s) - 1
    <2>1. PICK t : t = Tail(s)
      OBVIOUS
    <2>2. /\ Head(s) = s[1] /\ Len(s) >= 1 /\ t \in Seq(Nat) /\ Len(t) = Len(s) - 1
          /\ \A n \in 1 .. Len(t) : t[n] = s[n + 1]
      BY <1>1, <1>4, <2>1, TailIs
    <2>3. s[1] = last - Len(s) + 1 /\ s[Len(s)] = last
      BY <1>1, <2>2 DEF RunsTo
    <2>4. Last(s) = last
      BY <2>3 DEF Last
    <2>5. ASSUME NEW n \in 1 .. Len(t) PROVE t[n] = last - Len(t) + n
      <3>1. n + 1 \in 1 .. Len(s)
        BY <1>1, <2>2
      <3>2. s[n + 1] = last - Len(s) + (n + 1)
        BY <3>1 DEF RunsTo
      <3> QED BY <1>1, <2>2, <3>2
    <2>6. RunsTo(t, last)
      BY <1>1, <2>2, <2>5 DEF RunsTo
    <2> QED BY <2>1, <2>2, <2>3, <2>4, <2>6
  <1>5. Range(s) = last - Len(s) + 1 .. last
    BY <1>2, <1>3
  <1> QED BY <1>1, <1>4, <1>5

LEMMA NoRun ==
  ASSUME NEW last \in Nat
  PROVE  RunsTo(<<>>, last)
  BY NothingIs DEF RunsTo

LEMMA RunGrows ==
  ASSUME NEW last \in Nat, NEW s, RunsTo(s, last)
  PROVE  /\ RunsTo(Append(s, last + 1), last + 1)
         /\ Range(Append(s, last + 1)) = Range(s) \cup {last + 1}
  <1>1. s \in Seq(Nat) /\ Len(s) \in Nat /\ Len(s) <= last
    BY IdsIs
  <1>2. PICK t : t = Append(s, last + 1)
    OBVIOUS
  <1>3. /\ t \in Seq(Nat) /\ Len(t) = Len(s) + 1 /\ Range(t) = Range(s) \cup {last + 1}
        /\ \A n \in 1 .. Len(s) : t[n] = s[n]
        /\ t[Len(s) + 1] = last + 1
    <2>1. last + 1 \in Nat
      OBVIOUS
    <2> QED BY <1>1, <1>2, <2>1, GrownIs
  <1>4. ASSUME NEW n \in 1 .. Len(t) PROVE t[n] = (last + 1) - Len(t) + n
    <2>1. CASE n \in 1 .. Len(s)
      <3>1. t[n] = last - Len(s) + n
        BY <1>3, <2>1 DEF RunsTo
      <3> QED BY <1>1, <1>3, <3>1
    <2>2. CASE n = Len(s) + 1
      BY <1>1, <1>3, <2>2
    <2> QED BY <1>1, <1>3, <2>1, <2>2
  <1>5. RunsTo(t, last + 1)
    <2>1. t \in Seq(Nat) /\ Len(t) <= last + 1
      BY <1>1, <1>3
    <2> QED BY <1>4, <2>1 DEF RunsTo
  <1> QED BY <1>2, <1>3, <1>5

\* What leaves at the head is what is older than h.
LEMMA FromIs ==
  ASSUME NEW last \in Nat, NEW s, RunsTo(s, last), NEW h \in Nat, NEW P,
         P = {n \in DOMAIN s : s[n] >= h}
  PROVE  /\ RunsTo(From(s, P), last)
         /\ Range(From(s, P)) = {r \in Range(s) : r >= h}
  <1>1. s \in Seq(Nat) /\ Len(s) \in Nat /\ Len(s) <= last /\ DOMAIN s = 1 .. Len(s)
    BY IdsIs, PlacesIs
  <1>2. P \subseteq 1 .. Len(s) /\ P \subseteq Nat
    BY <1>1
  <1>3. CASE P = {}
    <2>1. From(s, P) = <<>>
      BY <1>3 DEF From
    <2>2. ASSUME NEW r \in Range(s), r >= h PROVE FALSE
      <3>1. PICK n \in 1 .. Len(s) : r = s[n]
        BY <1>1, PlacesIs
      <3>2. n \in P
        BY <1>1, <2>2, <3>1
      <3> QED BY <1>3, <3>2
    <2> QED BY <2>1, <2>2, NothingIs, NoRun
  <1>4. CASE P # {}
    <2>1. PICK n : n = CHOOSE x \in P : \A m \in P : x <= m
      OBVIOUS
    <2>2. n \in P /\ \A m \in P : n <= m
      BY <1>2, <1>4, <2>1, LeastIs
    <2>3. PICK t : t = SubSeq(s, n, Len(s))
      OBVIOUS
    <2>4. From(s, P) = t
      BY <1>4, <2>1, <2>3 DEF From
    <2>5. \A i \in n .. Len(s) : s[i] \in Nat
      <3>1. \A i \in n .. Len(s) : i \in 1 .. Len(s)
        BY <1>1, <1>2, <2>2
      <3> QED BY <1>1, <3>1, PlacesIs
    <2>6. /\ t \in Seq(Nat) /\ Len(t) = Len(s) - n + 1
          /\ \A i \in 1 .. Len(s) - n + 1 : t[i] = s[n + i - 1]
      BY <1>1, <1>2, <2>2, <2>3, <2>5, SubSeqProperties
    <2>7. ASSUME NEW i \in 1 .. Len(t) PROVE t[i] = last - Len(t) + i
      <3>1. n + i - 1 \in 1 .. Len(s)
        BY <1>1, <1>2, <2>2, <2>6
      <3>2. s[n + i - 1] = last - Len(s) + (n + i - 1)
        BY <3>1 DEF RunsTo
      <3>3. i \in 1 .. Len(s) - n + 1 /\ n \in Nat
        BY <1>2, <2>2, <2>6
      <3>4. t[i] = s[n + i - 1]
        BY <2>6, <3>3
      <3> QED BY <1>1, <2>6, <3>2, <3>3, <3>4
    <2>8. RunsTo(t, last)
      BY <1>1, <1>2, <2>2, <2>6, <2>7 DEF RunsTo
    <2>9. Range(t) = last - Len(t) + 1 .. last
      BY <2>8, IdsIs
    <2>10. Range(s) = last - Len(s) + 1 .. last
      BY IdsIs
    <2>11. last - Len(t) + 1 = last - Len(s) + n /\ last - Len(s) + n = s[n] /\ s[n] >= h
      BY <1>1, <1>2, <2>2, <2>6 DEF RunsTo
    <2>12. ASSUME NEW r \in Range(s), r >= h PROVE r >= last - Len(s) + n
      <3>1. r - (last - Len(s)) \in 1 .. Len(s)
        BY <1>1, <2>10
      <3>2. s[r - (last - Len(s))] = last - Len(s) + (r - (last - Len(s)))
        BY <3>1 DEF RunsTo
      <3>3. r - (last - Len(s)) \in P
        BY <1>1, <2>10, <2>12, <3>1, <3>2
      <3>4. n <= r - (last - Len(s)) /\ n \in Nat /\ r \in Nat
        BY <1>1, <1>2, <2>2, <2>10, <3>3
      <3> QED BY <1>1, <3>4
    <2>13. ASSUME NEW r \in Range(s), r >= h PROVE r \in Range(t)
      BY <1>1, <1>2, <2>2, <2>9, <2>10, <2>11, <2>12, <2>13
    <2>14. ASSUME NEW r \in Range(t) PROVE r \in Range(s) /\ r >= h
      <3>1. r \in Int /\ r >= last - Len(s) + n /\ r <= last
        BY <1>1, <2>6, <2>9, <2>11
      <3>2. n >= 1 /\ n \in Nat /\ last - Len(s) + n >= h
        BY <1>2, <2>2, <2>11, <1>1
      <3> QED BY <1>1, <2>10, <3>1, <3>2
    <2> QED BY <2>4, <2>8, <2>13, <2>14
  <1> QED BY <1>3, <1>4

\* _prune: what is left is the end of the ring, inside the window.
LEMMA PrunedIs ==
  ASSUME SignalTypes, NEW last \in Nat, NEW s, RunsTo(s, last)
  PROVE  /\ RunsTo(Pruned(s), last)
         /\ Range(Pruned(s)) = {r \in Range(s) : r >= horizon}
  <1>1. horizon \in Nat
    BY DEF SignalTypes
  <1> QED BY <1>1, FromIs DEF Pruned

\* get_replay: everything newer than the id asked for, unless that is refused.
LEMMA ReplayIs ==
  ASSUME NEW top \in Nat, NEW s, RunsTo(s, top), NEW last \in Nat
  PROVE  /\ RunsTo(Replay(s, last), top)
         /\ \/ Replay(s, last) = <<>> /\ (last = NoId \/ s = <<>> \/ StaleId(s, last))
            \/ /\ last # NoId /\ ~StaleId(s, last)
               /\ Range(Replay(s, last)) = {r \in Range(s) : r > last}
  <1>1. CASE last = NoId \/ s = <<>> \/ StaleId(s, last)
    <2>1. Replay(s, last) = <<>>
      BY <1>1 DEF Replay
    <2> QED BY <1>1, <2>1, NoRun
  <1>2. CASE ~(last = NoId \/ s = <<>> \/ StaleId(s, last))
    <2>1. s \in Seq(Nat) /\ DOMAIN s = 1 .. Len(s) /\ Range(s) \subseteq Nat
      BY IdsIs, PlacesIs
    <2>2. {n \in DOMAIN s : s[n] > last} = {n \in DOMAIN s : s[n] >= last + 1}
      BY <2>1, PlacesIs
    <2>3. Replay(s, last) = From(s, {n \in DOMAIN s : s[n] >= last + 1})
      BY <1>2, <2>2 DEF Replay
    <2>4. {r \in Range(s) : r > last} = {r \in Range(s) : r >= last + 1}
      BY <2>1
    <2>5. last + 1 \in Nat
      OBVIOUS
    <2> QED BY <1>2, <2>3, <2>4, <2>5, FromIs
  <1> QED BY <1>1, <1>2

-------------------------------------------------------------------------------
(* The batch: insert_record for one record after the other. *)

LEMMA MaxIs ==
  ASSUME NEW n \in Nat, NEW s \in SUBSET (1 .. n), s # {}
  PROVE  Max(s) \in s /\ \A i \in s : i <= Max(s)
  <1>1. PICK m \in s : \A i \in s : i <= m
    <2>1. s \subseteq 0 .. n
      OBVIOUS
    <2> QED BY <2>1, GreatestIs
  <1>2. \A i \in s : m >= i
    BY <1>1
  <1>3. Max(s) \in s /\ \A i \in s : Max(s) >= i
    BY <1>2 DEF Max
  <1>4. \A i \in s : i \in Nat
    OBVIOUS
  <1> QED BY <1>3, <1>4

\* g folds e over every set of places up to n, the last place last.
Folds(g, n, base, e) ==
  g = [s \in SUBSET (1 .. n) |->
         IF s = {} THEN base ELSE InsertRecord(g[s \ {Max(s)}], e[Max(s)])]

LEMMA FoldStarts ==
  ASSUME NEW base, NEW e
  PROVE  \E g : Folds(g, 0, base, e)
  <1> DEFINE g == [s \in SUBSET (1 .. 0) |-> base]
  <1>1. SUBSET (1 .. 0) = {{}}
    OBVIOUS
  <1>2. Folds(g, 0, base, e)
    BY <1>1 DEF Folds
  <1> QED BY <1>2

LEMMA FoldGoesOn ==
  ASSUME NEW n \in Nat, NEW base, NEW e, NEW g, Folds(g, n, base, e)
  PROVE  \E h : Folds(h, n + 1, base, e)
  <1> DEFINE Body(k, s) == IF s = {} THEN base ELSE InsertRecord(k[s \ {Max(s)}], e[Max(s)])
             h == [s \in SUBSET (1 .. n + 1) |->
                     IF n + 1 \in s THEN InsertRecord(g[s \ {n + 1}], e[n + 1]) ELSE g[s]]
  <1>1. \A s \in SUBSET (1 .. n) : g[s] = Body(g, s)
    BY DEF Folds
  <1>2. \A s \in SUBSET (1 .. n + 1) :
          h[s] = IF n + 1 \in s THEN InsertRecord(g[s \ {n + 1}], e[n + 1]) ELSE g[s]
    OBVIOUS
  <1>3. h = [s \in SUBSET (1 .. n + 1) |-> h[s]]
    OBVIOUS
  <1> HIDE DEF h
  <1>4. ASSUME NEW s \in SUBSET (1 .. n + 1) PROVE h[s] = Body(h, s)
    <2>1. CASE n + 1 \in s
      <3>1. s # {} /\ Max(s) \in s /\ \A i \in s : i <= Max(s)
        <4>1. n + 1 \in Nat /\ s # {}
          BY <2>1
        <4> QED BY <4>1, MaxIs
      <3>2. Max(s) = n + 1
        <4>1. Max(s) \in 1 .. n + 1 /\ n + 1 <= Max(s)
          BY <2>1, <3>1
        <4> QED BY <4>1
      <3>3. n + 1 \notin s \ {n + 1} /\ s \ {n + 1} \in SUBSET (1 .. n + 1)
        OBVIOUS
      <3>4. h[s \ {n + 1}] = g[s \ {n + 1}]
        BY <1>2, <3>3
      <3>5. h[s] = InsertRecord(g[s \ {n + 1}], e[n + 1])
        BY <1>2, <2>1
      <3>6. Body(h, s) = InsertRecord(h[s \ {Max(s)}], e[Max(s)])
        BY <3>1
      <3> HIDE DEF Body
      <3>7. h[s \ {Max(s)}] = g[s \ {n + 1}] /\ e[Max(s)] = e[n + 1]
        BY <3>2, <3>4
      <3> QED BY <3>5, <3>6, <3>7
    <2>2. CASE n + 1 \notin s
      <3>1. s \in SUBSET (1 .. n)
        BY <2>2
      <3>2. h[s] = g[s] /\ g[s] = Body(g, s)
        BY <1>1, <1>2, <2>2, <3>1
      <3>3. CASE s = {}
        BY <3>2, <3>3
      <3>4. CASE s # {}
        <4>1. n + 1 \notin s \ {Max(s)} /\ s \ {Max(s)} \in SUBSET (1 .. n + 1)
          BY <2>2
        <4>2. h[s \ {Max(s)}] = g[s \ {Max(s)}]
          BY <1>2, <4>1
        <4>3. /\ Body(h, s) = InsertRecord(h[s \ {Max(s)}], e[Max(s)])
              /\ Body(g, s) = InsertRecord(g[s \ {Max(s)}], e[Max(s)])
          BY <3>4
        <4> HIDE DEF Body
        <4> QED BY <3>2, <4>2, <4>3
      <3> QED BY <3>3, <3>4
    <2> QED BY <2>1, <2>2
  <1>5. h = [s \in SUBSET (1 .. n + 1) |-> Body(h, s)]
    <2> HIDE DEF Body
    <2> QED BY <1>3, <1>4
  <1>6. Folds(h, n + 1, base, e)
    BY <1>5 DEF Folds
  <1> QED BY <1>6

\* The states of the batch, after each of its records.
Chain(a, l, base, e) ==
  /\ a[0] = base
  /\ \A n \in 1 .. l : a[n] = InsertRecord(a[n - 1], e[n])
  /\ InsertAll(base, e) = a[l]

LEMMA FoldIs ==
  ASSUME NEW l \in Nat, NEW e, DOMAIN e = 1 .. l, NEW base
  PROVE  \E a : Chain(a, l, base, e)
  <1> DEFINE Undone == {n \in 0 .. l : ~ \E g : Folds(g, n, base, e)}
  <1>1. Undone = {}
    <2>1. SUFFICES ASSUME Undone # {} PROVE FALSE
      OBVIOUS
    <2>2. PICK n \in Undone : \A m \in Undone : n <= m
      <3>1. Undone \subseteq Nat
        OBVIOUS
      <3> QED BY <2>1, <3>1, LeastIs
    <2>3. n # 0
      BY FoldStarts
    <2>4. n - 1 \in Nat /\ n - 1 \in 0 .. l /\ (n - 1) + 1 = n /\ ~ (n <= n - 1)
      BY <2>3
    <2>5. n - 1 \notin Undone
      BY <2>2, <2>4
    <2>6. PICK g : Folds(g, n - 1, base, e)
      BY <2>4, <2>5
    <2>7. \E h : Folds(h, (n - 1) + 1, base, e)
      BY <2>4, <2>6, FoldGoesOn
    <2> QED BY <2>4, <2>7
  <1>2. \E g : Folds(g, l, base, e)
    <2>1. l \in 0 .. l
      OBVIOUS
    <2>2. l \notin Undone
      <3> HIDE DEF Undone
      <3> QED BY <1>1
    <2> QED BY <2>1, <2>2
  <1> DEFINE f == CHOOSE g : Folds(g, l, base, e)
  <1>3. Folds(f, l, base, e)
    BY <1>2
  <1>4. InsertAll(base, e) = f[1 .. l]
    BY DEF InsertAll, FoldLeft, MapThenFoldSet, Folds
  <1> HIDE DEF f
  <1>5. \A s \in SUBSET (1 .. l) :
          f[s] = IF s = {} THEN base ELSE InsertRecord(f[s \ {Max(s)}], e[Max(s)])
    BY <1>3 DEF Folds
  <1> DEFINE a == [n \in 0 .. l |-> f[1 .. n]]
  <1>6. a[0] = base
    <2>1. 1 .. 0 = {} /\ {} \in SUBSET (1 .. l)
      OBVIOUS
    <2>2. f[{}] = base
      BY <1>5, <2>1
    <2> QED BY <2>1, <2>2
  <1>7. ASSUME NEW n \in 1 .. l PROVE a[n] = InsertRecord(a[n - 1], e[n])
    <2>1. 1 .. n \in SUBSET (1 .. l) /\ 1 .. n # {} /\ n \in 1 .. n
      <3>1. n \in Nat /\ 1 <= n /\ n <= l
        OBVIOUS
      <3>2. n \in 1 .. n
        BY <3>1
      <3>3. 1 .. n \subseteq 1 .. l
        BY <3>1
      <3> QED BY <3>2, <3>3
    <2>2. Max(1 .. n) = n
      <3>1. Max(1 .. n) \in 1 .. n /\ \A i \in 1 .. n : i <= Max(1 .. n)
        BY <2>1, MaxIs
      <3> QED BY <2>1, <3>1
    <2>3. f[1 .. n] = InsertRecord(f[(1 .. n) \ {n}], e[n])
      BY <1>5, <2>1, <2>2
    <2>4. (1 .. n) \ {n} = 1 .. n - 1
      OBVIOUS
    <2>5. a[n] = f[1 .. n] /\ a[n - 1] = f[1 .. n - 1]
      OBVIOUS
    <2> HIDE DEF a
    <2> QED BY <2>3, <2>4, <2>5
  <1>8. a[l] = f[1 .. l]
    OBVIOUS
  <1> HIDE DEF a
  <1>9. Chain(a, l, base, e)
    BY <1>4, <1>6, <1>7, <1>8 DEF Chain
  <1> QED BY <1>9

BatchOK(b, last) ==
  /\ RunsTo(b.ring, last) /\ b.seen \subseteq 1 .. last
  /\ Queued(b.queue, last) /\ b.lost \in BOOLEAN

\* What the records after first up to last do to a batch.
Goes(b, c, first, last) ==
  /\ Range(c.ring) \subseteq Range(b.ring) \cup (first + 1 .. last)
  /\ Range(b.queue) \subseteq Range(c.queue)
  /\ phase # "live" => c.queue = b.queue
  /\ b.lost => c.lost
  /\ phase = "live" /\ ~c.lost => first + 1 .. last \subseteq Range(c.queue)

LEMMA QueuedGrows ==
  ASSUME SignalTypes, NEW last \in Nat, NEW q, Queued(q, last), delivered <= last
  PROVE  /\ Queued(Append(q, last + 1), last + 1) /\ Queued(q, last + 1)
         /\ Range(Append(q, last + 1)) = Range(q) \cup {last + 1}
  <1>1. /\ q \in Seq(Nat) /\ Len(q) \in Nat /\ delivered \in Nat /\ last + 1 \in Nat
        /\ \A n \in 1 .. Len(q) : q[n] \in Nat
    BY PlacesIs DEF Queued, SignalTypes
  <1>2. PICK t : t = Append(q, last + 1)
    OBVIOUS
  <1>3. /\ t \in Seq(Nat) /\ Len(t) = Len(q) + 1 /\ Range(t) = Range(q) \cup {last + 1}
        /\ \A n \in 1 .. Len(q) : t[n] = q[n]
        /\ t[Len(q) + 1] = last + 1
    BY <1>1, <1>2, GrownIs
  <1>4. ASSUME NEW n \in 1 .. Len(t) PROVE n \in 1 .. Len(q) \/ n = Len(q) + 1
    BY <1>1, <1>3
  <1>5. ASSUME NEW n \in 1 .. Len(t) PROVE delivered < t[n] /\ t[n] <= last + 1
    <2>1. CASE n \in 1 .. Len(q)
      <3>1. delivered < q[n] /\ q[n] <= last /\ q[n] \in Nat /\ t[n] = q[n]
        BY <1>1, <1>3, <2>1 DEF Queued
      <3> QED BY <1>1, <3>1
    <2>2. CASE n = Len(q) + 1
      BY <1>1, <1>3, <2>2
    <2> QED BY <1>4, <2>1, <2>2
  <1>6. ASSUME NEW n \in 1 .. Len(t), NEW m \in 1 .. n - 1 PROVE t[m] < t[n]
    <2>1. m \in 1 .. Len(q) /\ t[m] = q[m] /\ q[m] \in Nat /\ q[m] <= last
      <3>1. m \in 1 .. Len(q)
        BY <1>1, <1>3
      <3> QED BY <1>1, <1>3, <3>1 DEF Queued
    <2>2. CASE n \in 1 .. Len(q)
      BY <1>3, <2>1, <2>2 DEF Queued
    <2>3. CASE n = Len(q) + 1
      <3>1. t[n] = last + 1
        BY <1>3, <2>3
      <3> QED BY <2>1, <3>1
    <2> QED BY <1>4, <2>2, <2>3
  <1>7. Queued(t, last + 1)
    BY <1>3, <1>5, <1>6 DEF Queued
  <1>8. \A n \in 1 .. Len(q) : q[n] <= last + 1
    BY <1>1 DEF Queued
  <1> QED BY <1>2, <1>3, <1>7, <1>8 DEF Queued

\* insert_record of the next record.
LEMMA InsertIs ==
  ASSUME SignalTypes, NEW last \in Nat, delivered <= last, NEW s, BatchOK(s, last)
  PROVE  /\ BatchOK(InsertRecord(s, last + 1), last + 1)
         /\ Goes(s, InsertRecord(s, last + 1), last, last + 1)
  <1> DEFINE fresh == Pruned(s.ring)
             alive == SeenAfterPrune(s.ring, s.seen)
             full == Len(fresh) = RingSize
             drops == phase = "live" /\ Len(s.queue) = QueueSize
             ring1 == IF full THEN Tail(fresh) ELSE fresh
             seen1 == (IF full THEN alive \ {Head(fresh)} ELSE alive) \cup {last + 1}
             queue1 == IF phase = "live" /\ ~drops THEN Append(s.queue, last + 1) ELSE s.queue
             t == InsertRecord(s, last + 1)
  <1>1. last + 1 \notin s.seen
    <2>1. s.seen \subseteq 1 .. last /\ last + 1 \notin 1 .. last
      BY DEF BatchOK
    <2> QED BY <2>1
  <1>2. t = [ring |-> Append(ring1, last + 1), seen |-> seen1, queue |-> queue1,
             lost |-> s.lost \/ drops]
    BY <1>1 DEF InsertRecord
  <1>3. /\ t.ring = Append(ring1, last + 1) /\ t.seen = seen1 /\ t.queue = queue1
        /\ t.lost = (s.lost \/ drops)
    <2> HIDE DEF ring1, seen1, queue1, drops, t
    <2> QED BY <1>2
  <1>4. RunsTo(ring1, last) /\ Range(ring1) \subseteq Range(s.ring)
    <2>1. RunsTo(fresh, last) /\ Range(fresh) \subseteq Range(s.ring)
      BY PrunedIs DEF BatchOK
    <2> HIDE DEF fresh
    <2>2. CASE full
      <3>1. fresh # <<>>
        BY <2>2, NothingIs
      <3>2. fresh \in Seq(Nat)
        BY <2>1, IdsIs
      <3> QED BY <2>1, <2>2, <3>1, <3>2, IdsIs, TailIs
    <2> QED BY <2>1, <2>2
  <1>5. seen1 \subseteq 1 .. last + 1
    <2>1. s.seen \subseteq 1 .. last
      BY DEF BatchOK
    <2>2. seen1 \subseteq s.seen \cup {last + 1}
      BY DEF SeenAfterPrune
    <2> HIDE DEF seen1
    <2> QED BY <2>1, <2>2
  <1>6. /\ Queued(queue1, last + 1) /\ Range(s.queue) \subseteq Range(queue1)
        /\ phase # "live" => queue1 = s.queue
        /\ phase = "live" /\ ~drops => last + 1 \in Range(queue1)
    <2>1. /\ Queued(Append(s.queue, last + 1), last + 1) /\ Queued(s.queue, last + 1)
          /\ Range(Append(s.queue, last + 1)) = Range(s.queue) \cup {last + 1}
      BY QueuedGrows DEF BatchOK
    <2> QED BY <2>1
  <1> HIDE DEF ring1, seen1, queue1, t
  <1>7. RunsTo(t.ring, last + 1) /\ Range(t.ring) = Range(ring1) \cup {last + 1}
    BY <1>3, <1>4, RunGrows
  <1>8. s.lost \in BOOLEAN /\ t.lost \in BOOLEAN /\ (t.lost <=> s.lost \/ drops)
    BY <1>3 DEF BatchOK
  <1> HIDE DEF drops
  <1>9. BatchOK(t, last + 1)
    BY <1>3, <1>5, <1>6, <1>7, <1>8 DEF BatchOK
  <1>10. last + 1 .. last + 1 = {last + 1}
    OBVIOUS
  <1>11. Goes(s, t, last, last + 1)
    BY <1>3, <1>4, <1>6, <1>7, <1>8, <1>10 DEF Goes
  <1> QED BY <1>9, <1>11 DEF t

\* All records of a reply.
LEMMA BatchIs ==
  ASSUME SignalTypes, NEW r \in Nat, delivered <= r, NEW l \in Nat,
         NEW base, BatchOK(base, r), NEW e, e = [n \in 1 .. l |-> r + n]
  PROVE  /\ BatchOK(InsertAll(base, e), r + l)
         /\ Goes(base, InsertAll(base, e), r, r + l)
  <1>0. PICK a : Chain(a, l, base, e)
    <2>1. DOMAIN e = 1 .. l
      OBVIOUS
    <2> QED BY <2>1, FoldIs
  <1>1. /\ a[0] = base
        /\ \A n \in 1 .. l : a[n] = InsertRecord(a[n - 1], e[n])
        /\ InsertAll(base, e) = a[l]
    BY <1>0 DEF Chain
  <1> DEFINE Done(n) == BatchOK(a[n], r + n) /\ Goes(base, a[n], r, r + n)
             Undone == {n \in 0 .. l : ~ Done(n)}
  <1>2. Done(0)
    <2>1. r + 0 = r /\ r + 1 .. r = {}
      OBVIOUS
    <2> QED BY <1>1, <2>1 DEF Goes
  <1>3. ASSUME NEW n \in 1 .. l, Done(n - 1) PROVE Done(n)
    <2> DEFINE last == r + (n - 1)
               b == a[n - 1]
               c == a[n]
    <2>1. last \in Nat /\ delivered <= last /\ last + 1 = r + n
      BY DEF SignalTypes
    <2>2. c = InsertRecord(b, last + 1)
      BY <1>1, <2>1
    <2>3. BatchOK(b, last) /\ Goes(base, b, r, last)
      BY <1>3
    <2> HIDE DEF last, b, c
    <2>4. BatchOK(c, last + 1) /\ Goes(b, c, last, last + 1)
      BY <2>1, <2>2, <2>3, InsertIs
    <2>5. r + 1 .. last + 1 = (r + 1 .. last) \cup {last + 1} /\ last + 1 .. last + 1 = {last + 1}
      BY DEF last
    <2>6. b.lost \in BOOLEAN /\ c.lost \in BOOLEAN
      BY <2>3, <2>4 DEF BatchOK
    <2>7. Goes(base, c, r, last + 1)
      BY <2>3, <2>4, <2>5, <2>6 DEF Goes
    <2> QED BY <2>1, <2>4, <2>7 DEF c
  <1>4. Undone = {}
    <2>1. SUFFICES ASSUME Undone # {} PROVE FALSE
      OBVIOUS
    <2>2. PICK n \in Undone : \A m \in Undone : n <= m
      <3>1. Undone \subseteq Nat
        OBVIOUS
      <3> HIDE DEF Undone
      <3> QED BY <2>1, <3>1, LeastIs
    <2>3. n \in 0 .. l /\ ~Done(n)
      OBVIOUS
    <2>4. n # 0
      BY <1>2, <2>3
    <2>5. n \in 1 .. l /\ n - 1 \in 0 .. l /\ ~ (n <= n - 1)
      BY <2>3, <2>4
    <2>6. n - 1 \notin Undone
      BY <2>2, <2>5
    <2>7. Done(n - 1)
      BY <2>5, <2>6
    <2> HIDE DEF Done
    <2> QED BY <1>3, <2>3, <2>5, <2>7
  <1>5. Done(l)
    <2>1. l \in 0 .. l
      OBVIOUS
    <2>2. l \notin Undone
      <3> HIDE DEF Undone
      <3> QED BY <1>4
    <2>3. ~(~Done(l))
      <3> HIDE DEF Done
      <3> QED BY <2>1, <2>2
    <2> QED BY <2>3
  <1> QED BY <1>1, <1>5

-------------------------------------------------------------------------------
(* The newest ids. *)

LEMMA FewerAbove ==
  ASSUME NEW b \in Nat, NEW S, S \subseteq 0 .. b, NEW T, T \subseteq S
  PROVE  /\ IsFiniteSet(S) /\ IsFiniteSet(T) /\ Cardinality(S) \in Nat /\ Cardinality(T) \in Nat
         /\ Cardinality(T) <= Cardinality(S)
  <1>1. IsFiniteSet(0 .. b)
    BY FS_Interval
  <1>2. IsFiniteSet(S)
    BY <1>1, FS_Subset
  <1> QED BY <1>2, FS_Subset, FS_CardinalityType

\* The newest k, or all of them.
LEMMA TopIs ==
  ASSUME NEW b \in Nat, NEW S, S \subseteq 0 .. b, NEW k \in Nat
  PROVE  /\ NewestIn(S, k) \subseteq S
         /\ NewestIn(S, k) = S \/ Cardinality(NewestIn(S, k)) >= k
         /\ \A i \in NewestIn(S, k) : \A j \in S : j >= i => j \in NewestIn(S, k)
  <1> DEFINE T == NewestIn(S, k)
  <1>0. T \subseteq S /\ \A i \in S : i \in T <=> Cardinality(Above(S, i)) < k
    BY DEF NewestIn, Above
  <1>1. \A i : Above(S, i) \subseteq S
    BY DEF Above
  <1> HIDE DEF T
  <1>2. ASSUME NEW i \in T, NEW j \in S, j >= i PROVE j \in T
    <2>1. Above(S, j) \subseteq Above(S, i) /\ Above(S, i) \subseteq 0 .. b
      <3>1. \A x \in S : x > j => x > i
        BY <1>0, <1>2
      <3> QED BY <1>1, <3>1 DEF Above
    <2>2. /\ Cardinality(Above(S, j)) \in Nat /\ Cardinality(Above(S, i)) \in Nat
          /\ Cardinality(Above(S, j)) <= Cardinality(Above(S, i))
      BY <2>1, FewerAbove
    <2>3. Cardinality(Above(S, i)) < k
      BY <1>0
    <2>4. Cardinality(Above(S, j)) < k
      BY <2>2, <2>3
    <2> QED BY <1>0, <2>4
  <1>3. CASE T # S
    <2> DEFINE R == S \ T
    <2>1. R # {} /\ R \subseteq 0 .. b
      BY <1>0, <1>3
    <2>2. PICK l \in R : \A m \in R : m <= l
      BY <2>1, GreatestIs
    <2>3. l \in S /\ ~(Cardinality(Above(S, l)) < k)
      BY <1>0
    <2>4. Above(S, l) \subseteq T
      <3> SUFFICES ASSUME NEW i \in S, i > l PROVE i \in T
        BY DEF Above
      <3>1. ~(i <= l)
        BY <2>3
      <3> QED BY <2>2, <3>1
    <2>5. /\ Cardinality(Above(S, l)) \in Nat /\ Cardinality(T) \in Nat
          /\ Cardinality(Above(S, l)) <= Cardinality(T)
      <3>1. T \subseteq 0 .. b
        BY <1>0
      <3> QED BY <2>4, <3>1, FewerAbove
    <2>6. Cardinality(T) >= k
      BY <2>3, <2>5
    <2> QED BY <1>0, <1>2, <2>6 DEF T
  <1> QED BY <1>0, <1>2, <1>3 DEF T

\* Nothing is uncovered when the newest of more ids are kept.
LEMMA CoverStays ==
  ASSUME NEW b \in Nat, NEW V, V \subseteq 0 .. b, NEW F, F \subseteq 0 .. b,
         NEW W, W \subseteq 0 .. b, V \subseteq F \cup W,
         NEW k \in Nat, FeedCap <= k, NEW i \in 0 .. b, Covers(V, i)
  PROVE  Covers(F \cup NewestIn(W, k), i)
  <1> DEFINE N == NewestIn(W, k)
             A == Above(F \cup N, i)
  <1>1. /\ N \subseteq W /\ (N = W \/ Cardinality(N) >= k)
        /\ \A x \in N : \A y \in W : y >= x => y \in N
    BY TopIs
  <1> HIDE DEF N
  <1>2. /\ A \subseteq 0 .. b /\ Cardinality(A) \in Nat
        /\ \A T : T \subseteq A => Cardinality(T) \in Nat /\ Cardinality(T) <= Cardinality(A)
    <2>1. A \subseteq 0 .. b
      BY <1>1 DEF Above
    <2> QED BY <2>1, FewerAbove
  <1>3. CASE \E x \in N : x <= i
    <2>1. PICK x \in N : x <= i
      BY <1>3
    <2>2. \A y \in W : y >= i => y \in N
      BY <1>1, <2>1
    <2>3. CASE i \in V
      BY <2>2, <2>3 DEF N, Covers
    <2>4. CASE Cardinality(Above(V, i)) >= FeedCap
      <3>1. ASSUME NEW j \in Above(V, i) PROVE j \in A
        <4>1. j \in V /\ j > i /\ j \in Nat
          BY <3>1 DEF Above
        <4>2. j \in F \cup N
          BY <2>2, <4>1
        <4> QED BY <4>1, <4>2 DEF Above
      <3>2. Cardinality(Above(V, i)) \in Nat /\ Cardinality(Above(V, i)) <= Cardinality(A)
        BY <1>2, <3>1
      <3>3. Cardinality(A) >= FeedCap
        BY <1>2, <2>4, <3>2
      <3> QED BY <3>3 DEF N, Covers
    <2> QED BY <2>3, <2>4 DEF Covers
  <1>4. CASE ~ \E x \in N : x <= i
    <2>1. N \subseteq A
      BY <1>1, <1>4 DEF Above
    <2>2. CASE N = W
      <3>1. CASE i \in V
        BY <2>2, <3>1 DEF N, Covers
      <3>2. CASE Cardinality(Above(V, i)) >= FeedCap
        <4>1. Above(V, i) \subseteq A
          BY <2>2 DEF Above
        <4>2. Cardinality(Above(V, i)) \in Nat /\ Cardinality(Above(V, i)) <= Cardinality(A)
          BY <1>2, <4>1
        <4>3. Cardinality(A) >= FeedCap
          BY <1>2, <3>2, <4>2
        <4> QED BY <4>3 DEF N, Covers
      <3> QED BY <3>1, <3>2 DEF Covers
    <2>3. CASE Cardinality(N) >= k
      <3>1. Cardinality(N) \in Nat /\ Cardinality(N) <= Cardinality(A)
        BY <1>2, <2>1
      <3>2. Cardinality(A) >= FeedCap
        BY <1>2, <2>3, <3>1
      <3> QED BY <3>2 DEF N, Covers
    <2> QED BY <1>1, <2>2, <2>3
  <1> QED BY <1>3, <1>4

\* The feed: what is published covers all it was chosen from.
LEMMA NewestCover ==
  ASSUME NEW b \in Nat, NEW V, V \subseteq 0 .. b, NEW W, W \subseteq 0 .. b, V \subseteq W,
         NEW i \in 0 .. b, Covers(V, i)
  PROVE  Covers(NewestIn(W, FeedCap), i)
  <1>1. {} \subseteq 0 .. b /\ V \subseteq {} \cup W /\ FeedCap \in Nat /\ FeedCap <= FeedCap
    OBVIOUS
  <1>2. Covers({} \cup NewestIn(W, FeedCap), i)
    BY <1>1, CoverStays
  <1>3. {} \cup NewestIn(W, FeedCap) = NewestIn(W, FeedCap)
    OBVIOUS
  <1> QED BY <1>2, <1>3

LEMMA NewestIs ==
  ASSUME NEW b \in Nat, NEW S, S \subseteq 0 .. b
  PROVE  /\ Newest(S) \in 0 .. b /\ \A i \in S : i <= Newest(S)
         /\ S # {} => Newest(S) \in S
         /\ S = {} => Newest(S) = 0
  <1>1. CASE S = {}
    BY <1>1 DEF Newest
  <1>2. CASE S # {}
    <2>1. \E n \in S : \A m \in S : m <= n
      BY <1>2, GreatestIs
    <2>2. Newest(S) = CHOOSE n \in S : \A m \in S : m <= n
      BY <1>2 DEF Newest
    <2> QED BY <1>2, <2>1, <2>2
  <1> QED BY <1>1, <1>2

\* The remembered ids are shown: for each place there is an id with that many newer ones.
LEMMA DescendingIs ==
  ASSUME NEW b \in Nat, NEW S, S \subseteq 0 .. b
  PROVE  /\ Descending(S) \in Seq(Nat) /\ Len(Descending(S)) = Cardinality(S)
         /\ \A n \in 1 .. Len(Descending(S)) : Descending(S)[n] \in S
  <1>1. Cardinality(S) \in Nat
    BY FewerAbove
  <1>2. ASSUME NEW n \in 1 .. Cardinality(S)
        PROVE  \E i \in S : Cardinality(Above(S, i)) = n - 1
    <2> DEFINE T == NewestIn(S, n)
    <2>1. /\ T \subseteq S /\ (T = S \/ Cardinality(T) >= n)
          /\ \A x \in T : \A y \in S : y >= x => y \in T
          /\ \A x \in S : x \in T <=> Cardinality(Above(S, x)) < n
      <3>1. \A x \in S : x \in T <=> Cardinality(Above(S, x)) < n
        BY DEF NewestIn, Above
      <3>2. n \in Nat
        OBVIOUS
      <3> HIDE DEF T
      <3>3. /\ T \subseteq S /\ (T = S \/ Cardinality(T) >= n)
            /\ \A x \in T : \A y \in S : y >= x => y \in T
        BY <3>2, TopIs DEF T
      <3> QED BY <3>1, <3>3
    <2> HIDE DEF T
    <2>2. IsFiniteSet(T) /\ Cardinality(T) \in Nat /\ Cardinality(T) >= n
      <3>1. IsFiniteSet(T) /\ Cardinality(T) \in Nat
        BY <2>1, FewerAbove
      <3>2. n <= Cardinality(S) /\ n \in Nat
        BY <1>1
      <3> QED BY <1>1, <2>1, <3>1, <3>2
    <2>3. T # {}
      BY <2>2, FS_EmptySet
    <2>4. PICK i \in T : \A x \in T : i <= x
      <3>1. T \subseteq Nat
        BY <2>1
      <3> QED BY <2>3, <3>1, LeastIs
    <2>5. Above(S, i) = T \ {i}
      <3>1. ASSUME NEW x \in Above(S, i) PROVE x \in T \ {i}
        BY <2>1, <3>1 DEF Above
      <3>2. ASSUME NEW x \in T \ {i} PROVE x \in Above(S, i)
        <4>1. x \in Nat /\ i \in Nat /\ i <= x /\ x # i /\ x \in S
          BY <2>1, <2>4, <3>2
        <4> QED BY <4>1 DEF Above
      <3> QED BY <3>1, <3>2
    <2>6. Cardinality(Above(S, i)) = Cardinality(T) - 1
      BY <2>2, <2>5, FS_RemoveElement
    <2>7. Cardinality(Above(S, i)) < n /\ i \in S
      BY <2>1
    <2>8. Cardinality(Above(S, i)) = n - 1
      BY <2>2, <2>6, <2>7
    <2> QED BY <2>7, <2>8
  <1> DEFINE d == Descending(S)
  <1>3. /\ d = [n \in 1 .. Cardinality(S) |-> d[n]]
        /\ \A n \in 1 .. Cardinality(S) :
             d[n] = CHOOSE i \in S : Cardinality(Above(S, i)) = n - 1
    <2>1. d = [n \in 1 .. Cardinality(S) |-> CHOOSE i \in S : Cardinality(Above(S, i)) = n - 1]
      BY DEF Descending, Above
    <2> HIDE DEF d
    <2> QED BY <2>1
  <1> HIDE DEF d
  <1>4. \A n \in 1 .. Cardinality(S) : d[n] \in S
    BY <1>2, <1>3
  <1>8. S \subseteq Nat
    OBVIOUS
  <1>5. ASSUME NEW n \in 1 .. Cardinality(S) PROVE d[n] \in Nat
    <2>1. d[n] \in S
      BY <1>4
    <2> HIDE <1>1
    <2> QED BY <1>8, <2>1
  <1>6. d \in [1 .. Cardinality(S) -> Nat]
    BY <1>3, <1>5
  <1>7. d \in Seq(Nat) /\ Len(d) = Cardinality(S)
    BY <1>1, <1>6
  <1> QED BY <1>4, <1>7 DEF d

LEMMA RebuiltIs ==
  ASSUME NEW b \in Nat, NEW S, S \subseteq 0 .. b
  PROVE  Rebuilt(S) \in Seq(Nat) /\ Range(Rebuilt(S)) \subseteq NewestIn(S, FeedCap)
  <1> DEFINE T == NewestIn(S, FeedCap)
             shown == Descending(T)
  <1>1. T \subseteq 0 .. b
    <2>1. FeedCap \in Nat
      OBVIOUS
    <2>2. T \subseteq S
      BY <2>1, TopIs
    <2> QED BY <2>2
  <1> HIDE DEF T
  <1>2. shown \in Seq(Nat) /\ \A n \in 1 .. Len(shown) : shown[n] \in T
    BY <1>1, DescendingIs
  <1> HIDE DEF shown
  <1>3. Len(shown) \in Nat
    BY <1>2, PlacesIs
  <1>4. CASE Len(shown) <= DedupeCap
    <2>1. Rebuilt(S) = shown
      BY <1>4 DEF Rebuilt, shown, T
    <2>2. Range(shown) \subseteq T
      BY <1>2, PlacesIs
    <2> QED BY <1>2, <2>1, <2>2 DEF T
  <1>5. CASE ~(Len(shown) <= DedupeCap)
    <2> DEFINE m == Len(shown) - DedupeCap + 1
               t == SubSeq(shown, m, Len(shown))
    <2>1. Rebuilt(S) = t
      BY <1>5 DEF Rebuilt, shown, T
    <2>2. m \in Nat /\ m >= 1 /\ m <= Len(shown)
      BY <1>3, <1>5
    <2> HIDE DEF m
    <2>3. \A n \in m .. Len(shown) : shown[n] \in Nat
      <3>1. \A n \in m .. Len(shown) : n \in 1 .. Len(shown)
        BY <1>3, <2>2
      <3> QED BY <1>2, <3>1, PlacesIs
    <2>4. /\ t \in Seq(Nat) /\ Len(t) = Len(shown) - m + 1
          /\ \A n \in 1 .. Len(shown) - m + 1 : t[n] = shown[m + n - 1]
      BY <1>2, <1>3, <2>2, <2>3, SubSeqProperties
    <2> HIDE DEF t
    <2>5. ASSUME NEW e \in Range(t) PROVE e \in T
      <3>1. PICK n \in 1 .. Len(t) : e = t[n]
        BY <2>4, PlacesIs
      <3>2. m + n - 1 \in 1 .. Len(shown)
        BY <1>3, <2>2, <2>4
      <3> QED BY <1>2, <2>4, <3>1, <3>2
    <2> QED BY <2>1, <2>4, <2>5 DEF T
  <1> QED BY <1>4, <1>5

-------------------------------------------------------------------------------
(* What every step needs of the invariant. *)

LEMMA EdgeIs ==
  ASSUME SignalTypes, RingInv
  PROVE  /\ Edge \in Nat /\ Edge <= added /\ added \in Nat /\ MaxRecords \in Nat
         /\ reading # NoRead => Edge = reading
         /\ cursor # NoId => Edge = cursor
         /\ cursor = NoId /\ reading = NoRead => Edge = added
  BY DEF SignalTypes, RingInv, Edge

LEMMA KnownIs ==
  ASSUME SignalTypes, RingInv, KnownInv
  PROVE  /\ Edge \in Nat /\ lastId \in 0 .. Edge /\ url \in 0 .. Edge /\ delivered \in 0 .. Edge
         /\ items \subseteq 0 .. Edge /\ fetch.ids \subseteq 0 .. Edge
         /\ resetBuffer \subseteq 0 .. Edge /\ Range(ring) \subseteq 1 .. Edge
         /\ Range(ring) \subseteq 0 .. Edge
  <1>1. Edge \in Nat /\ RunsTo(ring, Edge)
    BY EdgeIs DEF RingInv
  <1>2. Len(ring) \in Nat /\ Len(ring) <= Edge /\ Range(ring) = Edge - Len(ring) + 1 .. Edge
    BY <1>1, IdsIs
  <1>3. Range(ring) \subseteq 1 .. Edge
    BY <1>1, <1>2
  <1>4. lastId \in 0 .. Edge /\ url \in 0 .. Edge /\ delivered \in 0 .. Edge
    BY <1>1 DEF SignalTypes, KnownInv
  <1>5. resetBuffer \subseteq 0 .. Edge
    BY <1>1, <1>4 DEF KnownInv, NoBuffer
  <1>6. items \subseteq 0 .. Edge /\ fetch.ids \subseteq 0 .. Edge
    BY <1>1, <1>4 DEF KnownInv
  <1>7. Range(ring) \subseteq 0 .. Edge
    BY <1>1, <1>3
  <1> QED BY <1>1, <1>3, <1>4, <1>5, <1>6, <1>7

\* More ids cover no less.
LEMMA CoverGrows ==
  ASSUME NEW b \in Nat, NEW V, NEW W, V \subseteq W, W \subseteq 0 .. b, NEW i, Covers(V, i)
  PROVE  Covers(W, i)
  <1>1. Above(V, i) \subseteq Above(W, i) /\ Above(W, i) \subseteq 0 .. b
    BY DEF Above
  <1>2. /\ Cardinality(Above(V, i)) \in Nat /\ Cardinality(Above(W, i)) \in Nat
        /\ Cardinality(Above(V, i)) <= Cardinality(Above(W, i))
    BY <1>1, FewerAbove
  <1>3. CASE Cardinality(Above(V, i)) >= FeedCap
    <2>1. Cardinality(Above(W, i)) >= FeedCap
      BY <1>2, <1>3
    <2> QED BY <2>1 DEF Covers
  <1>4. CASE i \in V
    BY <1>4 DEF Covers
  <1> QED BY <1>3, <1>4 DEF Covers

\* A failed fetch brings nothing, an answered one is the other way it can land.
LEMMA FetchIs ==
  ASSUME SignalTypes, FetchInv, fetch.at \in {"answered", "failed"}
  PROVE  fetch = FetchFailed \/ (fetch # FetchFailed /\ fetch.at = "answered")
  <1>1. ASSUME fetch.at = "failed" PROVE fetch = FetchFailed
    BY <1>1 DEF SignalTypes, FetchInv, FetchFailed
  <1>2. FetchFailed.at = "failed"
    BY DEF FetchFailed
  <1> QED BY <1>1, <1>2

\* Every frame goes out twice, in the order of the frames.
LEMMA TwiceIs ==
  ASSUME NEW s \in Seq(Nat), \A n \in 1 .. Len(s) : \A m \in 1 .. n : s[m] <= s[n]
  PROVE  /\ Twice(s) \in Seq(Nat) /\ Range(Twice(s)) = Range(s)
         /\ \A n \in 1 .. Len(Twice(s)) : \A m \in 1 .. n : Twice(s)[m] <= Twice(s)[n]
  <1> DEFINE t == Twice(s)
             half(n) == (n + 1) \div 2
  <1>1. Len(s) \in Nat
    BY PlacesIs
  <1>2. \A n \in 1 .. 2 * Len(s) : half(n) \in 1 .. Len(s)
    BY <1>1
  <1>3. /\ t = [n \in 1 .. 2 * Len(s) |-> t[n]]
        /\ \A n \in 1 .. 2 * Len(s) : t[n] = s[half(n)]
    <2>1. t = [n \in 1 .. 2 * Len(s) |-> s[half(n)]]
      BY DEF Twice
    <2> HIDE DEF t, half
    <2> QED BY <2>1
  <1>4. \A n \in 1 .. 2 * Len(s) : \A m \in 1 .. n : half(m) \in 1 .. half(n)
    BY <1>1
  <1>5. \A n \in 1 .. Len(s) : 2 * n \in 1 .. 2 * Len(s) /\ half(2 * n) = n
    BY <1>1
  <1> HIDE DEF t, half
  <1>6. \A n \in 1 .. 2 * Len(s) : t[n] \in Nat
    BY <1>2, <1>3, PlacesIs
  <1>7. t \in Seq(Nat) /\ Len(t) = 2 * Len(s)
    <2>1. 2 * Len(s) \in Nat
      BY <1>1
    <2> DEFINE k == 2 * Len(s)
    <2>2. t \in [1 .. k -> Nat]
      BY <1>3, <1>6
    <2> HIDE DEF k
    <2>3. k \in Nat
      BY <2>1 DEF k
    <2>4. t \in Seq(Nat) /\ Len(t) = k
      BY <2>2, <2>3
    <2> QED BY <2>4 DEF k
  <1>8. ASSUME NEW e \in Range(t) PROVE e \in Range(s)
    <2>1. PICK n \in 1 .. 2 * Len(s) : e = t[n]
      BY <1>7, PlacesIs
    <2> QED BY <1>2, <1>3, <2>1, PlacesIs
  <1>9. ASSUME NEW e \in Range(s) PROVE e \in Range(t)
    <2>1. PICK n \in 1 .. Len(s) : e = s[n]
      BY PlacesIs
    <2>2. 2 * n \in 1 .. 2 * Len(s) /\ t[2 * n] = e
      BY <1>3, <1>5, <2>1
    <2> QED BY <1>7, <2>2, PlacesIs
  <1>10. \A n \in 1 .. 2 * Len(s) : \A m \in 1 .. n : t[m] <= t[n]
    <2> SUFFICES ASSUME NEW n \in 1 .. 2 * Len(s), NEW m \in 1 .. n PROVE t[m] <= t[n]
      OBVIOUS
    <2>1. m \in 1 .. 2 * Len(s)
      BY <1>1
    <2>2. half(m) \in 1 .. half(n) /\ half(n) \in 1 .. Len(s)
      BY <1>2, <1>4
    <2>3. s[half(m)] <= s[half(n)]
      BY <2>2
    <2> QED BY <1>3, <2>1, <2>3
  <1> QED BY <1>7, <1>8, <1>9, <1>10 DEF t

-------------------------------------------------------------------------------
(* The actions of Redis and its consumer. *)

\* A step of the consumer alone: what is new in the ring is queued or counted as missed.
OnlyRing ==
  /\ viewVars' = viewVars /\ delivered' = delivered /\ wire' = wire /\ phase' = phase
  /\ url' = url /\ Edge <= Edge'
  /\ Queued(queue, Edge)' /\ (phase # "live" => queue' = queue)
  /\ Range(ring') \subseteq Range(ring) \cup (Edge + 1 .. Edge')
  /\ missed => missed'
  /\ phase = "live" /\ ~missed' =>
       /\ Range(queue) \subseteq Range(queue')
       /\ Range(ring') \subseteq Range(ring) \cup Range(queue')

LEMMA EdgeNat == SignalTypes' => Edge' \in Nat
  <1> SUFFICES ASSUME SignalTypes' PROVE Edge' \in Nat
    OBVIOUS
  <1>1. cursor' \in Nat /\ added' \in Nat /\ (reading' \in Nat \/ reading' = NoRead)
    BY DEF SignalTypes
  <1> QED BY <1>1 DEF Edge, NoRead

LEMMA OnlyRingIs ==
  ASSUME FeedInv, SignalTypes', RingInv', OnlyRing
  PROVE  FeedInv'
  <1> USE DEF OnlyRing, viewVars
  <1>1. SignalTypes /\ RingInv /\ KnownInv /\ StreamInv /\ FetchInv /\ ViewInv /\ ConnectInv
        /\ CompleteInv
    BY DEF FeedInv
  <1>2. /\ Edge \in Nat /\ Edge' \in Nat /\ Range(ring) \subseteq 1 .. Edge
        /\ lastId \in 0 .. Edge /\ url \in 0 .. Edge /\ delivered \in 0 .. Edge
        /\ fetch.ids \subseteq 0 .. Edge
    <2>1. Edge' \in Nat
      BY EdgeNat
    <2> QED BY <1>1, <2>1, KnownIs
  <1>3. \A r \in Range(ring') : r <= Edge => r \in Range(ring)
    BY <1>2
  <1>4. \A r \in Range(ring') : r \in Nat /\ (r \in Range(ring) \/ r \in Edge + 1 .. Edge')
    BY <1>2
  <1>5. KnownInv'
    BY <1>1, <1>2 DEF KnownInv, NoBuffer
  <1>6. StreamInv'
    BY <1>1 DEF StreamInv
  <1>7. FetchInv'
    <2>1. \A i \in fetch.ids : \A r \in Range(ring') : r <= i => Covers(fetch.ids, r)
      <3> SUFFICES ASSUME NEW i \in fetch.ids, NEW r \in Range(ring'), r <= i
                   PROVE  Covers(fetch.ids, r)
        OBVIOUS
      <3>1. r \in Range(ring)
        BY <1>2, <1>3, <1>4
      <3> QED BY <1>1, <3>1 DEF FetchInv
    <2>2. fetch' = fetch /\ items' = items /\ dedupe' = dedupe /\ lastId' = lastId
          /\ resetBuffer' = resetBuffer
      OBVIOUS
    <2> QED BY <1>1, <2>1, <2>2 DEF FetchInv, NoBuffer
  <1>8. ViewInv'
    BY <1>1 DEF ViewInv, NoBuffer
  <1>9. ConnectInv'
    <2>1. phase = "connecting" =>
            \A r \in Range(ring') : url < r /\ r <= lastId
                                      => resetBuffer = NoBuffer /\ Covers(items, r)
      <3> SUFFICES ASSUME phase = "connecting", NEW r \in Range(ring'), url < r, r <= lastId
                   PROVE  resetBuffer = NoBuffer /\ Covers(items, r)
        OBVIOUS
      <3>1. r \in Range(ring)
        BY <1>2, <1>3, <1>4
      <3> QED BY <1>1, <3>1 DEF ConnectInv
    <2> QED BY <2>1 DEF ConnectInv, NoBuffer
  <1>10. CompleteInv'
    <2> SUFFICES ASSUME ~missed', phase # "hydrating" PROVE CompleteInv'
      BY DEF CompleteInv
    <2>1. ~missed
      OBVIOUS
    <2>2. \A r : Held(r)' <=> Held(r)
      BY DEF Held, NoBuffer
    <2>3. ASSUME NEW r \in Range(ring'), r <= lastId PROVE Held(r)
      <3>1. r \in Range(ring)
        BY <1>2, <1>3, <1>4, <2>3
      <3> QED BY <1>1, <2>1, <2>3, <3>1 DEF CompleteInv
    <2>4. ASSUME phase = "live", NEW r \in Range(ring')
          PROVE  \/ Held(r) \/ r \in Range(wire) \/ r \in Range(queue')
                 \/ Reset \in Range(wire)
      <3>1. CASE r \in Range(ring)
        <4>1. \/ Held(r) \/ r \in Range(wire) \/ r \in Range(queue)
              \/ Reset \in Range(wire)
          BY <1>1, <2>1, <2>4, <3>1 DEF CompleteInv
        <4> QED BY <2>1, <2>4, <4>1
      <3> QED BY <2>1, <2>4, <3>1
    <2> QED BY <2>2, <2>3, <2>4 DEF CompleteInv, Reset
  <1> QED BY <1>5, <1>6, <1>7, <1>8, <1>9, <1>10 DEF FeedInv

\* Steps that leave the ring alone.
LEMMA ReaderStep ==
  ASSUME FeedInv, RecordAdded \/ WindowMoves \/ PollBegins \/ PollFails
  PROVE  FeedInv'
  <1>1. SignalTypes /\ RingInv /\ StreamInv
    BY DEF FeedInv
  <1>2. /\ UNCHANGED <<ring, seen, connVars, viewVars, missed, cursor>>
        /\ added \in Nat /\ added' \in Nat /\ added <= added'
    BY <1>1 DEF SignalTypes, RecordAdded, WindowMoves, PollBegins, PollFails, redisVars, ringVars
  <1>3. SignalTypes'
    <2>1. added' \in 0 .. MaxRecords
      BY <1>1 DEF SignalTypes, RecordAdded, WindowMoves, PollBegins, PollFails, redisVars
    <2>2. horizon' \in Nat
      BY <1>1 DEF SignalTypes, RecordAdded, WindowMoves, PollBegins, PollFails, redisVars
    <2>3. cursor' \in 0 .. added' /\ reading' \in (0 .. added') \cup {NoRead}
      <3>1. reading' \in {reading, added, cursor, NoRead} /\ added <= added'
        BY <1>2 DEF RecordAdded, WindowMoves, PollBegins, PollFails, ringVars
      <3> QED BY <1>1, <1>2, <3>1 DEF SignalTypes
    <2>4. feedFaults' \in Nat
      BY <1>1 DEF SignalTypes, RecordAdded, WindowMoves, PollBegins, PollFails
    <2> QED BY <1>1, <1>2, <2>1, <2>2, <2>3, <2>4
          DEF SignalTypes, connVars, viewVars, Phases, FetchStates
  <1>4. /\ Edge \in Nat /\ Edge' \in Nat /\ Edge <= Edge'
        /\ cursor # NoId => Edge' = Edge
    <2>1. cursor # NoId => Edge' = Edge
      BY <1>2 DEF Edge
    <2>2. cursor = NoId => Edge <= Edge'
      BY <1>1, <1>2 DEF Edge, SignalTypes, RecordAdded, WindowMoves, PollBegins, PollFails,
                        ringVars, redisVars
    <2>3. Edge \in Nat /\ Edge' \in Nat
      BY <1>1, <1>3, EdgeNat, EdgeIs
    <2> QED BY <2>1, <2>2, <2>3
  <1>5. RingInv'
    <2>1. RunsTo(ring, Edge')
      <3>1. CASE cursor # NoId
        BY <1>1, <1>4, <3>1 DEF RingInv
      <3>2. CASE cursor = NoId
        <4>1. ring = <<>>
          BY <1>1, <3>2 DEF RingInv
        <4> QED BY <1>4, <4>1, NoRun
      <3> QED BY <3>1, <3>2
    <2>2. cursor' # NoId /\ reading' # NoRead => reading' = cursor'
      BY <1>1, <1>2 DEF RingInv, RecordAdded, WindowMoves, PollBegins, PollFails, ringVars
    <2>3. seen \subseteq 1 .. Edge'
      BY <1>1, <1>4 DEF RingInv
    <2> QED BY <1>1, <1>2, <2>1, <2>2, <2>3 DEF RingInv, NoRead
  <1>6. OnlyRing
    <2>1. Queued(queue, Edge)'
      <3>1. \A n \in 1 .. Len(queue) : queue[n] \in Nat
        BY <1>1 DEF SignalTypes
      <3> QED BY <1>1, <1>2, <1>4, <3>1 DEF StreamInv, Queued, connVars
    <2> QED BY <1>2, <1>4, <2>1 DEF OnlyRing, connVars, viewVars
  <1> QED BY <1>3, <1>5, <1>6, OnlyRingIs

\* A reply inserts the records after the one that was read last.
LEMMA ReplyStep ==
  ASSUME FeedInv, PollReturns
  PROVE  FeedInv'
  <1>1. SignalTypes /\ RingInv /\ KnownInv /\ StreamInv
    BY DEF FeedInv
  <1>2. /\ Edge \in Nat /\ Edge = reading /\ Edge <= added /\ added \in Nat
        /\ cursor # NoId => cursor = reading
        /\ lastId \in 0 .. Edge /\ url \in 0 .. Edge /\ delivered \in 0 .. Edge
    BY <1>1, EdgeIs, KnownIs DEF PollReturns, RingInv
  <1> DEFINE l == Min({BatchSize, added - reading})
             e == [n \in 1 .. l |-> reading + n]
             base == [ring |-> ring, seen |-> seen, queue |-> queue, lost |-> FALSE]
             c == InsertAll(base, e)
  <1>3. l \in Nat /\ l <= added - reading
    <2> DEFINE rest == added - reading
    <2>1. rest \in Nat /\ BatchSize \in Nat /\ BatchSize >= 1
      BY <1>2
    <2> HIDE DEF rest
    <2> DEFINE both == {BatchSize, rest}
    <2>4. \E x \in both : \A y \in both : x <= y
      <3>1. BatchSize <= rest \/ rest <= BatchSize
        BY <2>1
      <3> QED BY <2>1, <3>1
    <2>5. l = CHOOSE x \in both : \A y \in both : x <= y
      BY DEF Min, l, rest
    <2> HIDE DEF l
    <2>6. l \in both /\ \A y \in both : l <= y
      <3> HIDE DEF both
      <3> QED BY <2>4, <2>5
    <2>2. l \in {BatchSize, rest} /\ l <= rest
      BY <2>6
    <2>3. l \in Nat
      BY <2>1, <2>2
    <2> QED BY <2>2, <2>3 DEF rest
  <1> HIDE DEF l
  <1>4. BatchOK(base, Edge) /\ base.ring = ring /\ base.queue = queue /\ base.lost = FALSE
    BY <1>1 DEF BatchOK, RingInv, StreamInv
  <1> HIDE DEF base
  <1>5. e = [n \in 1 .. l |-> Edge + n]
    BY <1>2
  <1>6. BatchOK(c, Edge + l) /\ Goes(base, c, Edge, Edge + l)
    <2>1. SignalTypes /\ Edge \in Nat /\ delivered <= Edge /\ l \in Nat /\ BatchOK(base, Edge)
      BY <1>1, <1>2, <1>3, <1>4
    <2> HIDE DEF e
    <2> DEFINE r == Edge
    <2>2. SignalTypes /\ r \in Nat /\ delivered <= r /\ BatchOK(base, r)
          /\ e = [n \in 1 .. l |-> r + n]
      BY <1>5, <2>1
    <2> HIDE DEF r
    <2>3. BatchOK(InsertAll(base, e), r + l) /\ Goes(base, InsertAll(base, e), r, r + l)
      BY <2>1, <2>2, BatchIs
    <2> QED BY <2>3 DEF r
  <1>7. /\ cursor' = IF e = <<>> THEN cursor ELSE Last(e)
        /\ ring' = c.ring /\ seen' = c.seen /\ queue' = c.queue
        /\ missed' = (missed \/ c.lost)
        /\ reading' = NoRead
        /\ UNCHANGED <<redisVars, delivered, wire, phase, url, viewVars, feedFaults>>
    BY DEF PollReturns, l, base
  <1> HIDE DEF c
  <1>8. /\ l = 0 => cursor' = cursor
        /\ l # 0 => cursor' = Edge + l
    <2>1. ASSUME l = 0 PROVE e = <<>>
      BY <1>3, <2>1
    <2>2. ASSUME l # 0 PROVE e # <<>> /\ Last(e) = Edge + l
      <3>1. e \in Seq(Nat) /\ Len(e) = l
        <4>1. e \in [1 .. l -> Nat]
          BY <1>2
        <4> HIDE DEF e
        <4> QED BY <1>3, <4>1
      <3>2. l \in 1 .. l
        BY <1>3, <2>2
      <3>3. e[l] = Edge + l
        BY <1>2, <3>2
      <3> HIDE DEF e
      <3> QED BY <2>2, <3>1, <3>3, NothingIs DEF Last
    <2> HIDE DEF e
    <2> QED BY <1>7, <2>1, <2>2
  <1> HIDE DEF e
  <1>9. /\ ring' \in Seq(Nat) /\ seen' \in SUBSET Nat /\ queue' \in Seq(Nat)
        /\ missed' \in BOOLEAN
    <2>1. missed \in BOOLEAN /\ c.lost \in BOOLEAN
      BY <1>1, <1>6 DEF BatchOK, SignalTypes
    <2>2. c.ring \in Seq(Nat) /\ c.queue \in Seq(Nat) /\ c.seen \subseteq Nat
      BY <1>2, <1>3, <1>6 DEF BatchOK, RunsTo, Queued
    <2>3. missed' \in BOOLEAN
      BY <1>7, <2>1
    <2> QED BY <1>7, <2>2, <2>3
  <1>10. SignalTypes'
    <2>1. cursor' \in 0 .. added'
      BY <1>1, <1>2, <1>3, <1>7, <1>8 DEF SignalTypes, redisVars
    <2> QED BY <1>1, <1>7, <1>9, <2>1
          DEF SignalTypes, redisVars, viewVars, Phases, FetchStates
  <1>11. /\ l # 0 => Edge' = Edge + l
         /\ l = 0 /\ cursor # NoId => Edge' = Edge
         /\ l = 0 /\ cursor = NoId => Edge <= Edge' /\ ring = <<>>
    <2>1. Edge' = IF cursor' # NoId THEN cursor' ELSE added
      BY <1>7 DEF Edge, NoRead, redisVars
    <2>2. l # 0 => Edge + l # NoId
      BY <1>2, <1>3
    <2>3. cursor = NoId => ring = <<>>
      BY <1>1 DEF RingInv
    <2> QED BY <1>2, <1>8, <2>1, <2>2, <2>3
  <1>12. /\ Edge' \in Nat /\ Edge <= Edge' /\ Edge + l <= Edge'
         /\ RunsTo(ring', Edge')
    <2>1. Edge' \in Nat
      BY <1>10, EdgeNat
    <2>2. CASE l # 0 \/ cursor # NoId
      <3>1. Edge' = Edge + l
        BY <1>2, <1>11, <2>2
      <3> QED BY <1>2, <1>3, <1>6, <1>7, <2>1, <3>1 DEF BatchOK
    <2>3. CASE l = 0 /\ cursor = NoId
      <3>1. Edge <= Edge' /\ ring = <<>> /\ Edge + l = Edge
        BY <1>2, <1>11, <2>3
      <3>2. Range(c.ring) \subseteq {}
        <4>1. Edge + 1 .. Edge + l = {}
          BY <1>2, <3>1
        <4> QED BY <1>4, <1>6, <3>1, <4>1, NothingIs DEF Goes
      <3>3. ring' = <<>>
        <4>1. \A n \in 1 .. Len(ring') : ring'[n] \in Range(ring')
          BY <1>9, PlacesIs
        <4>2. Len(ring') \in Nat
          BY <1>9, PlacesIs
        <4>3. Len(ring') = 0
          <5>1. ~(1 \in 1 .. Len(ring'))
            BY <1>7, <3>2, <4>1
          <5> QED BY <4>2, <5>1
        <4> QED BY <1>9, <4>3, EmptySeq
      <3> QED BY <2>1, <3>1, <3>3, NoRun
    <2> QED BY <2>2, <2>3
  <1>13. RingInv'
    <2>1. seen' \subseteq 1 .. Edge'
      <3>1. c.seen \subseteq 1 .. Edge + l
        BY <1>6 DEF BatchOK
      <3> QED BY <1>2, <1>3, <1>7, <1>12, <3>1
    <2>2. cursor' = NoId => ring' = <<>>
      <3> SUFFICES ASSUME cursor' = NoId PROVE ring' = <<>>
        OBVIOUS
      <3>1. l = 0 /\ cursor = NoId
        BY <1>2, <1>3, <1>8
      <3>2. ring = <<>> /\ Edge + 1 .. Edge + l = {}
        BY <1>2, <1>11, <3>1
      <3>3. Range(ring') \subseteq {}
        BY <1>4, <1>6, <1>7, <3>2, NothingIs DEF Goes
      <3>4. Len(ring') \in Nat /\ \A n \in 1 .. Len(ring') : ring'[n] \in Range(ring')
        BY <1>9, PlacesIs
      <3>5. Len(ring') = 0
        <4>1. ~(1 \in 1 .. Len(ring'))
          BY <3>3, <3>4
        <4> QED BY <3>4, <4>1
      <3> QED BY <1>9, <3>5, EmptySeq
    <2>3. reading' = NoRead'
      BY <1>7 DEF NoRead
    <2> QED BY <1>12, <2>1, <2>2, <2>3 DEF RingInv
  <1>14. OnlyRing
    <2>1. Queued(queue, Edge)'
      <3>1. Queued(queue', Edge + l) /\ queue' \in Seq(Nat)
        BY <1>6, <1>7, <1>9 DEF BatchOK
      <3>2. \A n \in 1 .. Len(queue') : queue'[n] \in Nat
        BY <1>9, PlacesIs
      <3>3. \A n \in 1 .. Len(queue') : delivered < queue'[n] /\ queue'[n] <= Edge'
        BY <1>2, <1>3, <1>12, <3>1, <3>2 DEF Queued
      <3>4. delivered' = delivered
        BY <1>7
      <3> QED BY <3>1, <3>3, <3>4 DEF Queued
    <2>2. Range(ring') \subseteq Range(ring) \cup (Edge + 1 .. Edge + l)
      BY <1>4, <1>6, <1>7 DEF Goes
    <2>3. Edge + 1 .. Edge + l \subseteq Edge + 1 .. Edge'
      BY <1>2, <1>3, <1>12
    <2>4. phase = "live" /\ ~missed' =>
            /\ Range(queue) \subseteq Range(queue')
            /\ Range(ring') \subseteq Range(ring) \cup Range(queue')
      BY <1>4, <1>6, <1>7, <2>2 DEF Goes
    <2>5. missed => missed'
      BY <1>7
    <2>6. phase # "live" => queue' = queue
      BY <1>4, <1>6, <1>7 DEF Goes
    <2> QED BY <1>7, <1>12, <2>1, <2>2, <2>3, <2>4, <2>5, <2>6 DEF OnlyRing, viewVars
  <1> QED BY <1>10, <1>13, <1>14, OnlyRingIs

-------------------------------------------------------------------------------
(* The actions of the SSE generator. *)

\* What pruning leaves of the ring.
LEMMA PrunesRing ==
  ASSUME SignalTypes, RingInv
  PROVE  /\ RunsTo(Pruned(ring), Edge) /\ Range(Pruned(ring)) \subseteq Range(ring)
         /\ Pruned(ring) \in Seq(Nat)
         /\ SeenAfterPrune(ring, seen) \subseteq seen
         /\ ring = <<>> => Pruned(ring) = <<>>
  <1>1. Edge \in Nat /\ RunsTo(ring, Edge)
    BY EdgeIs DEF RingInv
  <1> DEFINE p == Pruned(ring)
  <1>2. RunsTo(p, Edge) /\ Range(p) \subseteq Range(ring)
    BY <1>1, PrunedIs
  <1> HIDE DEF p
  <1>3. p \in Seq(Nat)
    BY <1>1, <1>2, IdsIs
  <1>4. ASSUME ring = <<>> PROVE p = <<>>
    <2>1. Len(p) \in Nat /\ \A n \in 1 .. Len(p) : p[n] \in Range(p)
      BY <1>3, PlacesIs
    <2>2. ~(1 \in 1 .. Len(p))
      BY <1>2, <1>4, <2>1, NothingIs
    <2>3. Len(p) = 0
      BY <2>1, <2>2
    <2> QED BY <1>3, <2>3, EmptySeq
  <1> QED BY <1>2, <1>3, <1>4 DEF p, SeenAfterPrune

\* A step that prunes the ring and nothing else of it.
LEMMA PrunedRing ==
  ASSUME SignalTypes, RingInv, ring' = Pruned(ring), seen' = SeenAfterPrune(ring, seen),
         UNCHANGED <<redisVars, cursor, reading>>
  PROVE  /\ RingInv' /\ Edge' = Edge /\ Range(ring') \subseteq Range(ring)
         /\ ring' \in Seq(Nat) /\ seen' \in SUBSET Nat
  <1> DEFINE p == Pruned(ring)
             q == SeenAfterPrune(ring, seen)
  <1>1. /\ RunsTo(p, Edge) /\ Range(p) \subseteq Range(ring) /\ p \in Seq(Nat)
        /\ q \subseteq seen /\ (ring = <<>> => p = <<>>)
    BY PrunesRing
  <1>2. ring' = p /\ seen' = q
    OBVIOUS
  <1> HIDE DEF p, q
  <1>3. Edge' = Edge
    BY DEF Edge, redisVars, NoRead
  <1>4. RingInv'
    BY <1>1, <1>2, <1>3 DEF RingInv, NoRead
  <1> QED BY <1>1, <1>2, <1>3, <1>4 DEF SignalTypes

\* The elements of a run ascend, and none is 0.
LEMMA RunAscends ==
  ASSUME NEW last \in Nat, NEW s, RunsTo(s, last)
  PROVE  /\ s \in Seq(Nat) /\ Range(s) \subseteq 1 .. last
         /\ \A n \in 1 .. Len(s) : \A m \in 1 .. n : s[m] <= s[n]
         /\ s # <<>> => Last(s) = last
  <1>1. s \in Seq(Nat) /\ Len(s) \in Nat /\ Len(s) <= last /\ Range(s) = last - Len(s) + 1 .. last
    BY IdsIs
  <1>2. Range(s) \subseteq 1 .. last
    BY <1>1
  <1>3. ASSUME NEW n \in 1 .. Len(s), NEW m \in 1 .. n PROVE s[m] <= s[n]
    <2>1. m \in 1 .. Len(s)
      BY <1>1
    <2>2. s[m] = last - Len(s) + m /\ s[n] = last - Len(s) + n
      BY <2>1 DEF RunsTo
    <2> QED BY <1>1, <2>2
  <1> QED BY <1>1, <1>2, <1>3, IdsIs

\* Subscribing and replaying: the replay starts right after the id asked for.
LEMMA AcceptStep ==
  ASSUME FeedInv, ServerAccepts
  PROVE  FeedInv'
  <1>1. SignalTypes /\ RingInv /\ KnownInv /\ StreamInv /\ FetchInv /\ ViewInv /\ ConnectInv
        /\ CompleteInv
    BY DEF FeedInv
  <1> DEFINE buffer == Pruned(ring)
             stale == StaleId(buffer, url)
             replay == Replay(buffer, url)
             frames == Twice(replay)
  <1>2. /\ phase = "connecting" /\ phase' = "live" /\ queue' = <<>>
        /\ ring' = buffer /\ seen' = SeenAfterPrune(ring, seen)
        /\ wire' = IF stale THEN <<Reset>> ELSE frames
        /\ delivered' = IF replay = <<>> THEN url ELSE Last(replay)
        /\ missed' = CASE stale -> FALSE
                       [] url = NoId -> missed \/ buffer # <<>>
                       [] OTHER -> missed
        /\ UNCHANGED <<redisVars, cursor, reading, url, viewVars, feedFaults>>
    BY DEF ServerAccepts
  <1>3. /\ RingInv' /\ Edge' = Edge /\ Range(ring') \subseteq Range(ring)
        /\ ring' \in Seq(Nat) /\ seen' \in SUBSET Nat /\ RunsTo(buffer, Edge)
    BY <1>1, <1>2, PrunedRing, PrunesRing
  <1>4. /\ Edge \in Nat /\ url \in 0 .. Edge /\ lastId \in 0 .. Edge /\ url <= lastId
        /\ Range(ring) \subseteq 1 .. Edge
    BY <1>1, KnownIs DEF KnownInv
  <1> HIDE DEF buffer
  <1>5. /\ RunsTo(replay, Edge)
        /\ \/ replay = <<>> /\ (url = NoId \/ buffer = <<>> \/ stale)
           \/ url # NoId /\ ~stale /\ Range(replay) = {r \in Range(buffer) : r > url}
    BY <1>3, <1>4, ReplayIs
  <1>6. stale => url # NoId /\ buffer # <<>> /\ url < Head(buffer) /\ replay = <<>>
    BY <1>5 DEF StaleId
  <1> HIDE DEF replay, stale
  <1>7. /\ replay \in Seq(Nat) /\ Range(replay) \subseteq 1 .. Edge
        /\ \A n \in 1 .. Len(replay) : \A m \in 1 .. n : replay[m] <= replay[n]
        /\ replay # <<>> => Last(replay) = Edge
    BY <1>4, <1>5, RunAscends
  <1>8. /\ frames \in Seq(Nat) /\ Range(frames) = Range(replay)
        /\ \A n \in 1 .. Len(frames) : \A m \in 1 .. n : frames[m] <= frames[n]
    BY <1>7, TwiceIs
  <1> HIDE DEF frames
  <1>9. delivered' \in Nat /\ delivered' <= Edge /\ (replay # <<>> => delivered' = Edge)
    BY <1>2, <1>4, <1>7
  <1>10. ASSUME stale
         PROVE  /\ wire' = <<Reset>> /\ wire' \in Seq(Nat) /\ Len(wire') = 1 /\ wire'[1] = Reset
                /\ Reset \in Range(wire')
    <2>1. wire' = <<Reset>>
      BY <1>2, <1>10
    <2>2. /\ <<Reset>> \in Seq(Nat) /\ Len(<<Reset>>) = 1 /\ <<Reset>>[1] = Reset
      BY DEF Reset
    <2>3. Reset \in Range(<<Reset>>)
      <3>1. 1 \in 1 .. Len(<<Reset>>)
        BY <2>2
      <3> QED BY <2>2, <3>1, PlacesIs
    <2> QED BY <2>1, <2>2, <2>3
  <1>11. ~stale => wire' = frames
    BY <1>2
  <1>12. wire' \in Seq(Nat) /\ missed' \in BOOLEAN
    <2>1. missed \in BOOLEAN
      BY <1>1 DEF SignalTypes
    <2>2. missed' \in BOOLEAN
      BY <1>2, <2>1
    <2> QED BY <1>8, <1>10, <1>11, <2>2
  <1>13. SignalTypes'
    BY <1>1, <1>2, <1>3, <1>9, <1>12, NothingIs
       DEF SignalTypes, redisVars, viewVars, Phases, FetchStates
  <1>14. KnownInv'
    BY <1>1, <1>2, <1>3, <1>9 DEF KnownInv, viewVars, NoBuffer
  <1>15. StreamInv'
    <2>1. Queued(queue, Edge)'
      BY <1>2, NothingIs DEF Queued
    <2>2. \A n \in 1 .. Len(wire') : wire'[n] <= delivered'
      <3> SUFFICES ASSUME NEW n \in 1 .. Len(wire') PROVE wire'[n] <= delivered'
        OBVIOUS
      <3>1. CASE stale
        <4>1. Len(wire') = 1 /\ wire'[1] = Reset
          BY <1>10, <3>1
        <4>2. n = 1
          BY <4>1
        <4> QED BY <1>9, <4>1, <4>2 DEF Reset
      <3>2. CASE ~stale
        <4>1. frames[n] \in Range(replay)
          BY <1>8, <1>11, <3>2, PlacesIs
        <4>2. replay # <<>>
          BY <4>1, NothingIs
        <4> QED BY <1>4, <1>7, <1>9, <1>11, <3>2, <4>1, <4>2
      <3> QED BY <3>1, <3>2
    <2>3. \A n \in 1 .. Len(wire') : \A m \in 1 .. n - 1 :
            wire'[m] <= wire'[n] /\ wire'[n] # Reset
      <3> SUFFICES ASSUME NEW n \in 1 .. Len(wire'), NEW m \in 1 .. n - 1
                   PROVE  wire'[m] <= wire'[n] /\ wire'[n] # Reset
        OBVIOUS
      <3>1. ~stale
        <4> SUFFICES ASSUME stale PROVE FALSE
          OBVIOUS
        <4>1. Len(wire') = 1
          BY <1>10
        <4>2. n = 1
          BY <4>1
        <4> QED BY <4>2
      <3>2. Len(frames) \in Nat /\ frames[n] \in Range(replay)
        BY <1>8, <1>11, <3>1, PlacesIs
      <3>3. m \in 1 .. n
        BY <1>8, <1>11, <3>1, <3>2
      <3> QED BY <1>4, <1>7, <1>8, <1>11, <3>1, <3>2, <3>3 DEF Reset
    <2> QED BY <1>2, <2>1, <2>2, <2>3 DEF StreamInv, Reset
  <1>16. FetchInv'
    <2>1. \A i \in fetch.ids : \A r \in Range(ring') : r <= i => Covers(fetch.ids, r)
      BY <1>1, <1>3 DEF FetchInv
    <2>2. resetBuffer = NoBuffer <=> fetch.at = "none"
      BY <1>1, <1>2 DEF FetchInv
    <2> QED BY <1>1, <1>2, <2>1, <2>2 DEF FetchInv, viewVars, NoBuffer
  <1>17. ViewInv'
    BY <1>1, <1>2 DEF ViewInv, viewVars, NoBuffer
  <1>18. ConnectInv'
    BY <1>2 DEF ConnectInv
  <1>19. CompleteInv'
    <2> SUFFICES ASSUME ~missed' PROVE CompleteInv'
      BY DEF CompleteInv
    <2>1. \A r : Held(r)' <=> Held(r)
      BY <1>2 DEF Held, viewVars, NoBuffer
    <2>2. \A r \in Range(ring') : r \in Range(ring) /\ r \in Nat
      BY <1>3, <1>4
    <2>3. CASE stale
      <3>1. \A r \in Range(ring') : url < r
        <4>1. Range(buffer) = Edge - Len(buffer) + 1 .. Edge /\ Head(buffer) = Edge - Len(buffer) + 1
          BY <1>3, <1>4, <1>6, <2>3, IdsIs
        <4> QED BY <1>2, <1>4, <1>6, <2>2, <2>3, <4>1
      <3>2. \A r \in Range(ring') : r <= lastId => Held(r)
        BY <1>1, <1>2, <2>2, <3>1 DEF ConnectInv, Held
      <3>3. Reset \in Range(wire')
        BY <1>10, <2>3
      <3> QED BY <1>2, <2>1, <3>2, <3>3 DEF CompleteInv, viewVars, Reset
    <2>4. CASE ~stale /\ (buffer = <<>> \/ url = NoId)
      <3>1. buffer = <<>>
        BY <1>2, <2>4
      <3>2. Range(ring') = {}
        BY <1>2, <3>1, NothingIs
      <3> QED BY <3>2 DEF CompleteInv
    <2>5. CASE ~stale /\ buffer # <<>> /\ url # NoId
      <3>1. ~missed
        BY <1>2, <2>5
      <3>2. \A r \in Range(ring') : r <= lastId => Held(r)
        BY <1>1, <1>2, <2>2, <3>1 DEF CompleteInv
      <3>3. \A r \in Range(ring') : r > url => r \in Range(wire')
        BY <1>2, <1>5, <1>8, <1>11, <2>5
      <3>4. \A r \in Range(ring') : Held(r) \/ r \in Range(wire')
        <4> SUFFICES ASSUME NEW r \in Range(ring'), ~(r > url) PROVE Held(r)
          BY <3>3
        <4>1. r <= lastId
          BY <1>4, <2>2
        <4> QED BY <3>2, <4>1
      <3> QED BY <1>2, <2>1, <3>2, <3>4 DEF CompleteInv, viewVars, Reset
    <2> QED BY <2>3, <2>4, <2>5
  <1> QED BY <1>3, <1>13, <1>14, <1>15, <1>16, <1>17, <1>18, <1>19 DEF FeedInv

\* What is sent goes behind what is under way.
LEMMA JoinedIs ==
  ASSUME NEW s \in Seq(Nat), NEW t \in Seq(Nat)
  PROVE  /\ s \o t \in Seq(Nat) /\ Len(s \o t) = Len(s) + Len(t)
         /\ Range(s \o t) = Range(s) \cup Range(t)
         /\ \A n \in 1 .. Len(s) : (s \o t)[n] = s[n]
         /\ \A n \in 1 .. Len(s \o t) : n > Len(s) => (s \o t)[n] \in Range(t)
  <1> DEFINE u == s \o t
             a == Len(s)
             b == Len(t)
  <1>1. a \in Nat /\ b \in Nat
    BY PlacesIs
  <1>2. /\ u \in Seq(Nat) /\ Len(u) = a + b
        /\ \A n \in 1 .. a + b : u[n] = IF n <= a THEN s[n] ELSE t[n - a]
    BY ConcatProperties
  <1> HIDE DEF u
  <1>3. ASSUME NEW n \in 1 .. a PROVE n \in 1 .. Len(u) /\ u[n] = s[n] /\ s[n] \in Range(s)
    <2>1. s[n] \in Range(s)
      BY PlacesIs
    <2> HIDE DEF a, b
    <2>2. n \in 1 .. a + b /\ n <= a
      BY <1>1
    <2> QED BY <1>2, <2>1, <2>2
  <1>4. ASSUME NEW n \in 1 .. b PROVE a + n \in 1 .. Len(u) /\ u[a + n] = t[n]
    <2> HIDE DEF a, b
    <2>1. a + n \in 1 .. a + b /\ ~(a + n <= a) /\ (a + n) - a = n
      BY <1>1
    <2>2. u[a + n] = t[(a + n) - a]
      BY <1>2, <2>1
    <2> QED BY <1>2, <2>1, <2>2
  <1>5. ASSUME NEW n \in 1 .. Len(u), n > a PROVE u[n] \in Range(t)
    <2>1. n - a \in 1 .. b /\ a + (n - a) = n
      <3> HIDE DEF a, b
      <3> QED BY <1>1, <1>2, <1>5
    <2>2. u[n] = t[n - a]
      BY <1>4, <2>1
    <2> QED BY <2>1, <2>2, PlacesIs
  <1>6. ASSUME NEW e \in Range(u) PROVE e \in Range(s) \cup Range(t)
    <2>1. PICK n \in 1 .. Len(u) : e = u[n]
      BY <1>2, PlacesIs
    <2>2. CASE n > a
      BY <1>5, <2>1, <2>2
    <2>3. CASE ~(n > a)
      <3>1. n \in 1 .. a
        <4> HIDE DEF a, b
        <4> QED BY <1>1, <1>2, <2>1, <2>3
      <3> QED BY <1>3, <2>1, <3>1
    <2> QED BY <2>2, <2>3
  <1>7. ASSUME NEW e \in Range(s) \cup Range(t) PROVE e \in Range(u)
    <2>1. CASE e \in Range(s)
      <3>1. PICK n \in 1 .. a : e = s[n]
        BY <2>1, PlacesIs
      <3> QED BY <1>2, <1>3, <3>1, PlacesIs
    <2>2. CASE e \in Range(t)
      <3>1. PICK n \in 1 .. b : e = t[n]
        BY <2>2, PlacesIs
      <3> HIDE DEF a, b
      <3> QED BY <1>2, <1>4, <3>1, PlacesIs
    <2> QED BY <2>1, <2>2
  <1>8. Range(u) = Range(s) \cup Range(t)
    BY <1>6, <1>7
  <1> QED BY <1>2, <1>3, <1>5, <1>8 DEF u

\* The next envelope of the live queue follows the frames under way.
LEMMA SendStep ==
  ASSUME FeedInv, ServerSends
  PROVE  FeedInv'
  <1>1. SignalTypes /\ RingInv /\ KnownInv /\ StreamInv /\ FetchInv /\ ViewInv /\ ConnectInv
        /\ CompleteInv
    BY DEF FeedInv
  <1> DEFINE id == Head(queue)
             rest == Tail(queue)
             one == <<id>>
             frames == Twice(one)
             joined == wire \o frames
  <1>2. /\ phase = "live" /\ queue # <<>> /\ queue' = rest
        /\ IF id <= delivered THEN UNCHANGED <<delivered, wire>>
           ELSE delivered' = id /\ wire' = joined
        /\ UNCHANGED <<redisVars, ringVars, phase, url, viewVars, missed, feedFaults>>
    BY DEF ServerSends
  <1>3. /\ queue \in Seq(Nat) /\ wire \in Seq(Nat) /\ delivered \in Nat /\ Len(queue) \in Nat
        /\ id = queue[1] /\ id \in Nat /\ Len(queue) >= 1
        /\ rest \in Seq(Nat) /\ Len(rest) = Len(queue) - 1
        /\ \A n \in 1 .. Len(rest) : rest[n] = queue[n + 1]
        /\ Range(rest) \subseteq Range(queue) /\ Range(queue) \subseteq {id} \cup Range(rest)
    BY <1>1, <1>2, TailIs, PlacesIs DEF SignalTypes
  <1> HIDE DEF rest, id
  <1>4. Edge \in Nat /\ delivered < id /\ id <= Edge
    <2>1. 1 \in 1 .. Len(queue)
      BY <1>3
    <2> QED BY <1>1, <1>3, <2>1, EdgeIs DEF StreamInv, Queued
  <1>5. /\ one \in Seq(Nat) /\ Range(one) = {id}
        /\ \A n \in 1 .. Len(one) : \A m \in 1 .. n : one[m] <= one[n]
    BY <1>3 DEF Range
  <1> HIDE DEF one
  <1>6. frames \in Seq(Nat) /\ Range(frames) = {id}
    BY <1>5, TwiceIs
  <1> HIDE DEF frames
  <1>7. /\ joined \in Seq(Nat) /\ Len(joined) = Len(wire) + Len(frames)
        /\ Range(joined) = Range(wire) \cup {id}
        /\ \A n \in 1 .. Len(wire) : joined[n] = wire[n]
        /\ \A n \in 1 .. Len(joined) : n > Len(wire) => joined[n] \in Range(frames)
        /\ Len(wire) \in Nat /\ Len(frames) \in Nat
    <2>1. wire \in Seq(Nat) /\ frames \in Seq(Nat)
      BY <1>3, <1>6
    <2>2. /\ joined \in Seq(Nat) /\ Len(joined) = Len(wire) + Len(frames)
          /\ Range(joined) = Range(wire) \cup Range(frames)
          /\ \A n \in 1 .. Len(wire) : joined[n] = wire[n]
          /\ \A n \in 1 .. Len(joined) : n > Len(wire) => joined[n] \in Range(frames)
      BY <2>1, JoinedIs
    <2> HIDE DEF joined
    <2>3. Len(wire) \in Nat /\ Len(frames) \in Nat
      BY <2>1, PlacesIs
    <2> QED BY <1>6, <2>2, <2>3
  <1> HIDE DEF joined
  <1>8. ASSUME NEW n \in 1 .. Len(joined)
        PROVE  n \in 1 .. Len(wire) \/ (n > Len(wire) /\ joined[n] = id)
    <2>1. CASE n > Len(wire)
      BY <1>6, <1>7, <2>1
    <2>2. CASE ~(n > Len(wire))
      BY <1>7, <2>2
    <2> QED BY <2>1, <2>2
  <1>9. delivered' = id /\ wire' = joined
    <2>1. ~(id <= delivered)
      BY <1>3, <1>4
    <2> QED BY <1>2, <2>1
  <1>10. Edge' = Edge /\ ring' = ring
    BY <1>2 DEF Edge, NoRead, redisVars, ringVars
  <1>11. SignalTypes'
    BY <1>1, <1>2, <1>3, <1>7, <1>9
       DEF SignalTypes, redisVars, ringVars, viewVars, Phases, FetchStates
  <1>12. RingInv'
    BY <1>1, <1>2, <1>10 DEF RingInv, ringVars, NoRead
  <1>13. KnownInv'
    BY <1>1, <1>2, <1>4, <1>9, <1>10 DEF KnownInv, viewVars, NoBuffer
  <1>14. StreamInv'
    <2>1. Queued(queue, Edge)'
      <3>1. ASSUME NEW n \in 1 .. Len(rest) PROVE id < rest[n] /\ rest[n] <= Edge
        <4>1. n + 1 \in 1 .. Len(queue) /\ 1 \in 1 .. (n + 1) - 1
          BY <1>3
        <4> QED BY <1>1, <1>3, <4>1 DEF StreamInv, Queued
      <3>2. ASSUME NEW n \in 1 .. Len(rest), NEW m \in 1 .. n - 1 PROVE rest[m] < rest[n]
        <4>1. n + 1 \in 1 .. Len(queue) /\ m + 1 \in 1 .. (n + 1) - 1
          BY <1>3
        <4>2. m \in 1 .. Len(rest)
          BY <1>3
        <4>3. queue[m + 1] < queue[n + 1]
          BY <1>1, <4>1 DEF StreamInv, Queued
        <4> QED BY <1>3, <4>2, <4>3
      <3> QED BY <1>2, <1>3, <1>9, <1>10, <3>1, <3>2 DEF Queued
    <2>2. \A n \in 1 .. Len(wire) : wire[n] \in Nat /\ wire[n] <= delivered
      BY <1>1, <1>3, PlacesIs DEF StreamInv
    <2>3. ASSUME NEW n \in 1 .. Len(joined) PROVE joined[n] <= id
      <3>1. CASE n \in 1 .. Len(wire)
        <4>1. joined[n] = wire[n] /\ wire[n] \in Nat /\ wire[n] <= delivered
          BY <1>7, <2>2, <3>1
        <4> QED BY <1>3, <1>4, <4>1
      <3>2. CASE joined[n] = id
        BY <1>3, <3>2
      <3> QED BY <1>8, <3>1, <3>2
    <2>4. ASSUME NEW n \in 1 .. Len(joined), NEW m \in 1 .. n - 1
          PROVE  joined[m] <= joined[n] /\ joined[n] # Reset
      <3>1. m \in 1 .. Len(joined)
        BY <1>7
      <3>2. CASE n \in 1 .. Len(wire)
        <4>1. m \in 1 .. Len(wire)
          BY <1>7, <3>2
        <4> QED BY <1>1, <1>7, <3>2, <4>1 DEF StreamInv
      <3>3. CASE joined[n] = id
        BY <1>3, <1>4, <2>3, <3>1, <3>3 DEF Reset
      <3> QED BY <1>8, <3>2, <3>3
    <2> QED BY <1>2, <1>9, <2>1, <2>3, <2>4 DEF StreamInv, Reset
  <1>15. FetchInv'
    BY <1>1, <1>2, <1>10 DEF FetchInv, viewVars, NoBuffer
  <1>16. ViewInv'
    BY <1>1, <1>2 DEF ViewInv, viewVars, NoBuffer
  <1>17. ConnectInv'
    BY <1>2 DEF ConnectInv
  <1>18. CompleteInv'
    <2> SUFFICES ASSUME ~missed' PROVE CompleteInv'
      BY DEF CompleteInv
    <2>1. ~missed /\ \A r : Held(r)' <=> Held(r)
      BY <1>2 DEF Held, viewVars, NoBuffer
    <2>2. \A r \in Range(ring) : r <= lastId => Held(r)
      BY <1>1, <1>2, <2>1 DEF CompleteInv
    <2>3. \A r \in Range(ring) : \/ Held(r) \/ r \in Range(joined) \/ r \in Range(rest)
                                 \/ Reset \in Range(joined)
      <3> SUFFICES ASSUME NEW r \in Range(ring)
                   PROVE  \/ Held(r) \/ r \in Range(joined) \/ r \in Range(rest)
                          \/ Reset \in Range(joined)
        OBVIOUS
      <3>1. \/ Held(r) \/ r \in Range(wire) \/ r \in Range(queue) \/ Reset \in Range(wire)
        BY <1>1, <1>2, <2>1 DEF CompleteInv
      <3> QED BY <1>3, <1>7, <3>1
    <2> QED BY <1>2, <1>9, <1>10, <2>1, <2>2, <2>3 DEF CompleteInv, viewVars, Reset
  <1> QED BY <1>11, <1>12, <1>13, <1>14, <1>15, <1>16, <1>17, <1>18 DEF FeedInv

-------------------------------------------------------------------------------
(* The actions of useSignalFeed. *)

\* The snapshot is the newest of the ring.
LEMMA AnswerStep ==
  ASSUME FeedInv, RestAnswers
  PROVE  FeedInv'
  <1>1. SignalTypes /\ RingInv /\ KnownInv /\ StreamInv /\ FetchInv /\ ViewInv /\ ConnectInv
        /\ CompleteInv
    BY DEF FeedInv
  <1> DEFINE ids == Range(Pruned(ring))
             top == NewestIn(ids, FeedCap)
  <1>2. /\ fetch = FetchAsked /\ fetch.at = "asked"
        /\ ring' = Pruned(ring) /\ seen' = SeenAfterPrune(ring, seen)
        /\ fetch' = [at |-> "answered", ids |-> top]
        /\ fetch'.at = "answered" /\ fetch'.ids = top
        /\ UNCHANGED <<redisVars, cursor, reading, connVars, items, dedupe, lastId, resetBuffer,
                       missed, feedFaults>>
    BY DEF RestAnswers, FetchAsked, Answered
  <1>3. /\ RingInv' /\ Edge' = Edge /\ Range(ring') \subseteq Range(ring)
        /\ ring' \in Seq(Nat) /\ seen' \in SUBSET Nat /\ Range(ring') = ids
    BY <1>1, <1>2, PrunedRing
  <1> HIDE DEF ids
  <1>4. /\ Edge \in Nat /\ Range(ring) \subseteq 1 .. Edge /\ resetBuffer \subseteq 0 .. Edge
        /\ ids \subseteq 1 .. Edge /\ ids \subseteq 0 .. Edge
    <2>1. /\ Edge \in Nat /\ Range(ring) \subseteq 1 .. Edge /\ Range(ring) \subseteq 0 .. Edge
          /\ resetBuffer \subseteq 0 .. Edge
      BY <1>1, KnownIs
    <2> QED BY <1>3, <2>1
  <1>5. top \subseteq ids
    BY DEF NewestIn
  <1>6. \A r \in Range(ring') : Covers(top, r)
    <2> SUFFICES ASSUME NEW r \in ids PROVE Covers(top, r)
      BY <1>3
    <2>1. r \in 0 .. Edge /\ Covers(ids, r) /\ ids \subseteq ids
      BY <1>4 DEF Covers
    <2> QED BY <1>4, <2>1, NewestCover
  <1> HIDE DEF top
  <1>7. SignalTypes'
    <2>1. fetch' \in [at : FetchStates, ids : SUBSET Nat]
      BY <1>2, <1>4, <1>5 DEF FetchStates
    <2> QED BY <1>1, <1>2, <1>3, <2>1 DEF SignalTypes, redisVars, connVars, Phases, FetchStates
  <1>8. KnownInv'
    BY <1>1, <1>2, <1>3, <1>4, <1>5 DEF KnownInv, connVars, NoBuffer
  <1>9. StreamInv'
    BY <1>1, <1>2, <1>3 DEF StreamInv, connVars, Queued, Reset
  <1>10. FetchInv'
    <2>1. phase # "hydrating" => resetBuffer # NoBuffer
      BY <1>1, <1>2 DEF FetchInv
    <2> QED BY <1>1, <1>2, <1>6, <2>1 DEF FetchInv, connVars, NoBuffer
  <1>11. ViewInv'
    BY <1>1, <1>2 DEF ViewInv, NoBuffer
  <1>12. ConnectInv'
    BY <1>1, <1>2, <1>3 DEF ConnectInv, connVars, NoBuffer
  <1>13. CompleteInv'
    <2> SUFFICES ASSUME phase # "hydrating" PROVE CompleteInv'
      BY <1>2 DEF CompleteInv, connVars
    <2>1. resetBuffer # NoBuffer
      BY <1>1, <1>2 DEF FetchInv
    <2>2. ASSUME NEW r \in Range(ring') PROVE Held(r)'
      <3>1. top \subseteq top \cup resetBuffer /\ top \cup resetBuffer \subseteq 0 .. Edge
        BY <1>4, <1>5
      <3>2. Covers(top \cup resetBuffer, r)
        BY <1>4, <1>6, <3>1, CoverGrows
      <3> QED BY <1>2, <2>1, <3>2 DEF Held, NoBuffer
    <2> QED BY <2>2 DEF CompleteInv
  <1> QED BY <1>3, <1>7, <1>8, <1>9, <1>10, <1>11, <1>12, <1>13 DEF FeedInv

\* What publish leaves behind.
LEMMA PublishIs ==
  ASSUME NEW b \in Nat, NEW ids, ids \subseteq 1 .. b, lastId \in 0 .. b, NEW d,
         Publish(ids, d)
  PROVE  /\ items' = NewestIn(ids, FeedCap) /\ dedupe' = d
         /\ items' \subseteq ids /\ lastId' \in 0 .. b /\ lastId <= lastId'
         /\ \A i \in ids : i <= lastId'
         /\ lastId' = lastId \/ (lastId' \in ids /\ lastId < lastId')
         /\ \A V, i : V \subseteq ids /\ i \in 0 .. b /\ Covers(V, i) => Covers(items', i)
  <1>1. ids \subseteq 0 .. b
    OBVIOUS
  <1>2. /\ Newest(ids) \in 0 .. b /\ \A i \in ids : i <= Newest(ids)
        /\ ids # {} => Newest(ids) \in ids
        /\ ids = {} => Newest(ids) = 0
    BY <1>1, NewestIs
  <1>3. /\ items' = NewestIn(ids, FeedCap) /\ dedupe' = d
        /\ lastId' = IF Newest(ids) > lastId THEN Newest(ids) ELSE lastId
    BY DEF Publish
  <1>4. items' \subseteq ids
    BY <1>3 DEF NewestIn
  <1>5. ASSUME NEW V, NEW i, V \subseteq ids, i \in 0 .. b, Covers(V, i) PROVE Covers(items', i)
    <2>1. V \subseteq 0 .. b
      BY <1>1, <1>5
    <2>2. Covers(NewestIn(ids, FeedCap), i)
      BY <1>1, <1>5, <2>1, NewestCover
    <2> QED BY <1>3, <2>2
  <1>6. /\ lastId' \in 0 .. b /\ lastId <= lastId' /\ \A i \in ids : i <= lastId'
        /\ lastId' = lastId \/ (lastId' \in ids /\ lastId < lastId')
    <2>1. CASE Newest(ids) > lastId
      <3>1. lastId' = Newest(ids) /\ ids # {}
        BY <1>2, <1>3, <2>1
      <3> QED BY <1>2, <2>1, <3>1
    <2>2. CASE ~(Newest(ids) > lastId)
      <3>1. lastId' = lastId /\ Newest(ids) <= lastId
        BY <1>2, <1>3, <2>2
      <3>2. \A i \in ids : i \in Nat
        OBVIOUS
      <3> QED BY <1>2, <3>1, <3>2
    <2> QED BY <2>1, <2>2
  <1> QED BY <1>3, <1>4, <1>5, <1>6

\* A failed request is as good as one under way: what the reset covers stays covered.
LEMMA RestFailStep ==
  ASSUME FeedInv, RestFails
  PROVE  FeedInv'
  <1>1. SignalTypes /\ RingInv /\ KnownInv /\ StreamInv /\ FetchInv /\ ViewInv /\ ConnectInv
        /\ CompleteInv
    BY DEF FeedInv
  <1>2. /\ fetch = FetchAsked /\ fetch.at = "asked" /\ fetch.ids = {}
        /\ fetch' = [at |-> "failed", ids |-> {}] /\ fetch'.at = "failed" /\ fetch'.ids = {}
        /\ feedFaults' = feedFaults + 1
        /\ UNCHANGED <<redisVars, ringVars, connVars, items, dedupe, lastId, resetBuffer, missed>>
    BY DEF RestFails, FetchAsked, FetchFailed
  <1>3. Edge' = Edge /\ ring' = ring
    BY <1>2 DEF Edge, NoRead, redisVars, ringVars
  <1>4. SignalTypes'
    <2>1. fetch' \in [at : FetchStates, ids : SUBSET Nat]
      BY <1>2 DEF FetchStates
    <2> QED BY <1>1, <1>2, <2>1
          DEF SignalTypes, redisVars, ringVars, connVars, Phases, FetchStates
  <1>5. RingInv'
    BY <1>1, <1>2, <1>3 DEF RingInv, ringVars, NoRead
  <1>6. KnownInv'
    BY <1>1, <1>2, <1>3 DEF KnownInv, connVars, NoBuffer
  <1>7. StreamInv'
    BY <1>1, <1>2, <1>3 DEF StreamInv, connVars, Queued, Reset
  <1>8. FetchInv'
    BY <1>1, <1>2 DEF FetchInv, connVars, NoBuffer
  <1>9. ViewInv'
    BY <1>1, <1>2 DEF ViewInv, NoBuffer
  <1>10. ConnectInv'
    BY <1>1, <1>2, <1>3 DEF ConnectInv, connVars, NoBuffer
  <1>11. CompleteInv'
    <2> SUFFICES ASSUME phase # "hydrating" PROVE CompleteInv'
      BY <1>2 DEF CompleteInv, connVars
    <2>1. resetBuffer # NoBuffer
      BY <1>1, <1>2 DEF FetchInv
    <2>2. \A r : Held(r)'
      BY <1>2, <2>1 DEF Held, NoBuffer
    <2> QED BY <2>2 DEF CompleteInv
  <1> QED BY <1>4, <1>5, <1>6, <1>7, <1>8, <1>9, <1>10, <1>11 DEF FeedInv

\* The first snapshot: the browser connects with the newest id it shows.
LEMMA HydratedStep ==
  ASSUME FeedInv, Hydrated
  PROVE  FeedInv'
  <1>1. SignalTypes /\ RingInv /\ KnownInv /\ StreamInv /\ FetchInv /\ ViewInv /\ ConnectInv
        /\ CompleteInv
    BY DEF FeedInv
  <1>2. /\ phase = "hydrating" /\ fetch.at \in {"answered", "failed"}
        /\ fetch' = [at |-> "none", ids |-> {}] /\ fetch'.at = "none" /\ fetch'.ids = {}
        /\ phase' = "connecting" /\ url' = lastId'
        /\ UNCHANGED <<redisVars, ringVars, queue, delivered, wire, resetBuffer, missed,
                       feedFaults>>
        /\ \/ fetch = FetchFailed /\ UNCHANGED <<items, dedupe, lastId>>
           \/ fetch # FetchFailed /\ Publish(fetch.ids, Rebuilt(fetch.ids))
    BY DEF Hydrated, NoFetch
  <1>3. /\ items = {} /\ dedupe = <<>> /\ lastId = NoId /\ resetBuffer = NoBuffer
        /\ queue = <<>> /\ wire = <<>>
    BY <1>1, <1>2 DEF FetchInv, StreamInv
  <1>4. /\ Edge \in Nat /\ Range(ring) \subseteq 1 .. Edge /\ lastId \in 0 .. Edge
        /\ fetch.ids \subseteq 1 .. Edge /\ fetch.ids \subseteq 0 .. Edge
    BY <1>1, KnownIs DEF KnownInv
  <1>5. Edge' = Edge /\ ring' = ring
    BY <1>2 DEF Edge, NoRead, redisVars, ringVars
  <1>6. /\ items' \subseteq 1 .. lastId' /\ lastId' \in 0 .. Edge
        /\ dedupe' \in Seq(Nat) /\ Range(dedupe') \subseteq items'
        /\ \A r \in Range(ring) : r <= lastId' => Covers(items', r)
    <2>1. CASE fetch = FetchFailed /\ UNCHANGED <<items, dedupe, lastId>>
      <3>1. \A r \in Range(ring) : ~(r <= lastId')
        BY <1>3, <1>4, <2>1
      <3> QED BY <1>3, <1>4, <2>1, <3>1, NothingIs
    <2>2. CASE fetch # FetchFailed /\ Publish(fetch.ids, Rebuilt(fetch.ids))
      <3> DEFINE ids == fetch.ids
                 d == Rebuilt(ids)
      <3>1. Publish(ids, d) /\ ids \subseteq 1 .. Edge /\ ids \subseteq 0 .. Edge
        BY <1>4, <2>2
      <3>2. d \in Seq(Nat) /\ Range(d) \subseteq NewestIn(ids, FeedCap)
        BY <1>4, <3>1, RebuiltIs
      <3>3. \A i \in ids : \A r \in Range(ring) : r <= i => Covers(ids, r)
        BY <1>1 DEF FetchInv
      <3> HIDE DEF ids, d
      <3>4. /\ items' = NewestIn(ids, FeedCap) /\ dedupe' = d
            /\ items' \subseteq ids /\ lastId' \in 0 .. Edge /\ lastId <= lastId'
            /\ \A i \in ids : i <= lastId'
            /\ lastId' = lastId \/ (lastId' \in ids /\ lastId < lastId')
            /\ \A V, i : V \subseteq ids /\ i \in 0 .. Edge /\ Covers(V, i) => Covers(items', i)
        BY <1>4, <3>1, PublishIs
      <3>5. ASSUME NEW i \in items' PROVE i \in 1 .. lastId'
        <4>1. i \in ids /\ i <= lastId' /\ i \in 1 .. Edge
          BY <3>1, <3>4
        <4> QED BY <1>4, <3>4, <4>1
      <3>6. ASSUME NEW r \in Range(ring), r <= lastId' PROVE Covers(items', r)
        <4>1. lastId' \in ids /\ r \in 0 .. Edge
          BY <1>3, <1>4, <3>4, <3>6
        <4>2. Covers(ids, r)
          BY <3>3, <3>6, <4>1
        <4> QED BY <3>4, <4>1, <4>2
      <3> QED BY <3>2, <3>4, <3>5, <3>6
    <2> QED BY <1>2, <2>1, <2>2
  <1>7. SignalTypes'
    <2>1. items' \in SUBSET Nat /\ lastId' \in Nat
      BY <1>4, <1>6
    <2>2. fetch' \in [at : FetchStates, ids : SUBSET Nat]
      BY <1>2 DEF FetchStates
    <2> QED BY <1>1, <1>2, <1>6, <2>1, <2>2
          DEF SignalTypes, redisVars, ringVars, Phases, FetchStates
  <1>8. RingInv'
    BY <1>1, <1>2, <1>5 DEF RingInv, ringVars, NoRead
  <1>9. KnownInv'
    <2>3. Range(dedupe') \subseteq 1 .. lastId'
      BY <1>6
    <2>4. lastId' <= Edge
      BY <1>4, <1>6
    <2>1. Range(dedupe') \subseteq 1 .. lastId' /\ lastId' <= Edge
      BY <2>3, <2>4
    <2>2. url' <= lastId'
      BY <1>2, <1>4, <1>6
    <2> QED BY <1>1, <1>2, <1>3, <1>5, <1>6, <2>1, <2>2 DEF KnownInv, NoBuffer
  <1>10. StreamInv'
    BY <1>1, <1>2, <1>3, <1>5 DEF StreamInv, Queued, Reset
  <1>11. FetchInv'
    BY <1>2, <1>3 DEF FetchInv, NoBuffer
  <1>12. ViewInv'
    BY <1>2, <1>3, <1>6 DEF ViewInv, NoBuffer, Covers
  <1>13. ConnectInv'
    <2>1. ASSUME NEW r \in Range(ring'), url' < r, r <= lastId' PROVE FALSE
      BY <1>2, <1>4, <1>5, <1>6, <2>1
    <2> QED BY <2>1 DEF ConnectInv
  <1>14. CompleteInv'
    BY <1>2, <1>3, <1>5, <1>6 DEF CompleteInv, Held, NoBuffer
  <1> QED BY <1>7, <1>8, <1>9, <1>10, <1>11, <1>12, <1>13, <1>14 DEF FeedInv

\* The frames that are left when the first one has arrived.
LEMMA RestAscends ==
  ASSUME SignalTypes, StreamInv, wire # <<>>, NEW rest, rest = Tail(wire)
  PROVE  /\ rest \in Seq(Nat)
         /\ \A n \in 1 .. Len(rest) : rest[n] <= delivered
         /\ \A n \in 1 .. Len(rest) : rest[n] # Reset /\ wire[1] <= rest[n]
         /\ \A n \in 1 .. Len(rest) : \A m \in 1 .. n - 1 : rest[m] <= rest[n]
  <1>1. /\ wire \in Seq(Nat) /\ Len(wire) \in Nat
        /\ rest \in Seq(Nat) /\ Len(rest) = Len(wire) - 1
        /\ \A n \in 1 .. Len(rest) : rest[n] = wire[n + 1]
    BY TailIs, PlacesIs DEF SignalTypes
  <1>2. ASSUME NEW n \in 1 .. Len(rest)
        PROVE  /\ rest[n] <= delivered /\ rest[n] # Reset /\ wire[1] <= rest[n]
               /\ \A m \in 1 .. n - 1 : rest[m] <= rest[n]
    <2>1. n + 1 \in 1 .. Len(wire) /\ rest[n] = wire[n + 1] /\ 1 \in 1 .. (n + 1) - 1
      BY <1>1
    <2>2. ASSUME NEW m \in 1 .. n - 1 PROVE rest[m] <= rest[n]
      <3>1. m \in 1 .. Len(rest) /\ m + 1 \in 1 .. (n + 1) - 1
        BY <1>1
      <3>2. wire[m + 1] <= wire[n + 1]
        BY <2>1, <3>1 DEF StreamInv
      <3> QED BY <1>1, <2>1, <3>1, <3>2
    <2>3. wire[n + 1] <= delivered /\ wire[n + 1] # Reset /\ wire[1] <= wire[n + 1]
      BY <2>1 DEF StreamInv
    <2> QED BY <2>1, <2>2, <2>3
  <1> QED BY <1>1, <1>2

\* The reset frame: the snapshot asked for covers the whole ring.
LEMMA ResetStep ==
  ASSUME FeedInv, ResetArrives
  PROVE  FeedInv'
  <1>1. SignalTypes /\ RingInv /\ KnownInv /\ StreamInv /\ FetchInv /\ ViewInv /\ ConnectInv
        /\ CompleteInv
    BY DEF FeedInv
  <1> DEFINE rest == Tail(wire)
  <1>2. /\ wire # <<>> /\ wire' = rest /\ resetBuffer' = {}
        /\ fetch' = [at |-> "asked", ids |-> {}] /\ fetch'.at = "asked" /\ fetch'.ids = {}
        /\ UNCHANGED <<redisVars, ringVars, queue, delivered, phase, url, items, dedupe, lastId,
                       missed, feedFaults>>
    BY DEF ResetArrives, FetchAsked
  <1>3. /\ wire \in Seq(Nat) /\ Len(wire) \in Nat
        /\ rest \in Seq(Nat) /\ Len(rest) = Len(wire) - 1
        /\ \A n \in 1 .. Len(rest) : rest[n] = wire[n + 1]
    BY <1>1, <1>2, TailIs, PlacesIs DEF SignalTypes
  <1>14. /\ \A n \in 1 .. Len(rest) : rest[n] <= delivered
         /\ \A n \in 1 .. Len(rest) : rest[n] # Reset
         /\ \A n \in 1 .. Len(rest) : \A m \in 1 .. n - 1 : rest[m] <= rest[n]
    BY <1>1, <1>2, RestAscends
  <1> HIDE DEF rest
  <1>4. phase = "live" /\ {} # NoBuffer
    BY <1>1, <1>2 DEF StreamInv, NoBuffer
  <1>5. Edge' = Edge /\ ring' = ring
    BY <1>2 DEF Edge, NoRead, redisVars, ringVars
  <1>6. SignalTypes'
    <2>1. fetch' \in [at : FetchStates, ids : SUBSET Nat]
      BY <1>2 DEF FetchStates
    <2> QED BY <1>1, <1>2, <1>3, <2>1
          DEF SignalTypes, redisVars, ringVars, Phases, FetchStates
  <1>7. RingInv'
    BY <1>1, <1>2, <1>5 DEF RingInv, ringVars, NoRead
  <1>8. KnownInv'
    BY <1>1, <1>2, <1>5 DEF KnownInv, NoBuffer
  <1>9. StreamInv'
    BY <1>1, <1>2, <1>3, <1>4, <1>5, <1>14 DEF StreamInv, Queued, Reset
  <1>10. FetchInv'
    BY <1>2, <1>4 DEF FetchInv, NoBuffer
  <1>11. ViewInv'
    BY <1>1, <1>2 DEF ViewInv, NoBuffer
  <1>12. ConnectInv'
    BY <1>2, <1>4 DEF ConnectInv
  <1>13. CompleteInv'
    <2>1. \A r : Held(r)'
      BY <1>2, <1>4 DEF Held, NoBuffer
    <2> QED BY <2>1 DEF CompleteInv
  <1> QED BY <1>6, <1>7, <1>8, <1>9, <1>10, <1>11, <1>12, <1>13 DEF FeedInv

\* The snapshot of a reset joins what arrived meanwhile; without it a gap is admitted.
LEMMA LandsStep ==
  ASSUME FeedInv, ResetLands
  PROVE  /\ FeedInv'
         /\ \A i \in resetBuffer : Covers(items', i)
  <1>1. SignalTypes /\ RingInv /\ KnownInv /\ StreamInv /\ FetchInv /\ ViewInv /\ ConnectInv
        /\ CompleteInv
    BY DEF FeedInv
  <1> DEFINE all == fetch.ids \cup resetBuffer
             d == Rebuilt(all)
  <1>2. /\ resetBuffer # NoBuffer /\ fetch.at \in {"answered", "failed"}
        /\ fetch' = [at |-> "none", ids |-> {}] /\ fetch'.at = "none" /\ fetch'.ids = {}
        /\ resetBuffer' = NoBuffer
        /\ UNCHANGED <<redisVars, ringVars, connVars, feedFaults>>
        /\ \/ fetch = FetchFailed /\ missed' = TRUE /\ UNCHANGED <<items, dedupe, lastId>>
           \/ fetch # FetchFailed /\ Publish(all, d) /\ missed' = missed
    BY DEF ResetLands, MergedSnapshot, NoFetch
  <1>3. fetch = FetchFailed \/ (fetch # FetchFailed /\ fetch.at = "answered")
    BY <1>1, <1>2, FetchIs
  <1>4. /\ Edge \in Nat /\ Range(ring) \subseteq 1 .. Edge /\ lastId \in 0 .. Edge
        /\ resetBuffer \subseteq 1 .. lastId /\ fetch.ids \subseteq 1 .. Edge
        /\ items \subseteq 1 .. lastId /\ Range(dedupe) \subseteq 1 .. lastId
        /\ url <= lastId /\ url \in Nat
    BY <1>1, <1>2, KnownIs DEF KnownInv
  <1>5. phase # "hydrating"
    BY <1>1, <1>2 DEF FetchInv
  <1>6. Edge' = Edge /\ ring' = ring
    BY <1>2 DEF Edge, NoRead, redisVars, ringVars
  <1>7. all \subseteq 1 .. Edge /\ all \subseteq 0 .. Edge
    <2>1. \A i \in resetBuffer : i \in 1 .. Edge
      BY <1>4
    <2>2. all \subseteq 1 .. Edge
      BY <1>4, <2>1
    <2> HIDE DEF all
    <2> QED BY <1>4, <2>2
  <1>8. ASSUME fetch # FetchFailed
        PROVE  /\ d \in Seq(Nat) /\ Range(d) \subseteq items'
               /\ dedupe' = d
               /\ items' \subseteq all /\ lastId' \in 0 .. Edge /\ lastId <= lastId'
               /\ \A i \in all : i <= lastId'
               /\ lastId' = lastId \/ (lastId' \in all /\ lastId < lastId')
               /\ \A V, i : V \subseteq all /\ i \in 0 .. Edge /\ Covers(V, i) => Covers(items', i)
    <2>1. Publish(all, d)
      BY <1>2, <1>8
    <2>2. d \in Seq(Nat) /\ Range(d) \subseteq NewestIn(all, FeedCap)
      BY <1>4, <1>7, RebuiltIs
    <2> HIDE DEF all, d
    <2>3. lastId \in 0 .. Edge /\ all \subseteq 1 .. Edge /\ Edge \in Nat
      BY <1>4, <1>7
    <2>4. /\ items' = NewestIn(all, FeedCap) /\ dedupe' = d
          /\ items' \subseteq all /\ lastId' \in 0 .. Edge /\ lastId <= lastId'
          /\ \A i \in all : i <= lastId'
          /\ lastId' = lastId \/ (lastId' \in all /\ lastId < lastId')
          /\ \A V, i : V \subseteq all /\ i \in 0 .. Edge /\ Covers(V, i) => Covers(items', i)
      BY <2>1, <2>3, PublishIs
    <2> QED BY <2>2, <2>4
  <1>9. fetch.ids \subseteq all /\ resetBuffer \subseteq all
    OBVIOUS
  <1> HIDE DEF d
  <1>10. /\ items' \subseteq 1 .. lastId' /\ lastId' \in 0 .. Edge /\ lastId <= lastId'
         /\ dedupe' \in Seq(Nat) /\ \A i \in Range(dedupe') : Covers(items', i)
         /\ Range(dedupe') \subseteq 1 .. lastId'
    <2>1. CASE fetch = FetchFailed
      <3>1. items' = items /\ dedupe' = dedupe /\ lastId' = lastId
        BY <1>2, <2>1
      <3>2. dedupe \in Seq(Nat) /\ \A i \in Range(dedupe) : Covers(items, i)
        BY <1>1 DEF ViewInv, SignalTypes
      <3> QED BY <1>4, <3>1, <3>2
    <2>2. CASE fetch # FetchFailed
      <3>1. ASSUME NEW i \in items' PROVE i \in 1 .. lastId'
        <4> HIDE DEF all
        <4>1. i \in all /\ i <= lastId' /\ i \in 1 .. Edge
          BY <1>7, <1>8, <2>2
        <4> QED BY <1>4, <1>8, <2>2, <4>1
      <3>2. \A i \in Range(dedupe') : i \in items'
        BY <1>8, <2>2
      <3>3. Range(dedupe') \subseteq 1 .. lastId'
        BY <3>1, <3>2
      <3> QED BY <1>4, <1>8, <2>2, <3>1, <3>2, <3>3 DEF Covers
    <2> QED BY <2>1, <2>2
  <1>11. \A i \in resetBuffer : Covers(items', i)
    <2> SUFFICES ASSUME NEW i \in resetBuffer PROVE Covers(items', i)
      OBVIOUS
    <2>1. CASE fetch = FetchFailed
      BY <1>1, <1>2, <2>1 DEF ViewInv
    <2>2. CASE fetch # FetchFailed
      <3>1. Covers(resetBuffer, i) /\ i \in 0 .. Edge
        BY <1>4 DEF Covers
      <3> HIDE DEF all
      <3> QED BY <1>8, <1>9, <2>2, <3>1
    <2> QED BY <2>1, <2>2
  <1>12. ASSUME NEW r \in Range(ring), fetch # FetchFailed, r <= lastId', r <= lastId => Held(r)
         PROVE  Covers(items', r)
    <2>1. r \in 0 .. Edge /\ r \in Nat
      BY <1>4
    <2>2. Covers(all, r)
      <3>1. CASE r <= lastId
        <4>1. Held(r) /\ fetch.at = "answered"
          BY <1>3, <1>12, <3>1
        <4> QED BY <1>2, <4>1 DEF Held
      <3>2. CASE ~(r <= lastId)
        <4>1. lastId' \in fetch.ids
          <5>1. lastId' \in all /\ lastId < lastId'
            <6> HIDE DEF all
            <6> QED BY <1>4, <1>8, <1>12, <2>1, <3>2
          <5>2. \A i \in resetBuffer : i <= lastId /\ i \in Nat
            BY <1>4
          <5>3. lastId' \notin resetBuffer
            BY <1>4, <1>10, <5>1, <5>2
          <5> QED BY <5>1, <5>3
        <4>2. Covers(fetch.ids, r)
          BY <1>1, <1>12, <4>1 DEF FetchInv
        <4> HIDE DEF all
        <4> QED BY <1>4, <1>7, <1>9, <4>2, CoverGrows
      <3> QED BY <3>1, <3>2
    <2> HIDE DEF all
    <2> QED BY <1>8, <1>12, <2>1, <2>2
  <1> HIDE DEF all
  <1>13. SignalTypes'
    <2>1. items' \in SUBSET Nat /\ lastId' \in Nat
      BY <1>4, <1>10
    <2>2. fetch' \in [at : FetchStates, ids : SUBSET Nat] /\ resetBuffer' \in SUBSET Nat
      BY <1>2 DEF FetchStates, NoBuffer
    <2>3. missed' \in BOOLEAN
      BY <1>1, <1>2 DEF SignalTypes
    <2> QED BY <1>1, <1>2, <1>10, <2>1, <2>2, <2>3
          DEF SignalTypes, redisVars, ringVars, connVars, Phases, FetchStates
  <1>14. RingInv'
    BY <1>1, <1>2, <1>6 DEF RingInv, ringVars, NoRead
  <1>15. KnownInv'
    <2>1. lastId' <= Edge
      BY <1>4, <1>10
    <2>2. url <= lastId'
      BY <1>4, <1>10
    <2> QED BY <1>1, <1>2, <1>6, <1>10, <2>1, <2>2 DEF KnownInv, connVars, NoBuffer
  <1>16. StreamInv'
    BY <1>1, <1>2, <1>6 DEF StreamInv, connVars, Queued, Reset
  <1>17. FetchInv'
    BY <1>2, <1>5 DEF FetchInv, connVars, NoBuffer
  <1>18. ViewInv'
    BY <1>2, <1>10 DEF ViewInv, NoBuffer
  <1>19. ConnectInv'
    <2> SUFFICES ASSUME phase = "connecting", NEW r \in Range(ring), url < r, r <= lastId'
                 PROVE  Covers(items', r)
      BY <1>2, <1>6 DEF ConnectInv, connVars, NoBuffer
    <2>1. ~(r <= lastId)
      BY <1>1, <1>2 DEF ConnectInv
    <2>2. fetch # FetchFailed
      BY <1>2, <2>1
    <2> QED BY <1>12, <2>1, <2>2
  <1>20. CompleteInv'
    <2> SUFFICES ASSUME ~missed' PROVE CompleteInv'
      BY DEF CompleteInv
    <2>1. ~missed /\ fetch # FetchFailed
      BY <1>2
    <2>2. ASSUME NEW r \in Range(ring), r <= lastId' PROVE Held(r)'
      <3>1. r <= lastId => Held(r)
        BY <1>1, <1>5, <2>1 DEF CompleteInv
      <3>2. Covers(items', r)
        BY <1>12, <2>1, <2>2, <3>1
      <3> QED BY <1>2, <3>2 DEF Held, NoBuffer
    <2>3. ASSUME phase = "live", NEW r \in Range(ring)
          PROVE  \/ Held(r)' \/ r \in Range(wire) \/ r \in Range(queue)
                 \/ Reset \in Range(wire)
      <3>1. \/ Held(r) \/ r \in Range(wire) \/ r \in Range(queue) \/ Reset \in Range(wire)
        BY <1>1, <1>5, <2>1, <2>3 DEF CompleteInv
      <3>2. CASE Held(r)
        <4>1. r \in Nat /\ r \in 0 .. Edge
          BY <1>4
        <4>2. Covers(all, r)
          BY <1>2, <1>3, <2>1, <3>2 DEF Held, all
        <4>3. Covers(items', r)
          BY <1>8, <2>1, <4>1, <4>2
        <4> QED BY <1>2, <4>3 DEF Held, NoBuffer
      <3> QED BY <3>1, <3>2
    <2> QED BY <1>2, <1>6, <2>2, <2>3 DEF CompleteInv, connVars, Reset
  <1> QED BY <1>11, <1>13, <1>14, <1>15, <1>16, <1>17, <1>18, <1>19, <1>20 DEF FeedInv

LEMMA RememberIs ==
  ASSUME SignalTypes, NEW id \in Nat
  PROVE  Remember(id) \in Seq(Nat) /\ Range(Remember(id)) \subseteq Range(dedupe) \cup {id}
  <1>1. dedupe \in Seq(Nat) /\ DedupeCap \in Nat /\ DedupeCap # 0
    BY DEF SignalTypes
  <1>2. CASE Len(dedupe) = DedupeCap
    <2>1. dedupe # <<>>
      BY <1>1, <1>2, NothingIs
    <2> DEFINE t == Tail(dedupe)
    <2>2. t \in Seq(Nat) /\ Range(t) \subseteq Range(dedupe)
      BY <1>1, <2>1, TailIs
    <2>3. Remember(id) = Append(t, id)
      BY <1>2 DEF Remember
    <2> HIDE DEF t
    <2> QED BY <2>2, <2>3, GrownIs
  <1>3. CASE Len(dedupe) # DedupeCap
    <2>1. Remember(id) = Append(dedupe, id)
      BY <1>3 DEF Remember
    <2> QED BY <1>1, <2>1, GrownIs
  <1> QED BY <1>2, <1>3

\* An envelope: it is the oldest of what is pending, so nothing is skipped.
LEMMA EnvelopeStep ==
  ASSUME FeedInv, EnvelopeArrives
  PROVE  FeedInv' /\ (resetBuffer # NoBuffer => resetBuffer' # NoBuffer)
  <1>1. SignalTypes /\ RingInv /\ KnownInv /\ StreamInv /\ FetchInv /\ ViewInv /\ ConnectInv
        /\ CompleteInv
    BY DEF FeedInv
  <1>0. PICK id : id = Head(wire)
    OBVIOUS
  <1> DEFINE rest == Tail(wire)
             shown == items \cup {id}
             d == Remember(id)
             buffered == resetBuffer \cup {id}
             kept == NewestIn(buffered, DedupeCap)
  <1>2. /\ wire # <<>> /\ id # Reset /\ wire' = rest
        /\ resetBuffer' = IF resetBuffer = NoBuffer THEN NoBuffer ELSE kept
        /\ \/ id \in Range(dedupe) /\ UNCHANGED <<items, dedupe, lastId>>
           \/ id \notin Range(dedupe) /\ Publish(shown, d)
        /\ UNCHANGED <<redisVars, ringVars, queue, delivered, phase, url, fetch, missed,
                       feedFaults>>
    BY <1>0 DEF EnvelopeArrives
  <1>3. /\ wire \in Seq(Nat) /\ Len(wire) \in Nat /\ Len(wire) >= 1 /\ id = wire[1] /\ id \in Nat
        /\ rest \in Seq(Nat) /\ Range(wire) \subseteq {id} \cup Range(rest)
        /\ Range(rest) \subseteq Range(wire)
    BY <1>0, <1>1, <1>2, TailIs, PlacesIs DEF SignalTypes
  <1>4. /\ \A n \in 1 .. Len(rest) : rest[n] <= delivered
        /\ \A n \in 1 .. Len(rest) : rest[n] # Reset /\ wire[1] <= rest[n]
        /\ \A n \in 1 .. Len(rest) : \A m \in 1 .. n - 1 : rest[m] <= rest[n]
    BY <1>1, <1>2, RestAscends
  <1>5. d \in Seq(Nat) /\ Range(d) \subseteq Range(dedupe) \cup {id}
    BY <1>1, <1>3, RememberIs
  <1> HIDE DEF rest, d
  <1>6. /\ Edge \in Nat /\ Range(ring) \subseteq 1 .. Edge /\ lastId \in 0 .. Edge
        /\ fetch.ids \subseteq 1 .. Edge /\ fetch.ids \subseteq 0 .. Edge
        /\ items \subseteq 1 .. lastId /\ Range(dedupe) \subseteq 1 .. lastId
        /\ items \subseteq 0 .. Edge /\ resetBuffer \subseteq 0 .. Edge
        /\ url <= lastId /\ url \in Nat /\ delivered \in 0 .. Edge
        /\ resetBuffer # NoBuffer => resetBuffer \subseteq 1 .. lastId
    BY <1>1, KnownIs DEF KnownInv
  <1>7. phase = "live" /\ id <= delivered /\ id \in 1 .. Edge
    <2>1. phase = "live"
      BY <1>1, <1>2 DEF StreamInv
    <2>2. 1 \in 1 .. Len(wire)
      BY <1>3
    <2>3. id <= delivered
      BY <1>1, <1>3, <2>2 DEF StreamInv
    <2> QED BY <1>2, <1>3, <1>6, <2>1, <2>3 DEF Reset
  <1>8. Reset \notin Range(wire) /\ \A r \in Range(rest) : id <= r
    <2>1. ASSUME NEW r \in Range(rest) PROVE id <= r /\ r # Reset
      <3>1. PICK n \in 1 .. Len(rest) : r = rest[n]
        BY <1>3, PlacesIs
      <3> QED BY <1>3, <1>4, <3>1
    <2> QED BY <1>2, <1>3, <2>1
  <1>9. \A r \in Range(queue) : id < r
    <2> SUFFICES ASSUME NEW r \in Range(queue) PROVE id < r
      OBVIOUS
    <2>1. queue \in Seq(Nat)
      BY <1>1 DEF SignalTypes
    <2>2. PICK n \in 1 .. Len(queue) : r = queue[n]
      BY <2>1, PlacesIs
    <2>3. delivered < r /\ r \in Nat
      BY <1>1, <2>1, <2>2, PlacesIs DEF StreamInv, Queued
    <2> QED BY <1>3, <1>6, <1>7, <2>3
  <1>10. Edge' = Edge /\ ring' = ring
    BY <1>2 DEF Edge, NoRead, redisVars, ringVars
  <1>11. {id} \subseteq 0 .. Edge /\ Covers({id}, id) /\ id \in 0 .. Edge
    BY <1>6, <1>7 DEF Covers
  \* What is published.
  <1>12. ASSUME id \notin Range(dedupe)
         PROVE  /\ dedupe' = d
                /\ items' \subseteq shown /\ lastId' \in 0 .. Edge /\ lastId <= lastId'
                /\ \A i \in shown : i <= lastId'
                /\ lastId' = lastId \/ (lastId' = id /\ lastId < lastId')
                /\ \A i \in 0 .. Edge : Covers(items, i) => Covers(items', i)
                /\ Covers(items', id)
    <2>1. Publish(shown, d)
      BY <1>2, <1>12
    <2>2. shown \subseteq 1 .. Edge
      <3>1. \A i \in items : i \in 1 .. Edge
        BY <1>6
      <3> QED BY <1>7, <3>1
    <2>3. items \subseteq shown /\ {id} \subseteq shown
      OBVIOUS
    <2>4. \A i \in shown : i = id \/ i \in 1 .. lastId
      BY <1>6
    <2> HIDE DEF shown
    <2>5. /\ dedupe' = d
          /\ items' \subseteq shown /\ lastId' \in 0 .. Edge /\ lastId <= lastId'
          /\ \A i \in shown : i <= lastId'
          /\ lastId' = lastId \/ (lastId' \in shown /\ lastId < lastId')
          /\ \A V, i : V \subseteq shown /\ i \in 0 .. Edge /\ Covers(V, i) => Covers(items', i)
      BY <1>6, <2>1, <2>2, PublishIs
    <2>6. lastId' = lastId \/ (lastId' = id /\ lastId < lastId')
      BY <1>6, <2>4, <2>5
    <2> QED BY <1>11, <2>3, <2>5, <2>6
  <1>13. /\ items' \subseteq 1 .. lastId' /\ lastId' \in 0 .. Edge /\ lastId <= lastId'
         /\ dedupe' \in Seq(Nat) /\ Range(dedupe') \subseteq Range(dedupe) \cup {id}
         /\ id <= lastId' /\ (lastId' = lastId \/ lastId' = id)
         /\ \A i \in 0 .. Edge : Covers(items, i) => Covers(items', i)
         /\ Covers(items', id)
    <2>1. CASE id \in Range(dedupe)
      <3>1. items' = items /\ dedupe' = dedupe /\ lastId' = lastId
        BY <1>2, <2>1
      <3>2. Covers(items, id) /\ id <= lastId /\ dedupe \in Seq(Nat)
        BY <1>1, <1>6, <2>1 DEF ViewInv, SignalTypes
      <3> QED BY <1>6, <3>1, <3>2
    <2>2. CASE id \notin Range(dedupe)
      <3>1. ASSUME NEW i \in items' PROVE i \in 1 .. lastId'
        <4>1. i \in shown /\ i <= lastId'
          BY <1>12, <2>2
        <4>2. i \in Nat /\ i >= 1
          BY <1>6, <1>7, <4>1
        <4> QED BY <1>6, <1>12, <2>2, <4>1, <4>2
      <3>2. id <= lastId'
        BY <1>12, <2>2
      <3> QED BY <1>5, <1>12, <2>2, <3>1, <3>2
    <2> QED BY <2>1, <2>2
  <1> HIDE DEF shown
  \* What is kept for the snapshot.
  <1>14. buffered \subseteq 0 .. Edge /\ kept \subseteq buffered
    BY <1>6, <1>7 DEF NewestIn
  <1>15. ASSUME NEW V, V \subseteq fetch.ids \cup buffered, NEW i \in 0 .. Edge, Covers(V, i)
         PROVE  Covers(fetch.ids \cup kept, i)
    <2> DEFINE k == DedupeCap
               F == fetch.ids
    <2>1. k \in Nat /\ FeedCap <= k
      BY ShownIsRemembered
    <2>2. F \subseteq 0 .. Edge /\ buffered \subseteq 0 .. Edge /\ V \subseteq F \cup buffered
          /\ V \subseteq 0 .. Edge
      BY <1>6, <1>14, <1>15
    <2> HIDE DEF k, F, buffered, kept
    <2>3. Covers(F \cup NewestIn(buffered, k), i)
      BY <1>6, <1>15, <2>1, <2>2, CoverStays
    <2> QED BY <2>3 DEF k, F, kept
  <1> HIDE DEF kept
  <1>16. /\ resetBuffer = NoBuffer <=> resetBuffer' = NoBuffer
         /\ resetBuffer # NoBuffer => resetBuffer' = kept /\ resetBuffer' \subseteq 1 .. lastId'
         /\ resetBuffer' \subseteq Nat
    <2>1. CASE resetBuffer = NoBuffer
      <3>1. resetBuffer' = NoBuffer
        BY <1>2, <2>1
      <3> QED BY <2>1, <3>1 DEF NoBuffer
    <2>2. CASE resetBuffer # NoBuffer
      <3>1. resetBuffer' = kept
        BY <1>2, <2>2
      <3>2. ASSUME NEW i \in kept PROVE i \in 1 .. lastId'
        <4>1. i \in resetBuffer \/ i = id
          BY <1>14
        <4>3. ASSUME i \in resetBuffer PROVE i \in 1 .. lastId
          BY <1>6, <2>2, <4>3
        <4>2. i \in Nat /\ i >= 1 /\ (i <= lastId \/ i = id)
          BY <1>6, <1>7, <4>1, <4>3
        <4> QED BY <1>6, <1>13, <4>2
      <3>3. kept # NoBuffer
        BY <3>2 DEF NoBuffer
      <3> QED BY <2>2, <3>1, <3>2, <3>3
    <2> QED BY <2>1, <2>2
  \* What was held stays held, and the id of the envelope is held now.
  <1>17. ASSUME NEW r \in 0 .. Edge, Held(r) PROVE Held(r)'
    <2>1. CASE resetBuffer # NoBuffer /\ fetch.at \in {"asked", "failed"}
      BY <1>2, <1>16, <2>1 DEF Held, NoBuffer
    <2>2. CASE resetBuffer # NoBuffer /\ fetch.at = "answered"
               /\ Covers(fetch.ids \cup resetBuffer, r)
      <3> DEFINE V == fetch.ids \cup resetBuffer
      <3>1. V \subseteq fetch.ids \cup buffered /\ Covers(V, r)
        BY <2>2
      <3> HIDE DEF V, buffered
      <3>2. Covers(fetch.ids \cup kept, r)
        BY <1>15, <3>1
      <3> QED BY <1>2, <1>16, <2>2, <3>2 DEF Held, NoBuffer
    <2>3. CASE resetBuffer = NoBuffer /\ Covers(items, r)
      BY <1>13, <1>16, <2>3 DEF Held, NoBuffer
    <2> QED BY <1>17, <2>1, <2>2, <2>3 DEF Held
  <1>18. Held(id)'
    <2>1. CASE resetBuffer = NoBuffer
      BY <1>13, <1>16, <2>1 DEF Held, NoBuffer
    <2>2. CASE resetBuffer # NoBuffer
      <3>1. fetch.at \in {"asked", "answered", "failed"}
        BY <1>1, <1>7, <2>2 DEF FetchInv, SignalTypes, FetchStates
      <3>2. {id} \subseteq fetch.ids \cup buffered
        OBVIOUS
      <3> HIDE DEF buffered
      <3>3. Covers(fetch.ids \cup kept, id)
        BY <1>11, <1>15, <3>2
      <3> QED BY <1>2, <1>16, <2>2, <3>1, <3>3 DEF Held, NoBuffer
    <2> QED BY <2>1, <2>2
  <1>19. SignalTypes'
    <2>1. items' \in SUBSET Nat /\ lastId' \in Nat
      BY <1>6, <1>13
    <2> QED BY <1>1, <1>2, <1>3, <1>13, <1>16, <2>1
          DEF SignalTypes, redisVars, ringVars, Phases, FetchStates
  <1>20. RingInv'
    BY <1>1, <1>2, <1>10 DEF RingInv, ringVars, NoRead
  <1>21. KnownInv'
    <2>1. Range(dedupe') \subseteq 1 .. lastId'
      <3> SUFFICES ASSUME NEW i \in Range(dedupe') PROVE i \in 1 .. lastId'
        OBVIOUS
      <3>1. i \in 1 .. lastId \/ i = id
        BY <1>6, <1>13
      <3> QED BY <1>6, <1>7, <1>13, <3>1
    <2>2. lastId' <= Edge /\ url <= lastId'
      BY <1>6, <1>13
    <2> QED BY <1>1, <1>2, <1>10, <1>13, <1>16, <2>1, <2>2 DEF KnownInv, NoBuffer
  <1>22. StreamInv'
    BY <1>1, <1>2, <1>4, <1>7, <1>10 DEF StreamInv, Queued, Reset
  <1>23. FetchInv'
    BY <1>1, <1>2, <1>7, <1>10, <1>16 DEF FetchInv, NoBuffer
  <1>24. ViewInv'
    <2>1. ASSUME NEW i \in Range(dedupe') PROVE Covers(items', i)
      <3>1. CASE i = id
        BY <1>13, <3>1
      <3>2. CASE i \in Range(dedupe)
        BY <1>1, <1>6, <1>13, <3>2 DEF ViewInv
      <3> QED BY <1>13, <3>1, <3>2
    <2>2. ASSUME resetBuffer # NoBuffer, NEW i \in kept PROVE Covers(items', i)
      <3>1. i = id \/ i \in resetBuffer
        BY <1>14
      <3>2. CASE i \in resetBuffer
        BY <1>1, <1>6, <1>13, <2>2, <3>2 DEF ViewInv
      <3> QED BY <1>13, <3>1, <3>2
    <2> QED BY <1>16, <2>1, <2>2 DEF ViewInv, NoBuffer
  <1>25. ConnectInv'
    BY <1>2, <1>7 DEF ConnectInv
  <1>26. CompleteInv'
    <2> SUFFICES ASSUME ~missed' PROVE CompleteInv'
      BY DEF CompleteInv
    <2>1. ~missed
      BY <1>2
    <2>2. ASSUME NEW r \in Range(ring) PROVE Held(r)' \/ r \in Range(rest) \/ r \in Range(queue)
      <3>1. Held(r) \/ r \in Range(wire) \/ r \in Range(queue)
        BY <1>1, <1>7, <1>8, <2>1 DEF CompleteInv
      <3>2. r \in 0 .. Edge
        BY <1>6
      <3> QED BY <1>3, <1>17, <1>18, <3>1, <3>2
    <2>3. ASSUME NEW r \in Range(ring), r <= lastId' PROVE Held(r)'
      <3>1. r \in 0 .. Edge /\ r \in Nat
        BY <1>6
      <3>2. CASE r <= lastId
        <4>1. Held(r)
          BY <1>1, <1>7, <2>1, <3>2 DEF CompleteInv
        <4> QED BY <1>17, <3>1, <4>1
      <3>3. CASE ~(r <= lastId)
        <4>1. lastId' = id /\ r <= id
          BY <1>13, <2>3, <3>3
        <4>2. CASE r \in Range(rest)
          <5>1. r = id
            BY <1>3, <1>8, <3>1, <4>1, <4>2
          <5> QED BY <1>18, <5>1
        <4>3. CASE r \in Range(queue)
          BY <1>3, <1>9, <3>1, <4>1, <4>3
        <4> QED BY <2>2, <4>2, <4>3
      <3> QED BY <3>2, <3>3
    <2> QED BY <1>2, <1>10, <2>2, <2>3 DEF CompleteInv, Reset
  <1> QED BY <1>16, <1>19, <1>20, <1>21, <1>22, <1>23, <1>24, <1>25, <1>26 DEF FeedInv

\* A lost connection and the reconnect that follows: what was under way is asked for again.
LEMMA ConnectionStep ==
  ASSUME FeedInv, ConnectionLost \/ Reconnect
  PROVE  FeedInv'
  <1>1. SignalTypes /\ RingInv /\ KnownInv /\ StreamInv /\ FetchInv /\ ViewInv /\ ConnectInv
        /\ CompleteInv
    BY DEF FeedInv
  <1>2. /\ UNCHANGED <<redisVars, ringVars, viewVars, missed>>
        /\ queue' = <<>> /\ wire' = <<>> /\ delivered' \in {delivered, NoId}
        /\ url' \in {NoId, lastId} /\ phase # "hydrating"
        /\ \/ phase' = "backoff"
           \/ phase' = "connecting" /\ url' = lastId
        /\ feedFaults' \in {feedFaults, feedFaults + 1}
    <2>1. CASE ConnectionLost
      BY <2>1 DEF ConnectionLost, Disconnected
    <2>2. CASE Reconnect
      BY <1>1, <2>2 DEF Reconnect, StreamInv
    <2> QED BY <2>1, <2>2
  <1>3. Edge' = Edge /\ ring' = ring
    BY <1>2 DEF Edge, NoRead, redisVars, ringVars
  <1>4. /\ Edge \in Nat /\ lastId \in 0 .. Edge /\ delivered \in 0 .. Edge
        /\ Range(ring) \subseteq 1 .. Edge
    BY <1>1, KnownIs
  <1>5. SignalTypes'
    BY <1>1, <1>2, NothingIs
       DEF SignalTypes, redisVars, ringVars, viewVars, Phases, FetchStates
  <1>6. RingInv'
    BY <1>1, <1>2, <1>3 DEF RingInv, ringVars, NoRead
  <1>7. KnownInv'
    BY <1>1, <1>2, <1>3, <1>4 DEF KnownInv, viewVars, NoBuffer
  <1>8. StreamInv'
    BY <1>2, NothingIs DEF StreamInv, Queued
  <1>9. FetchInv'
    BY <1>1, <1>2, <1>3 DEF FetchInv, viewVars, NoBuffer
  <1>10. ViewInv'
    BY <1>1, <1>2 DEF ViewInv, viewVars, NoBuffer
  <1>11. ConnectInv'
    <2>1. ASSUME phase' = "connecting", NEW r \in Range(ring'), url' < r, r <= lastId' PROVE FALSE
      <3>1. lastId' = lastId /\ url' = lastId /\ r \in Nat
        BY <1>2, <1>3, <1>4, <2>1 DEF viewVars
      <3> QED BY <1>4, <2>1, <3>1
    <2> QED BY <2>1 DEF ConnectInv
  <1>12. CompleteInv'
    <2>1. \A r : Held(r)' <=> Held(r)
      BY <1>2 DEF Held, viewVars, NoBuffer
    <2> QED BY <1>1, <1>2, <1>3, <2>1 DEF CompleteInv, viewVars
  <1> QED BY <1>5, <1>6, <1>7, <1>8, <1>9, <1>10, <1>11, <1>12 DEF FeedInv

\* A restart forgets the ring.
LEMMA RestartStep ==
  ASSUME FeedInv, BackendRestarts
  PROVE  FeedInv'
  <1>1. SignalTypes /\ RingInv /\ KnownInv /\ StreamInv /\ FetchInv /\ ViewInv /\ ConnectInv
        /\ CompleteInv
    BY DEF FeedInv
  <1>2. /\ cursor' = NoId /\ reading' = NoRead /\ ring' = <<>> /\ seen' = {}
        /\ fetch' = IF fetch = FetchAsked THEN [at |-> "failed", ids |-> {}] ELSE fetch
        /\ phase' = IF phase = "hydrating" THEN phase ELSE "backoff"
        /\ queue' = <<>> /\ wire' = <<>> /\ delivered' = NoId /\ url' = NoId
        /\ feedFaults' = feedFaults + 1
        /\ UNCHANGED <<redisVars, items, dedupe, lastId, resetBuffer, missed>>
    BY DEF BackendRestarts, Disconnected, FetchFailed
  <1>3. Edge' = added /\ Edge \in Nat /\ added \in Nat /\ Edge <= added
    BY <1>1, <1>2, EdgeIs DEF Edge, NoRead, redisVars
  <1>4. lastId \in 0 .. Edge
    BY <1>1, KnownIs
  <1>5. /\ fetch' \in [at : FetchStates, ids : SUBSET Nat]
        /\ fetch'.ids \subseteq fetch.ids /\ (fetch'.at = "none" <=> fetch.at = "none")
        /\ fetch'.at # "answered" => fetch'.ids = {}
    <2>1. CASE fetch = FetchAsked
      <3>1. fetch' = [at |-> "failed", ids |-> {}] /\ fetch.at = "asked"
        BY <1>2, <2>1 DEF FetchAsked
      <3> QED BY <3>1 DEF FetchStates
    <2>2. CASE fetch # FetchAsked
      <3>1. fetch' = fetch
        BY <1>2, <2>2
      <3> QED BY <1>1, <3>1 DEF SignalTypes, FetchInv
    <2> QED BY <2>1, <2>2
  <1>6. SignalTypes'
    <2>1. cursor' \in 0 .. added' /\ {} \in SUBSET Nat
      BY <1>2, <1>3 DEF redisVars
    <2> QED BY <1>1, <1>2, <1>5, <2>1, NothingIs
          DEF SignalTypes, redisVars, Phases, FetchStates, NoRead
  <1>7. RingInv'
    BY <1>2, <1>3, NoRun DEF RingInv, NoRead
  <1>8. KnownInv'
    <2>1. fetch'.ids \subseteq 1 .. Edge'
      BY <1>1, <1>3, <1>5 DEF KnownInv
    <2>2. url' <= lastId' /\ lastId' <= Edge' /\ delivered' <= Edge'
      BY <1>2, <1>3, <1>4
    <2> QED BY <1>1, <1>2, <2>1, <2>2 DEF KnownInv, NoBuffer
  <1>9. StreamInv'
    BY <1>2, NothingIs DEF StreamInv, Queued
  <1>10. FetchInv'
    BY <1>1, <1>2, <1>5, NothingIs DEF FetchInv, NoBuffer
  <1>11. ViewInv'
    BY <1>1, <1>2 DEF ViewInv, NoBuffer
  <1>12. ConnectInv'
    BY <1>2, NothingIs DEF ConnectInv
  <1>13. CompleteInv'
    BY <1>2, NothingIs DEF CompleteInv
  <1> QED BY <1>6, <1>7, <1>8, <1>9, <1>10, <1>11, <1>12, <1>13 DEF FeedInv

-------------------------------------------------------------------------------
(* The theorems about the signal feed. *)

LEMMA FeedStarts == FeedInit => FeedInv
  <1> SUFFICES ASSUME FeedInit PROVE FeedInv
    OBVIOUS
  <1> USE DEF FeedInit
  <1>1. Edge = 0
    BY DEF Edge, NoRead
  <1>2. fetch = [at |-> "asked", ids |-> {}] /\ fetch.at = "asked" /\ fetch.ids = {}
    BY DEF FetchAsked
  <1>3. SignalTypes
    <2>1. fetch \in [at : FetchStates, ids : SUBSET Nat] /\ resetBuffer \in SUBSET Nat
      BY <1>2 DEF FetchStates, NoBuffer
    <2>2. added \in 0 .. MaxRecords /\ cursor \in 0 .. added /\ horizon \in Nat
      OBVIOUS
    <2> QED BY <2>1, <2>2, NothingIs DEF SignalTypes, Phases
  <1>4. RingInv
    BY <1>1, NoRun DEF RingInv
  <1>5. KnownInv
    BY <1>1, <1>2, NothingIs DEF KnownInv
  <1>6. StreamInv
    BY <1>1, NothingIs DEF StreamInv, Queued
  <1>7. FetchInv
    BY <1>2 DEF FetchInv
  <1>8. ViewInv
    BY NothingIs DEF ViewInv
  <1>9. ConnectInv /\ CompleteInv
    BY DEF ConnectInv, CompleteInv
  <1> QED BY <1>3, <1>4, <1>5, <1>6, <1>7, <1>8, <1>9 DEF FeedInv

LEMMA FeedGoesOn == FeedInv /\ [FeedNext]_feedVars => FeedInv'
  <1> SUFFICES ASSUME FeedInv, [FeedNext]_feedVars PROVE FeedInv'
    OBVIOUS
  <1>1. CASE UNCHANGED feedVars
    <2>1. Edge' = Edge
      BY <1>1 DEF feedVars, redisVars, ringVars, Edge, NoRead
    <2>2. \A r : Held(r)' <=> Held(r)
      BY <1>1 DEF feedVars, viewVars, Held, NoBuffer
    <2> USE <1>1, <2>1, <2>2 DEF feedVars, redisVars, ringVars, connVars, viewVars, FeedInv
    <2>3. SignalTypes'
      BY DEF SignalTypes, NoRead, Phases, FetchStates
    <2>4. RingInv' /\ KnownInv'
      BY DEF RingInv, KnownInv, NoRead, NoBuffer
    <2>5. StreamInv'
      BY DEF StreamInv, Queued, Reset
    <2>6. FetchInv' /\ ViewInv'
      BY DEF FetchInv, ViewInv, NoBuffer
    <2>7. ConnectInv' /\ CompleteInv'
      BY DEF ConnectInv, CompleteInv, NoBuffer, Reset
    <2> QED BY <2>3, <2>4, <2>5, <2>6, <2>7
  <1>2. CASE FeedNext
    <2>1. CASE RecordAdded \/ WindowMoves \/ PollBegins \/ PollFails
      BY <2>1, ReaderStep
    <2>2. CASE PollReturns
      BY <2>2, ReplyStep
    <2>3. CASE ServerAccepts
      BY <2>3, AcceptStep
    <2>4. CASE ServerSends
      BY <2>4, SendStep
    <2>5. CASE RestAnswers
      BY <2>5, AnswerStep
    <2>6. CASE RestFails
      BY <2>6, RestFailStep
    <2>7. CASE Hydrated
      BY <2>7, HydratedStep
    <2>8. CASE ResetLands
      BY <2>8, LandsStep
    <2>9. CASE ResetArrives
      BY <2>9, ResetStep
    <2>10. CASE EnvelopeArrives
      BY <2>10, EnvelopeStep
    <2>11. CASE ConnectionLost \/ Reconnect
      BY <2>11, ConnectionStep
    <2>12. CASE BackendRestarts
      BY <2>12, RestartStep
    <2> QED BY <1>2, <2>1, <2>2, <2>3, <2>4, <2>5, <2>6, <2>7, <2>8, <2>9, <2>10, <2>11, <2>12
          DEF FeedNext, Fault
  <1> QED BY <1>1, <1>2

\* The ring, the frames under way, the snapshots and the cursor of the browser
\* (SignalStream, the generator of /signals/stream, useSignalFeed) stay in step in
\* every reachable state.
THEOREM FeedInvariant == FeedSpec => []FeedInv
  BY FeedStarts, FeedGoesOn, PTL DEF FeedSpec

\* Whatever batches, errors and new Redis clients there were, the ring buffer holds a
\* run of consecutive records.
THEOREM RingNeverHasHole == FeedSpec => []RingHasNoHole
  <1>1. FeedInv => RingHasNoHole
    <2> SUFFICES ASSUME FeedInv, NEW n \in 1 .. Len(ring) - 1 PROVE ring[n + 1] = ring[n] + 1
      BY DEF RingHasNoHole
    <2>1. Edge \in Nat /\ RunsTo(ring, Edge) /\ Len(ring) \in Nat
      BY EdgeIs, IdsIs DEF FeedInv, RingInv
    <2>2. n \in 1 .. Len(ring) /\ n + 1 \in 1 .. Len(ring)
      BY <2>1
    <2>3. ring[n] = Edge - Len(ring) + n /\ ring[n + 1] = Edge - Len(ring) + (n + 1)
      BY <2>1, <2>2 DEF RunsTo
    <2> QED BY <2>1, <2>3
  <1> QED BY <1>1, FeedInvariant, PTL

\* When nothing is under way and nothing was dropped, the landing page shows the newest
\* FeedCap signals of the ring, whatever was lost, replayed or reset before.
THEOREM FeedAlwaysComplete == FeedSpec => []QuietFeedComplete
  <1>1. FeedInv => QuietFeedComplete
    <2> SUFFICES ASSUME FeedInv, FeedQuiet, ~missed, NEW r \in NewestIn(Range(ring), FeedCap)
                 PROVE  r \in items
      BY DEF QuietFeedComplete
    <2>1. SignalTypes /\ RingInv /\ KnownInv /\ CompleteInv
      BY DEF FeedInv
    <2>2. /\ r \in Range(ring)
          /\ Cardinality(Above(Range(ring), r)) < FeedCap
      BY DEF NewestIn, Above
    <2>3. Covers(items, r)
      <3>1. Held(r)
        BY <2>1, <2>2, NothingIs DEF FeedQuiet, CompleteInv
      <3> QED BY <3>1 DEF FeedQuiet, Held, NoFetch
    <2>4. /\ Edge \in Nat /\ items \subseteq 0 .. Edge /\ Range(ring) \subseteq 0 .. Edge
          /\ Range(ring) = Edge - Len(ring) + 1 .. Edge /\ Len(ring) \in Nat
      BY <2>1, KnownIs, IdsIs DEF RingInv
    <2>5. Above(items, r) \subseteq Above(Range(ring), r)
      <3> SUFFICES ASSUME NEW j \in items, j > r PROVE j \in Range(ring)
        BY DEF Above
      <3>1. j \in 0 .. Edge /\ r \in Edge - Len(ring) + 1 .. Edge
        BY <2>2, <2>4
      <3>2. j \in Edge - Len(ring) + 1 .. Edge
        BY <2>4, <3>1
      <3> QED BY <2>4, <3>2
    <2>6. /\ Cardinality(Above(items, r)) \in Nat /\ Cardinality(Above(Range(ring), r)) \in Nat
          /\ Cardinality(Above(items, r)) <= Cardinality(Above(Range(ring), r))
      <3>1. Above(Range(ring), r) \subseteq 0 .. Edge
        BY <2>4 DEF Above
      <3> QED BY <2>4, <2>5, <3>1, FewerAbove
    <2>7. ~(Cardinality(Above(items, r)) >= FeedCap)
      BY <2>2, <2>6
    <2> QED BY <2>3, <2>7 DEF Covers
  <1> QED BY <1>1, FeedInvariant, PTL

\* No signal that arrived while the snapshot of a reset was fetched leaves the display
\* when the snapshot lands, unless newer ones fill it.
THEOREM ResetAlwaysKeepsLive == FeedSpec => ResetKeepsLive
  <1> DEFINE KeptLive == resetBuffer # NoBuffer /\ resetBuffer' = NoBuffer
                       => \A i \in resetBuffer :
                            i \in items' \/ Cardinality({j \in items' : j > i}) >= FeedCap
  <1>1. FeedInv /\ [FeedNext]_feedVars => [KeptLive]_viewVars
    <2> SUFFICES ASSUME FeedInv, [FeedNext]_feedVars, resetBuffer # NoBuffer,
                        resetBuffer' = NoBuffer, NEW i \in resetBuffer
                 PROVE  i \in items' \/ Cardinality({j \in items' : j > i}) >= FeedCap
      OBVIOUS
    <2>1. ResetLands
      <3>1. ~EnvelopeArrives
        BY EnvelopeStep
      <3>2. ~ResetArrives
        BY DEF ResetArrives, NoBuffer
      <3>3. resetBuffer' # resetBuffer
        OBVIOUS
      <3>4. FeedNext
        BY <3>3 DEF feedVars, viewVars
      <3> HIDE DEF KeptLive
      <3>5. ~(RecordAdded \/ WindowMoves \/ Fault \/ PollBegins \/ PollReturns \/ ServerAccepts
              \/ ServerSends \/ RestAnswers \/ Hydrated \/ Reconnect)
        BY <3>3 DEF RecordAdded, WindowMoves, Fault, PollFails, RestFails, ConnectionLost,
                    BackendRestarts, PollBegins, PollReturns, ServerAccepts, ServerSends,
                    RestAnswers, Hydrated, Reconnect, viewVars
      <3> QED BY <3>1, <3>2, <3>4, <3>5 DEF FeedNext
    <2>2. Covers(items', i)
      BY <2>1, LandsStep
    <2> QED BY <2>2 DEF Covers, Above
  <1> QED BY <1>1, FeedInvariant, PTL DEF FeedSpec, ResetKeepsLive

===============================================================================
