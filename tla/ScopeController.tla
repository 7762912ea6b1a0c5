---------------------------- MODULE ScopeController ----------------------------
(***************************************************************************)
(* The spatial scope controller between the user, the catalog and the URL. *)
(* A foreground intent resolves its target with the catalog, writes the    *)
(* URL and commits when the URL is confirmed; a newer intent supersedes    *)
(* it.  Locations that are not the echo of a pending write are hydrated,   *)
(* as the Back button is.                                                  *)
(*                                                                         *)
(* What a method does before its first await is one step, and so is the    *)
(* catch of a superseded intent: both run before the next event.           *)
(***************************************************************************)
EXTENDS ScopeNavigation

CONSTANTS
  Parent,       \* the parent of a scope; World is its own
  MaxRev,       \* bound on catalog revisions
  MaxMoves,     \* bound on the user's commands
  MaxFaults     \* bound on failures

ASSUME ScopeAssumption ==
  /\ World \in Scopes /\ Parent \in [Scopes -> Scopes]
  /\ Spelling \notin Scopes /\ Bad \notin Scopes \cup {Spelling}
  /\ MaxIds \in Nat /\ MaxRev \in Nat \ {0} /\ MaxMoves \in Nat /\ MaxFaults \in Nat

VARIABLES
  entries, pos,  \* the browser's history and where it is
  unseen,        \* the location has changed since the effect ran
  nav,           \* the adapter
  ctl,           \* the controller
  active,        \* the active catalog revision
  moves, faults,
  wanted,        \* history: the scope of the user's last command, if it still stands
  overtaken,     \* history: the user has acted while the URL was on its way
  refused        \* history: a write of the URL has failed, and none succeeded since

browserVars == <<entries, pos, unseen>>
scopeVars == <<browserVars, nav, ctl, active, moves, faults, wanted>>
vars == <<scopeVars, overtaken, refused>>

Anything == "anything"

NoIntent == [at |-> "none", target |-> World, rev |-> 0, mode |-> "none", id |-> 0,
             fallback |-> FALSE, repair |-> FALSE, problem |-> "none"]

Hydrating == [started |-> FALSE, phase |-> "hydrating", scope |-> World, rev |-> 0,
              problem |-> "none", offered |-> 0, intent |-> NoIntent, ids |-> {}, lastId |-> 0]

State == [nav |-> nav, ctl |-> ctl]
Become(s) == nav' = s.nav /\ ctl' = s.ctl

-------------------------------------------------------------------------------
(* The controller's methods, on the state s of adapter and controller *)

\* Mutant: the navigation id of a dropped intent stays pending.
DroppedKeepsId(s) == [s EXCEPT !.ctl.intent = NoIntent]

\* The foreground intent is superseded, cancelled or finished.
Dropped(s) == [s EXCEPT !.ctl.intent = NoIntent, !.ctl.ids = @ \ {s.ctl.intent.id}]

Settled(s) == IF s.ctl.phase = "resolving" THEN [s EXCEPT !.ctl.phase = "ready"] ELSE s

\* Mutant: the command that changes nothing supersedes nothing.
UnchangedKeepsIntent(s) == s

\* finishUnchanged and cancelPending.
Unchanged(s) == IF s.ctl.intent.at = "none" THEN s ELSE Settled(Dropped(s))

PublishFailure(s, problem) == Settled([Dropped(s) EXCEPT !.ctl.problem = problem])

\* beginForeground and publishResolving.
Run(s, intent) ==
  [Dropped(s) EXCEPT !.ctl.intent = [intent EXCEPT !.at = "resolve"],
                     !.ctl.problem = "none",
                     !.ctl.phase = IF @ = "hydrating" THEN @ ELSE "resolving"]

Foreground(target, rev, mode) ==
  [NoIntent EXCEPT !.target = target, !.rev = rev, !.mode = mode]

\* writeScope under a fresh navigation id.
Write(s, at, scope, rev, replace) ==
  LET id == s.ctl.lastId + 1 IN
  [s EXCEPT !.ctl.lastId = id, !.ctl.ids = @ \cup {id},
            !.ctl.intent.at = at, !.ctl.intent.id = id,
            !.nav = WriteScope(@, [scope |-> scope, rev |-> rev, id |-> id, replace |-> replace])]

\* replaceCommittedLocation; there is nothing to write while hydrating.
ReplaceLocation(s, problem) ==
  LET begun == [Dropped(s) EXCEPT !.ctl.intent = [NoIntent EXCEPT !.problem = problem]]
  IN  Write(begun, "replace", s.ctl.scope, s.ctl.rev, TRUE)

Hydrate(s, target, rev, deepLink, misspelt) ==
  IF s.ctl.phase # "hydrating" /\ s.ctl.scope = target /\ rev \in {0, s.ctl.rev}
  THEN IF misspelt THEN ReplaceLocation(s, "none") ELSE Unchanged(s)
  ELSE Run(s, [Foreground(target, rev, IF misspelt THEN "replace" ELSE "none")
                 EXCEPT !.fallback = deepLink /\ s.ctl.phase = "hydrating",
                        !.repair = ~deepLink])

HydrateCandidate(s, entry, deepLink) ==
  IF entry.cand # Bad
  THEN Hydrate(s, Meaning(entry.cand), entry.rev, deepLink, entry.cand = Spelling)
  ELSE IF deepLink /\ s.ctl.phase = "hydrating"
       THEN Run(s, [Foreground(World, 0, "replace") EXCEPT !.problem = "bad"])
       ELSE IF ~deepLink /\ s.ctl.phase # "hydrating"
            THEN ReplaceLocation(s, "bad")
            ELSE [s EXCEPT !.ctl.problem = "bad"]

\* The listener: the echo of a pending write is not hydrated.
OnLocation(s, entry) ==
  IF ~s.ctl.started THEN s
  ELSE IF entry.id \in s.ctl.ids THEN [s EXCEPT !.ctl.ids = @ \ {entry.id}]
  ELSE HydrateCandidate(s, entry, FALSE)

Commit(s, scope, rev) ==
  LET problem == s.ctl.intent.problem IN
  [Dropped(s) EXCEPT !.ctl.phase = "ready", !.ctl.scope = scope, !.ctl.rev = rev,
                     !.ctl.problem = problem]

\* The write of the intent is confirmed.
Confirmed(s, write) ==
  LET intent == s.ctl.intent IN
  IF intent.at = "none" \/ intent.id # write.id THEN s
  ELSE IF intent.at = "write" THEN Commit(s, write.scope, write.rev)
  ELSE IF intent.problem # "none" THEN PublishFailure(s, intent.problem)
  ELSE Dropped(s)

\* The catch of runForeground, and those of the two repairs.
Failed(s, problem) ==
  LET intent == s.ctl.intent IN
  IF intent.at \in {"resolve", "write"} /\ intent.fallback /\ intent.target # World
  THEN Run(s, [Foreground(World, 0, "replace") EXCEPT !.problem = problem])
  ELSE IF intent.at \in {"resolve", "write"} /\ intent.repair /\ s.ctl.phase # "hydrating"
       THEN Write([s EXCEPT !.ctl.intent.problem = problem, !.ctl.ids = @ \ {intent.id}],
                  "repair", s.ctl.scope, s.ctl.rev, TRUE)
       ELSE PublishFailure(s, problem)

AcceptLocation(s, entry) ==
  LET here == [s EXCEPT !.nav.location = entry]
      told == OnLocation([here EXCEPT !.nav = Completed(@)], entry)
      heard == [here.nav EXCEPT !.stale = @ \ {entry.id}]
  IN  IF ConfirmsActive(s.nav, entry)
      THEN Confirmed([told EXCEPT !.nav = Process(@)], s.nav.active)
      ELSE IF IsOwnEcho(s.nav, entry) THEN here
      ELSE IF IsStaleEcho(s.nav, entry)
           THEN [here EXCEPT !.nav = Repaired(heard)]
           ELSE IF IsRepairEcho(s.nav, entry)
                THEN [here EXCEPT !.nav.repairs = @ \ {entry.id}]
                ELSE OnLocation(here, entry)

-------------------------------------------------------------------------------
(* The user *)

Move == moves < MaxMoves /\ moves' = moves + 1

Enter(target) ==
  /\ Move /\ ctl.started
  /\ LET hydrating == ctl.phase = "hydrating" IN
     IF ~hydrating /\ ctl.scope = target
     THEN Become(Unchanged(State))
     ELSE Become(Run(State, Foreground(target, ctl.rev, "push")))
  /\ wanted' = target
  /\ UNCHANGED <<browserVars, active, faults>>

Ascend ==
  /\ Move /\ ctl.started
  /\ IF ctl.phase = "hydrating" \/ ctl.scope = World
     THEN Become(Unchanged(State)) /\ wanted' = Anything
     ELSE /\ Become(Run(State, Foreground(Parent[ctl.scope], ctl.rev, "push")))
          /\ wanted' = Parent[ctl.scope]
  /\ UNCHANGED <<browserVars, active, faults>>

CancelPending ==
  /\ Move /\ ctl.intent.at # "none" /\ ctl.phase = "resolving"
  /\ Become(Unchanged(State))
  /\ wanted' = Anything
  /\ UNCHANGED <<browserVars, active, faults>>

\* The visible offer to load the active catalog revision after a 409.
Rehydrate ==
  /\ Move /\ ctl.phase # "hydrating" /\ ctl.problem = "revision"
  /\ Become(Run(State, Foreground(ctl.scope, ctl.offered, "replace")))
  /\ wanted' = Anything
  /\ UNCHANGED <<browserVars, active, faults>>

\* Back, Forward, or a jump in the history.
GoBack ==
  /\ Move
  /\ pos' \in DOMAIN entries \ {pos}
  /\ unseen' = TRUE
  /\ nav' = [nav EXCEPT !.going = NoRequest]
  /\ wanted' = Anything
  /\ UNCHANGED <<entries, ctl, active, faults>>

\* The provider mounts, and hydrates from the URL.
Start ==
  /\ ~ctl.started
  /\ Become(HydrateCandidate([nav |-> nav, ctl |-> [ctl EXCEPT !.started = TRUE]],
                             nav.location, TRUE))
  /\ UNCHANGED <<browserVars, active, moves, faults, wanted>>

\* The page is loaded again: the history keeps its entries and the navigation
\* ids in them, and the ids start over.
Reload ==
  /\ Move /\ ctl.started
  /\ nav' = NavigationAt(entries[pos]) /\ unseen' = FALSE
  /\ ctl' = Hydrating
  /\ wanted' = Anything
  /\ UNCHANGED <<entries, pos, active, faults>>

-------------------------------------------------------------------------------
(* Browser and catalog *)

Land ==
  /\ nav.going.on
  /\ entries' = IF nav.going.replace
                THEN [entries EXCEPT ![pos] = nav.going.entry]
                ELSE Append(SubSeq(entries, 1, pos), nav.going.entry)
  /\ pos' = IF nav.going.replace THEN pos ELSE pos + 1
  /\ unseen' = TRUE
  /\ nav' = [nav EXCEPT !.going = NoRequest]
  /\ UNCHANGED <<ctl, active, moves, faults, wanted>>

Echo ==
  /\ unseen
  /\ unseen' = FALSE
  /\ Become(AcceptLocation(State, entries[pos]))
  /\ UNCHANGED <<entries, pos, active, moves, faults, wanted>>

Rejected(write, mayEchoLate, n) ==
  LET s == [State EXCEPT !.nav = FailedActive(n, mayEchoLate)] IN
  Become(IF ctl.intent.at # "none" /\ ctl.intent.id = write.id
         THEN Failed(s, "url") ELSE s)

\* No echo within two seconds.  A fault of the router, unless the user's Back
\* took the place of the navigation and there is no echo to come.
Timeout ==
  /\ ~Idle(nav)
  /\ IF nav.going.on \/ unseen
     THEN faults < MaxFaults /\ faults' = faults + 1
     ELSE faults' = faults
  /\ Rejected(nav.active, TRUE, nav)
  /\ wanted' = Anything
  /\ UNCHANGED <<browserVars, active, moves>>

\* The router refuses the navigation; nothing lands.
NavigateFails ==
  /\ ~Idle(nav) /\ nav.going.on /\ nav.going.entry.id = nav.active.id
  /\ faults < MaxFaults /\ faults' = faults + 1
  /\ Rejected(nav.active, FALSE, [nav EXCEPT !.going = NoRequest])
  /\ wanted' = Anything
  /\ UNCHANGED <<browserVars, active, moves>>

\* An intent without a navigation mode came from the URL and commits at once.
Resolve ==
  /\ ctl.intent.at = "resolve" /\ ctl.intent.rev \in {0, active}
  /\ LET intent == ctl.intent IN
     Become(IF intent.mode = "none" THEN Commit(State, intent.target, active)
            ELSE Write(State, "write", intent.target, active, intent.mode = "replace"))
  /\ UNCHANGED <<browserVars, active, moves, faults, wanted>>

\* 409: the revision is not the active one any more.
RevisionGone ==
  /\ ctl.intent.at = "resolve" /\ ctl.intent.rev \notin {0, active}
  /\ Become(Failed([State EXCEPT !.ctl.offered = active], "revision"))
  /\ wanted' = Anything
  /\ UNCHANGED <<browserVars, active, moves, faults>>

ResolveFails ==
  /\ ctl.intent.at = "resolve"
  /\ faults < MaxFaults /\ faults' = faults + 1
  /\ Become(Failed(State, "catalog"))
  /\ wanted' = Anything
  /\ UNCHANGED <<browserVars, active, moves>>

PublishCatalog ==
  /\ active < MaxRev /\ active' = active + 1
  /\ UNCHANGED <<browserVars, nav, ctl, moves, faults, wanted>>

-------------------------------------------------------------------------------
Init ==
  /\ \E cand \in Candidates :
       /\ entries = <<Entry(cand, 0, 0)>>
       /\ nav = NavigationAt(Entry(cand, 0, 0))
  /\ pos = 1 /\ unseen = FALSE
  /\ ctl = Hydrating
  /\ active = 1 /\ moves = 0 /\ faults = 0 /\ wanted = Anything
  /\ overtaken = FALSE /\ refused = FALSE

User ==
  \/ \E target \in Scopes : Enter(target)
  \/ Ascend \/ CancelPending \/ Rehydrate \/ GoBack \/ Reload

System == Start \/ Land \/ Echo \/ Resolve \/ RevisionGone

\* The user acts while the URL is written, repaired or read, or the URL is
\* written before it has been read.
Overtakes ==
  \/ /\ moves' # moves
     /\ ~Idle(nav) \/ nav.going.on \/ unseen \/ nav.repairs # {} \/ ctl.intent.repair
  \/ nav'.going.on /\ unseen'

\* The page is loaded again, or a write is confirmed and the adapter expects no
\* late echo any more.
Renews ==
  \/ ~ctl'.started
  \/ ~Idle(nav) /\ Idle(nav') /\ nav'.stale \cup nav'.repairs = {}

Next ==
  /\ \/ /\ User \/ System \/ ResolveFails \/ PublishCatalog
        /\ refused' = (refused /\ ~Renews)
     \/ /\ Timeout \/ NavigateFails
        /\ refused' = TRUE
  /\ overtaken' = (overtaken \/ Overtakes)

Spec == Init /\ [][Next]_vars

FairSpec == Spec /\ WF_scopeVars(Start) /\ WF_scopeVars(Land) /\ WF_scopeVars(Echo)
                 /\ WF_scopeVars(Resolve \/ RevisionGone) /\ WF_scopeVars(Timeout)

-------------------------------------------------------------------------------
(* Properties *)

Quiet ==
  /\ ctl.started /\ ctl.intent.at = "none"
  /\ Idle(nav) /\ nav.queue = <<>> /\ ~nav.going.on /\ ~unseen

\* When nothing is under way, a URL that names a scope names the committed one, in
\* its canonical spelling: whatever was superseded while it resolved, failed to
\* resolve, or was gone back to.  After a write that failed or timed out this is
\* so again when the next one is confirmed and no late echo is expected.  The user
\* must not have acted while the URL was on its way: then it may not be.
UrlNamesScope ==
  Quiet /\ ctl.phase = "ready" /\ ~refused /\ ~overtaken
    => entries[pos].cand \in {ctl.scope, Bad}

\* Last intent wins: when nothing is under way, the scope is the one the user
\* asked for last, unless the command failed or was cancelled.
LastIntentWins ==
  Quiet /\ wanted # Anything /\ ctl.phase # "hydrating" => ctl.scope = wanted

\* The same, when the user never acted while the URL was on its way.
LastPromptIntentWins == overtaken \/ LastIntentWins

\* The controller comes to rest again and again: every intent, write, repair and
\* hydration ends, whatever supersedes what.
ComesToRest == []<>Quiet
===============================================================================
