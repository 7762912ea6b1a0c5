---------------------------- MODULE ScopeNavigation ----------------------------
(***************************************************************************)
(* The browser's history and RouterScopeNavigation, the adapter through    *)
(* which the scope controller writes the spatial scope into the URL and    *)
(* hears of it.  Writes are serialised; a write is over when the router    *)
(* shows a location with its navigation id (the echo), or after a timeout. *)
(*                                                                         *)
(* A request is on its way until the router lands it; a newer one, or the  *)
(* Back button, takes its place.  The adapter hears of a location by an    *)
(* effect, which sees the newest one only.  When either happens is left    *)
(* open, as the port does.                                                 *)
(*                                                                         *)
(* The adapter's methods are operators on its state n; ScopeController.tla *)
(* has the actions.                                                        *)
(***************************************************************************)
EXTENDS Naturals, Sequences

CONSTANTS
  Scopes,        \* canonical scope keys
  World,         \* the scope of a URL without "scope"
  Spelling,      \* a candidate that is World in a non-canonical spelling
  Bad,           \* a candidate that is no scope key
  MaxIds         \* bound on navigation ids, above which are those of rollbacks

Candidates == Scopes \cup {Spelling, Bad}
Meaning(cand) == IF cand = Spelling THEN World ELSE cand

\* id 0 is "no navigation id", rev 0 "no catalog revision".
Entry(cand, rev, id) == [cand |-> cand, rev |-> rev, id |-> id]

\* The replace flag of a write is its mode.
NoWrite == [scope |-> World, rev |-> 0, id |-> 0, replace |-> FALSE]
NoRequest == [entry |-> Entry(World, 0, 0), replace |-> FALSE, on |-> FALSE]

NavigationAt(entry) ==
  [location |-> entry,      \* the location accepted last
   queue |-> <<>>,
   active |-> NoWrite,
   fallback |-> NoWrite,    \* what the active write falls back to
   desired |-> NoWrite,     \* latestDesired
   committed |-> NoWrite,   \* latestCommitted
   stale |-> {},            \* staleNavigationIds
   repairs |-> {},          \* repairNavigationIds
   going |-> NoRequest]     \* the router's pending navigation

Request(write, replace) ==
  [entry |-> Entry(write.scope, write.rev, write.id), replace |-> replace, on |-> TRUE]

Idle(n) == n.active = NoWrite

\* fallbackForCurrentLocation: the scope in the URL, under an id of its own.
Rollback(n, write) ==
  IF n.location.cand = Bad THEN NoWrite
  ELSE [scope |-> Meaning(n.location.cand), rev |-> write.rev,
        id |-> MaxIds + write.id, replace |-> TRUE]

Process(n) ==
  IF ~Idle(n) \/ n.queue = <<>> THEN n
  ELSE LET write == Head(n.queue) IN
       [n EXCEPT !.queue = Tail(@), !.active = write,
                 !.fallback = IF n.committed # NoWrite THEN n.committed ELSE Rollback(n, write),
                 !.going = Request(write, write.replace)]

WriteScope(n, write) ==
  Process([n EXCEPT !.desired = write, !.queue = Append(@, write)])

\* The listeners are told between the two halves of completeActive.
Completed(n) == [n EXCEPT !.active = NoWrite, !.committed = n.active]

\* Mutant: the next write is not taken up.
FailedActiveStalls(n, mayEchoLate) ==
  [n EXCEPT !.active = NoWrite,
            !.stale = IF mayEchoLate THEN @ \cup {n.active.id} ELSE @,
            !.desired = IF @.id = n.active.id THEN n.fallback ELSE @]

FailedActive(n, mayEchoLate) ==
  Process([n EXCEPT !.active = NoWrite,
                    !.stale = IF mayEchoLate THEN @ \cup {n.active.id} ELSE @,
                    !.desired = IF @.id = n.active.id THEN n.fallback ELSE @])

\* repairLatestLocation: the URL is set to what was wanted last.
Repaired(n) ==
  LET wanted == IF ~Idle(n) THEN n.active
                ELSE IF n.desired # NoWrite THEN n.desired ELSE n.committed
  IN  IF wanted = NoWrite THEN n
      ELSE [n EXCEPT !.repairs = IF Idle(n) THEN @ \cup {wanted.id} ELSE @,
                     !.going = Request(wanted, TRUE)]

\* What acceptLocation makes of a location.
IsOwnEcho(n, entry) == ~Idle(n) /\ entry.id = n.active.id
ConfirmsActive(n, entry) ==
  IsOwnEcho(n, entry) /\ entry.cand = n.active.scope /\ entry.rev = n.active.rev
IsStaleEcho(n, entry) == ~IsOwnEcho(n, entry) /\ entry.id \in n.stale
IsRepairEcho(n, entry) ==
  ~IsOwnEcho(n, entry) /\ entry.id \in n.repairs \ n.stale
===============================================================================
