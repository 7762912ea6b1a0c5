------------------------------ MODULE BriefingPage ------------------------------
(***************************************************************************)
(* One open briefing page and the other clients of the dossier store.  The *)
(* page loads the list of dossiers and, for the one it shows, the chat;    *)
(* the user selects, creates and deletes dossiers and asks the model about *)
(* the one shown.  Other clients save country briefings and create,        *)
(* publish and delete dossiers.                                            *)
(*                                                                         *)
(* An event handler, the state it sets and the effects React runs after    *)
(* the commit are one step.                                                *)
(***************************************************************************)
EXTENDS ReportStore, SequencesExt

CONSTANTS
  Asks,        \* the analyses the user asks for
  Clients,     \* the other clients
  NewButton, DeleteButton,
  Budgets      \* bounds: how often the user and the clients do what in one behaviour,
               \* how many calls go wrong, and whether the page is open already

ASSUME PageAssumption ==
  /\ Calls = Asks \cup Clients \cup {NewButton, DeleteButton}
  /\ NewButton \notin Asks \cup Clients /\ DeleteButton \notin Asks \cup Clients \cup {NewButton}
  /\ Asks \cap Clients = {}

VARIABLES
  page,      \* the state of the component
  listing,   \* the request for the list: what it has read
  loads,     \* the requests for a chat
  left,      \* what is left of the budget
  seen       \* history: the dossier and the messages a load last brought, by number

pageVars == <<page, listing, loads, left, seen>>
vars == <<storeVars, pageVars>>

Acts == {"select", "ask", "cancel", "create", "delete",
         "reload", "clientSave", "clientCreate", "clientDelete", "clientStatus"}

Spend(act) == left[act] > 0 /\ left' = [left EXCEPT ![act] = @ - 1]

NotAsked == [at |-> "none", rows |-> <<>>]
Waiting == [at |-> "server", rows |-> <<>>]
NoRow == [id |-> 0, birth |-> 0]
NoRun == [ask |-> NoCall, id |-> 0]

\* Calls of a kind are alike: the next one to be made.
FirstIdle(c, S) == call[c].at = "idle" /\ c = CHOOSE d \in S : call[d].at = "idle"

Row(n) == [id |-> n, birth |-> reports[n].birth]

\* The numbers of the store, the newest first.
NewestFirst ==
  {s \in [1 .. Cardinality(DOMAIN reports) -> DOMAIN reports] :
     \A i, j \in DOMAIN s : i < j => s[i] > s[j]}

-------------------------------------------------------------------------------
(* Effects *)

Ids(p) == {p.rows[i].id : i \in DOMAIN p.rows}

\* selectedReport: the selected dossier, the first one where there is no such.
Shown(p) ==
  IF p.selected \in Ids(p)
  THEN p.rows[CHOOSE i \in DOMAIN p.rows : p.rows[i].id = p.selected]
  ELSE IF p.rows = <<>> THEN NoRow ELSE p.rows[1]

\* loadMessages: it is the newest load now.
StartLoad(p, n) ==
  /\ page' = [p EXCEPT !.loadingChat = TRUE, !.chatError = 0]
  /\ loads' = {[l EXCEPT !.newest = FALSE] : l \in loads}
                \cup {[id |-> n, at |-> "get", newest |-> TRUE, birth |-> 0, chat |-> <<>>]}

\* The effects of a new list or selection: a dossier newly shown is loaded.
Commit(p) ==
  LET row == Shown(p)
      q == [p EXCEPT !.selected = IF row = NoRow THEN @ ELSE row.id, !.shown = row]
  IN IF row.id \notin {0, p.shown.id}
     THEN StartLoad(q, row.id)
     ELSE page' = q /\ UNCHANGED loads

Added(p, n, m) == [p EXCEPT !.chat = Put(@, n, IF n \in DOMAIN @ THEN Append(@[n], m) ELSE <<m>>)]

-------------------------------------------------------------------------------
(* The list *)

ListReads ==
  /\ listing = Waiting
  /\ \E s \in NewestFirst : listing' = [at |-> "back", rows |-> [i \in DOMAIN s |-> Row(s[i])]]
  /\ UNCHANGED <<storeVars, page, loads, left, seen>>

\* setReports and setSelectedId of loadReports: without dossiers nothing is selected.
ListLands ==
  /\ listing.at = "back"
  /\ listing' = NotAsked
  /\ Commit([page EXCEPT !.rows = listing.rows,
                         !.selected = IF listing.rows = <<>> THEN 0 ELSE @])
  /\ UNCHANGED <<storeVars, left, seen>>

ListFails ==
  /\ listing # NotAsked /\ faults > 0
  /\ listing' = NotAsked /\ faults' = faults - 1
  /\ UNCHANGED <<reports, born, call, wire, met, page, loads, left, seen>>

\* The retry button of a list with nothing in it: it failed to load, there are no
\* dossiers, or the user's filter leaves none.
RetryList ==
  /\ listing = NotAsked
  /\ Spend("reload")
  /\ listing' = Waiting
  /\ UNCHANGED <<storeVars, page, loads, seen>>

-------------------------------------------------------------------------------
(* The chat *)

Moved(l, k) == loads' = (loads \ {l}) \cup k

LoadFinds(l) ==
  /\ l.at = "get"
  /\ Moved(l, {[l EXCEPT !.at = IF l.id \in DOMAIN reports THEN "list" ELSE "missing"]})
  /\ UNCHANGED <<storeVars, page, listing, left, seen>>

LoadReads(l) ==
  /\ l.at = "list"
  /\ Moved(l, {IF l.id \in DOMAIN reports
               THEN [l EXCEPT !.at = "back", !.birth = reports[l.id].birth,
                              !.chat = reports[l.id].chat]
               ELSE [l EXCEPT !.at = "back"]})
  /\ UNCHANGED <<storeVars, page, listing, left, seen>>

\* Mutant: an answer is taken whatever was asked since.
LoadTaken(l) == TRUE

\* Only the newest load may change the page.
Newest(l) == l.newest

LoadLands(l) ==
  /\ l.at \in {"back", "missing"}
  /\ Moved(l, {})
  /\ \/ ~Newest(l) /\ UNCHANGED <<page, seen>>
     \/ /\ Newest(l) /\ l.at = "missing"
        /\ page' = [page EXCEPT !.loadingChat = FALSE, !.chatError = l.id]
        /\ UNCHANGED seen
     \/ /\ Newest(l) /\ l.at = "back"
        /\ page' = [page EXCEPT !.chat = Put(@, l.id, l.chat), !.loadingChat = FALSE]
        /\ seen' = Put(seen, l.id, [birth |-> l.birth, count |-> Len(l.chat)])
  /\ UNCHANGED <<storeVars, listing, left>>

LoadFails(l) ==
  /\ l.at \in {"get", "list"} /\ faults > 0
  /\ faults' = faults - 1
  /\ Moved(l, {[l EXCEPT !.at = "missing"]})
  /\ UNCHANGED <<reports, born, call, wire, met, page, listing, left, seen>>

RetryLoad ==
  /\ page.chatError # 0 /\ page.chatError = page.shown.id
  /\ StartLoad(page, page.chatError)
  /\ UNCHANGED <<storeVars, listing, left, seen>>

-------------------------------------------------------------------------------
(* The analysis *)

\* askMunin
Ask(q) ==
  /\ FirstIdle(q, Asks)
  /\ page.shown # NoRow /\ ~page.asking
  /\ Spend("ask")
  /\ Send(q, "query", page.shown.id, page.shown.birth)
  /\ page' = [Added(page, page.shown.id, [role |-> "user", ask |-> q])
                EXCEPT !.run = [ask |-> q, id |-> page.shown.id],
                       !.asking = TRUE, !.pending = page.shown.id]
  /\ UNCHANGED <<listing, loads, seen>>

\* Mutant: what comes is put into the dossier that is shown.
ShownDossier == page.shown.id

\* The dossier the analysis was asked for.
AnalysisDossier == page.run.id

Told == Added(page, AnalysisDossier, [role |-> "munin", ask |-> page.run.ask])

\* The error effect: one more for the same dossier may have the same text as the
\* last, and is then not told.
ToldErrors == {[Told EXCEPT !.lastError = AnalysisDossier]}
                \cup (IF page.lastError = AnalysisDossier THEN {page} ELSE {})

\* The run is over: the chat of its dossier is loaded again.
Over(p) ==
  IF page.asking
  THEN IF page.pending # 0
       THEN StartLoad([p EXCEPT !.asking = FALSE, !.pending = 0], page.pending)
       ELSE page' = [p EXCEPT !.asking = FALSE] /\ UNCHANGED loads
  ELSE page' = p /\ UNCHANGED loads

Taken(q) == wire' = [wire EXCEPT ![q].events = Tail(@)]

Hears(q) ==
  /\ page.run.ask = q /\ wire[q].open /\ wire[q].events # <<>>
  /\ Taken(q)
  /\ \/ Head(wire[q].events) = "result" /\ page' = Told /\ UNCHANGED loads
     \/ Head(wire[q].events) = "error" /\ \E p \in ToldErrors : Over(p)
     \/ Head(wire[q].events) = "done" /\ Over(page)
  /\ UNCHANGED <<reports, born, call, faults, met, listing, left, seen>>

\* Mutant: a broken connection is not reported.
Unnoticed == page' = page /\ UNCHANGED loads

\* The fetch rejects or the stream breaks: the user is told, the run is over.
Noticed == \E p \in ToldErrors : Over(p)

Breaks(q) ==
  /\ page.run.ask = q /\ wire[q].open /\ faults > 0
  /\ call[q].at # "over" \/ wire[q].events # <<>>
  /\ faults' = faults - 1
  /\ wire' = [wire EXCEPT ![q] = Closed]
  /\ Noticed
  /\ UNCHANGED <<reports, born, call, met, listing, left, seen>>

\* The Cancel analysis button: nothing more is heard of the run.
Cancel(q) ==
  /\ page.run.ask = q /\ page.asking /\ page.shown # NoRow
  /\ Spend("cancel")
  /\ wire' = [wire EXCEPT ![q] = Closed]
  /\ Over(page)
  /\ UNCHANGED <<reports, born, call, faults, met, listing, seen>>

-------------------------------------------------------------------------------
(* The list of dossiers in the user's hands *)

Select(i) ==
  /\ i \in DOMAIN page.rows /\ page.rows[i].id # page.selected
  /\ Spend("select")
  /\ Commit([page EXCEPT !.selected = page.rows[i].id])
  /\ UNCHANGED <<storeVars, listing, seen>>

\* createDossier
Create ==
  /\ Spend("create")
  /\ Send(NewButton, "create", 0, 0)
  /\ UNCHANGED <<page, listing, loads, seen>>

PlaceOf(n) == CHOOSE i \in DOMAIN page.rows : page.rows[i].id = n
Others(n) == IF n \in Ids(page) THEN RemoveAt(page.rows, PlaceOf(n)) ELSE page.rows

Created ==
  /\ call[NewButton].at = "ok"
  /\ LET n == call[NewButton].id IN
     Commit([page EXCEPT !.rows = <<[id |-> n, birth |-> call[NewButton].of]>> \o Others(n),
                         !.selected = n])
  /\ Forget(NewButton)
  /\ UNCHANGED <<listing, left, seen>>

\* deleteDossier
Delete ==
  /\ page.shown # NoRow
  /\ Spend("delete")
  /\ Send(DeleteButton, "delete", page.shown.id, page.shown.birth)
  /\ UNCHANGED <<page, listing, loads, seen>>

\* applyDelete: the next dossier in the list, or else the one before.
AfterDelete(n) ==
  LET rest == Others(n)
  IN IF page.selected # n THEN page.selected
     ELSE IF rest = <<>> \/ n \notin Ids(page) THEN 0
     ELSE rest[IF PlaceOf(n) <= Len(rest) THEN PlaceOf(n) ELSE Len(rest)].id

Deleted ==
  /\ call[DeleteButton].at = "ok"
  /\ LET n == call[DeleteButton].id IN
     Commit([page EXCEPT !.rows = Others(n), !.selected = AfterDelete(n),
                         !.chat = Without(@, n)])
  /\ Forget(DeleteButton)
  /\ UNCHANGED <<listing, left, seen>>

\* A button's request failed, or its answer is lost.
ButtonFails(b) ==
  /\ b \in {NewButton, DeleteButton}
  /\ \/ call[b].at = "failed" /\ UNCHANGED faults
     \/ call[b].at = "ok" /\ faults > 0 /\ faults' = faults - 1
  /\ call' = [call EXCEPT ![b] = Idle]
  /\ UNCHANGED <<reports, born, wire, met, page, listing, loads, left, seen>>

-------------------------------------------------------------------------------
(* The other clients *)

ClientSends(c) ==
  /\ FirstIdle(c, Clients)
  /\ \/ Spend("clientSave") /\ Send(c, "save", 0, 0)
     \/ Spend("clientCreate") /\ Send(c, "create", 0, 0)
     \/ \E n \in DOMAIN reports :
          \/ Spend("clientDelete") /\ Send(c, "delete", n, reports[n].birth)
          \/ \E op \in {"publish", "withdraw"} :
               Spend("clientStatus") /\ Send(c, op, n, reports[n].birth)
  /\ UNCHANGED <<page, listing, loads, seen>>

ClientDone(c) == Forget(c) /\ UNCHANGED pageVars

ServerMoves(c) == ServerStep(c) /\ UNCHANGED pageVars

-------------------------------------------------------------------------------

Dossier(b, s) == [birth |-> b, scope |-> s, published |-> FALSE, application |-> NoCall,
                  chat |-> <<>>]

NewPage ==
  [rows |-> <<>>, selected |-> 0, shown |-> NoRow, chat |-> <<>>, loadingChat |-> FALSE, chatError |-> 0,
   run |-> NoRun, asking |-> FALSE, pending |-> 0, lastError |-> 0]

\* The page when the list and the chat of the newest dossier have come.
OpenPage ==
  [NewPage EXCEPT !.rows = <<Row(2), Row(1)>>, !.selected = 2, !.shown = Row(2),
                  !.chat = [n \in {2} |-> <<>>]]

Init ==
  /\ \E s \in Scopes : reports = <<Dossier(1, s), Dossier(2, "none")>>
  /\ born = 2
  /\ call = [c \in Calls |-> Idle]
  /\ wire = [c \in Calls |-> Closed]
  /\ met = {}
  /\ loads = {}
  /\ \E budget \in Budgets :
       /\ left = budget.acts /\ faults = budget.faults
       /\ IF budget.opened
          THEN /\ page = OpenPage /\ listing = NotAsked
               /\ seen = [n \in {2} |-> [birth |-> 2, count |-> 0]]
          ELSE page = NewPage /\ listing = Waiting /\ seen = <<>>

Next ==
  \/ \E c \in Calls : ServerMoves(c)
  \/ \E c \in Clients : ClientSends(c) \/ ClientDone(c)
  \/ ListReads \/ ListLands \/ ListFails \/ RetryList
  \/ \E l \in loads : LoadFinds(l) \/ LoadReads(l) \/ LoadLands(l) \/ LoadFails(l)
  \/ RetryLoad
  \/ \E q \in Asks : Ask(q) \/ Hears(q) \/ Breaks(q) \/ Cancel(q)
  \/ \E i \in DOMAIN page.rows : Select(i)
  \/ Create \/ Created \/ Delete \/ Deleted
  \/ \E b \in {NewButton, DeleteButton} : ButtonFails(b)

Spec == Init /\ [][Next]_vars

Fairness ==
  \A q \in Asks :
    /\ WF_vars(HandlerStep(q) /\ UNCHANGED pageVars)
    /\ WF_vars(Hears(q))

FairSpec == Spec /\ Fairness

-------------------------------------------------------------------------------
(* Properties *)

PageTypeOK ==
  /\ born \in Nat /\ faults \in Nat /\ met \subseteq Calls
  /\ \A n \in DOMAIN reports :
       /\ n \in Nat \ {0} /\ reports[n].birth \in 1 .. born /\ reports[n].scope \in Scopes
       /\ \A i \in DOMAIN reports[n].chat : reports[n].chat[i].ask \in Calls
  /\ \A c \in Calls : call[c].tries \in 0 .. Attempts

Births == {reports[n].birth : n \in DOMAIN reports}

\* The user's question, the answer and the notice of an analysis are stored in the
\* dossier it was asked for and shown under its number, unless that dossier is gone.
AnswerStaysInDossier ==
  /\ \A n \in DOMAIN reports : \A i \in DOMAIN reports[n].chat :
       LET q == reports[n].chat[i].ask IN
       q \in Asks => call[q].of = reports[n].birth \/ call[q].of \notin Births
  /\ \A n \in DOMAIN page.chat : \A i \in DOMAIN page.chat[n] :
       LET q == page.chat[n][i].ask IN q \in Asks => call[q].id = n

\* A dossier leaves the store only when a client deletes it: no create takes its
\* number from it.
GoneOnlyByDelete ==
  [][\A n \in DOMAIN reports :
       \/ n \in DOMAIN reports' /\ reports'[n].birth = reports[n].birth
       \/ \E c \in Calls : call[c].at = "erase" /\ call[c].id = n /\ call'[c].at # "erase"]_vars

\* A save or a create fails only where the database failed it, where the dossier it
\* counted on was deleted, or where other clients were quicker as often as it may try:
\* since it was sent, they created a dossier for each of its attempts.
FailsForCause ==
  \A c \in Calls :
    call[c].op \in {"save", "create"} /\ call[c].at = "failed"
      => c \in met \/ born - call[c].since >= Attempts

\* No analysis, briefing or message takes back what a client published: only a client
\* that sets the status does.
PublishedStays ==
  [][\A n \in DOMAIN reports \cap DOMAIN reports' :
       reports[n].published /\ reports'[n].birth = reports[n].birth
         => \/ reports'[n].published
            \/ \E c \in Calls : /\ call[c].op = "withdraw" /\ call[c].id = n
                                /\ call[c].at = "patch" /\ call'[c].at # "patch"]_vars

\* A load never takes the chat of a dossier back to an earlier state.
LoadsNeverGoBack ==
  [][\A n \in DOMAIN seen :
       seen'[n].birth = seen[n].birth => seen'[n].count >= seen[n].count]_vars

\* A dossier shown without dialogue, nothing loading and no error, has been loaded.
NeverFalselyEmpty ==
  page.shown # NoRow /\ ~page.loadingChat /\ page.chatError = 0 /\ ~page.asking
    => page.shown.id \in DOMAIN page.chat

\* What an analysis stores is never in another dossier than the one it was asked for.
NeverInAnother ==
  \A n \in DOMAIN reports : \A i \in DOMAIN reports[n].chat :
    LET q == reports[n].chat[i].ask IN q \in Asks => call[q].of = reports[n].birth

\* An analysis comes to its end on the page.
AskSettles == page.asking ~> ~page.asking

===============================================================================
