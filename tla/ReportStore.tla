------------------------------ MODULE ReportStore ------------------------------
(***************************************************************************)
(* Briefing dossiers in Neo4j and the requests that read and write them.   *)
(* A dossier's id is its paragraph number, one more than the largest that  *)
(* exists, so the number of a deleted newest dossier is given again.  Ids  *)
(* and scope keys are unique in the database.  Every await of a handler    *)
(* ends a step; a write that raises may have been committed.               *)
(*                                                                         *)
(* A dossier's text, metrics and timestamps are left out: of its fields    *)
(* the model keeps the status, the spatial application of the last         *)
(* analysis and the chat.                                                  *)
(***************************************************************************)
EXTENDS Integers, Sequences, FiniteSetsExt

CONSTANTS
  Calls,          \* requests to the API; a call is made once at a time
  NoCall,         \* no analysis
  Attempts        \* numbers tried by one create: 5 in the code

ASSUME StoreAssumption ==
  NoCall \notin Calls /\ Attempts \in Nat \ {0}

VARIABLES
  reports,   \* the dossiers in the database, by number
  born,      \* history: dossiers ever created; a dossier keeps its place in that order
  call,      \* the requests
  wire,      \* the event streams of the analyses
  faults,    \* bound: store calls that may yet raise and connections that may break
  met        \* history: the calls that met a fault, or the deletion of what they count on

storeVars == <<reports, born, call, wire, faults, met>>

Scopes == {"none", "canonical", "legacy"}
Idle == [op |-> "none", at |-> "idle", id |-> 0, tries |-> 0, of |-> 0, since |-> 0]
Closed == [open |-> FALSE, events |-> <<>>]
Live == {c \in Calls : call[c].at \notin {"idle", "ok", "failed", "over"}}

Put(f, n, r) == [m \in DOMAIN f \cup {n} |-> IF m = n THEN r ELSE f[m]]
Without(f, n) == [m \in DOMAIN f \ {n} |-> f[m]]

-------------------------------------------------------------------------------
(* What the queries return and the statements write *)

NextParagraph == Max(DOMAIN reports \cup {0}) + 1

Exists(c) == call[c].id \in DOMAIN reports

\* The dossiers of the country, the canonical key before its legacy alias.
OfScope == {n \in DOMAIN reports : reports[n].scope # "none"}
Winner == CHOOSE n \in OfScope :
            \A m \in OfScope : \/ reports[n].scope = "canonical" /\ reports[m].scope = "legacy"
                               \/ reports[n].scope = reports[m].scope /\ n <= m

ScopeOf(c) == IF call[c].op = "save" THEN "canonical" ELSE "none"

ScopeTaken(c) == ScopeOf(c) # "none" /\ \E n \in DOMAIN reports : reports[n].scope = ScopeOf(c)

\* A unique constraint refuses the CREATE.
Refused(c) == Exists(c) \/ ScopeTaken(c)

NewReport(c) == [birth |-> born + 1, scope |-> ScopeOf(c), published |-> FALSE,
                 application |-> NoCall, chat |-> <<>>]

\* Mutant: the whole record is written back as it was read, still a draft.
ReplacedReport(r, c) ==
  [r EXCEPT !.published = call[c].op = "publish",
            !.application = IF call[c].op = "query" THEN c ELSE NoCall]

\* Only the fields the request supplies; a saved briefing clears the application.  A
\* status that is sent may also be Draft or Archived.
Patched(r, c) ==
  CASE call[c].op = "publish"  -> [r EXCEPT !.published = TRUE]
    [] call[c].op = "withdraw" -> [r EXCEPT !.published = FALSE]
    [] call[c].op = "query"    -> [r EXCEPT !.application = c]
    [] OTHER                   -> [r EXCEPT !.application = NoCall]

Message(c) == [role |-> IF call[c].at = "question" THEN "user" ELSE "munin", ask |-> c]

\* The statement of the call's step, as the database carries it out.
Write(c) ==
  LET id == call[c].id IN
  CASE call[c].at = "insert" /\ ~Refused(c) ->
         reports' = Put(reports, id, NewReport(c)) /\ born' = born + 1
    [] call[c].at = "erase" /\ Exists(c) ->
         reports' = Without(reports, id) /\ UNCHANGED born
    [] call[c].at = "patch" /\ Exists(c) ->
         reports' = Put(reports, id, Patched(reports[id], c)) /\ UNCHANGED born
    [] call[c].at \in {"question", "answer", "notice", "append"} /\ Exists(c) ->
         reports' = Put(reports, id, [reports[id] EXCEPT !.chat = Append(@, Message(c))])
         /\ UNCHANGED born
    [] OTHER -> UNCHANGED <<reports, born>>

-------------------------------------------------------------------------------
(* The handlers *)

To(c, at) == call' = [call EXCEPT ![c].at = at]

Emit(c, events) ==
  wire' = [wire EXCEPT ![c].events = IF wire[c].open THEN @ \o events ELSE @]

Silent == UNCHANGED wire
Calm == UNCHANGED <<faults, met>>
Read == UNCHANGED <<reports, born>> /\ Silent /\ Calm

\* create_report
Alloc(c) ==
  /\ call[c].at = "next"
  /\ call' = [call EXCEPT ![c].at = "insert", ![c].id = NextParagraph]
  /\ Read

Insert(c) ==
  /\ call[c].at = "insert"
  /\ Write(c)
  /\ \/ Refused(c) /\ To(c, "lookup")
     \/ ~Refused(c) /\ call' = [call EXCEPT ![c].at = IF call[c].op = "save" THEN "patch" ELSE "ok",
                                             ![c].of = born + 1]
  /\ Silent /\ Calm

\* Mutant: a taken number is not tried again.
GivesUp(c) == To(c, IF call[c].op = "save" /\ ~Exists(c) THEN "winner" ELSE "failed")

\* The number is taken: another one is tried.  It is not: the scope is, and
\* get_or_create_report_by_scope reads who won.
AfterRefusal(c) ==
  IF Exists(c)
  THEN call' = [call EXCEPT ![c].at = IF call[c].tries + 1 < Attempts THEN "next" ELSE "failed",
                            ![c].tries = @ + 1]
  ELSE To(c, IF call[c].op = "save" THEN "winner" ELSE "failed")

LookUp(c) == call[c].at = "lookup" /\ AfterRefusal(c) /\ Read

\* get_report_by_scope_keys, before the create ("find") and after it ("winner").
FindScope(c) ==
  /\ call[c].at \in {"find", "winner"}
  /\ IF OfScope # {}
     THEN call' = [call EXCEPT ![c].at = "patch", ![c].id = Winner]
     ELSE To(c, IF call[c].at = "find" THEN "next" ELSE "failed")
  /\ Read

\* update_report: what follows a missing dossier is the caller's business.
Patch(c) ==
  /\ call[c].at = "patch"
  /\ Write(c)
  /\ \/ call[c].op = "query" /\ Exists(c) /\ To(c, "answer") /\ Silent
     \/ call[c].op = "query" /\ ~Exists(c) /\ To(c, "over") /\ Emit(c, <<"error">>)
     \/ /\ call[c].op # "query" /\ Silent
        /\ To(c, IF ~Exists(c) THEN "failed" ELSE IF call[c].op = "save" THEN "append" ELSE "ok")
  /\ Calm

\* The briefing's chat message.
SaveMessage(c) ==
  /\ call[c].at = "append"
  /\ Write(c)
  /\ To(c, IF Exists(c) THEN "ok" ELSE "failed")
  /\ Silent /\ Calm

\* delete_report
FindVictim(c) ==
  /\ call[c].at = "victim"
  /\ To(c, IF Exists(c) THEN "erase" ELSE "failed")
  /\ Read

\* Whom the deletion of dossier n robs: the calls that have its number in hand, and
\* the saves that read the dossier of the country when it was the last one.
Robbed(n) ==
  {c \in Live :
     \/ call[c].id = n /\ call[c].at \in {"lookup", "patch", "append"}
     \/ call[c].op = "save" /\ OfScope = {n} /\ call[c].at \in {"lookup", "winner"}}

\* What the statement of the call, when it is carried out, does to the others.
Robs(c) == IF call[c].at = "erase" THEN Robbed(call[c].id) ELSE {}

Erase(c) ==
  /\ call[c].at = "erase"
  /\ Write(c)
  /\ To(c, "ok")
  /\ met' = met \cup Robs(c)
  /\ Silent /\ UNCHANGED faults

\* stream_intel_query
FindReport(c) ==
  /\ call[c].at = "get"
  /\ \/ Exists(c) /\ To(c, "question") /\ Silent
     \/ ~Exists(c) /\ To(c, "over") /\ Emit(c, <<"error", "done">>)
  /\ UNCHANGED <<reports, born>> /\ Calm

StoreQuestion(c) ==
  /\ call[c].at = "question"
  /\ Write(c)
  /\ To(c, "model")
  /\ Silent /\ Calm

\* The intelligence service answers, is too late or reports a failed run, or
\* refuses the request; only the refusal leaves a notice in the dossier.
ModelReturns(c) ==
  /\ call[c].at = "model"
  /\ \/ To(c, "patch") /\ Silent
     \/ To(c, "over") /\ Emit(c, <<"error">>)
     \/ To(c, "notice") /\ Silent
  /\ UNCHANGED <<reports, born>> /\ Calm

Outcome(c) == IF call[c].at = "answer" THEN <<"result", "done">> ELSE <<"error", "done">>

StoreOutcome(c) ==
  /\ call[c].at \in {"answer", "notice"}
  /\ Write(c)
  /\ To(c, "over")
  /\ Emit(c, Outcome(c))
  /\ Calm

\* A store call raises, whether or not its statement was committed.
Raises(c) ==
  /\ call[c].at \in {"next", "insert", "lookup", "find", "winner", "patch", "append",
                     "victim", "erase", "get", "question", "answer", "notice"}
  /\ faults > 0
  /\ \/ Write(c) /\ met' = met \cup {c} \cup Robs(c)
     \/ UNCHANGED <<reports, born>> /\ met' = met \cup {c}
  /\ \/ /\ call[c].op = "query" /\ To(c, "over")
        /\ Emit(c, IF call[c].at \in {"answer", "notice"} THEN Outcome(c) ELSE <<"error">>)
     \/ call[c].op # "query" /\ To(c, "failed") /\ Silent
  /\ faults' = faults - 1

\* The client has gone: the analysis is cancelled at an await, sooner or later.
Cancelled(c) ==
  /\ call[c].op = "query" /\ ~wire[c].open /\ c \in Live
  /\ To(c, "over")
  /\ Read

HandlerStep(c) ==
  \/ Alloc(c) \/ Insert(c) \/ LookUp(c) \/ FindScope(c) \/ Patch(c) \/ SaveMessage(c)
  \/ FindVictim(c) \/ Erase(c)
  \/ FindReport(c) \/ StoreQuestion(c) \/ ModelReturns(c) \/ StoreOutcome(c)

ServerStep(c) == HandlerStep(c) \/ Raises(c) \/ Cancelled(c)

-------------------------------------------------------------------------------
(* What the clients send *)

FirstStep == [save |-> "find", create |-> "next", delete |-> "victim",
              publish |-> "patch", withdraw |-> "patch", query |-> "get"]

\* since is history: how many dossiers there had been when the request was sent.
Request(op, id, of) ==
  [op |-> op, at |-> FirstStep[op], id |-> id, tries |-> 0, of |-> of, since |-> born]

\* c asks for op; of is the birth of the dossier the client means by id.
Send(c, op, id, of) ==
  /\ call[c].at = "idle"
  /\ call' = [call EXCEPT ![c] = Request(op, id, of)]
  /\ wire' = [wire EXCEPT ![c] = [open |-> op = "query", events |-> <<>>]]
  /\ met' = met \ {c}
  /\ UNCHANGED <<reports, born, faults>>

\* The response is in: the call may be made again.
Forget(c) ==
  /\ call[c].at \in {"ok", "failed"}
  /\ call' = [call EXCEPT ![c] = Idle]
  /\ UNCHANGED <<reports, born, wire, faults, met>>

===============================================================================
