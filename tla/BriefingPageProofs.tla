--------------------------- MODULE BriefingPageProofs ---------------------------
(***************************************************************************)
(* What an analysis stores and shows stays in the dossier it was asked     *)
(* for, whoever creates, deletes and selects dossiers meanwhile; only a    *)
(* deletion takes a dossier away; what is published stays published until  *)
(* a client withdraws it; a save or a create fails only for a cause.       *)
(*                                                                         *)
(* A dossier and its number: whatever the page, a request or an answer     *)
(* knows of a dossier, if that dossier still exists it has the number it   *)
(* is known by.  A call's number never changes once an analysis has it.    *)
(***************************************************************************)
EXTENDS BriefingPage, FiniteSetTheorems, TLAPS

AskSteps == {"idle", "get", "question", "model", "patch", "answer", "notice", "over"}
EditSteps == {"idle", "next", "insert", "lookup", "find", "winner", "patch", "append",
              "victim", "erase", "ok", "failed"}
NewSteps == {"idle", "next", "insert", "lookup", "ok", "failed"}
Steps == AskSteps \cup EditSteps
Ops == {"none", "save", "create", "delete", "publish", "withdraw", "query"}

Messages == [role : {"user", "munin"}, ask : Calls]
ReportType == [birth : Nat, scope : Scopes, published : BOOLEAN,
               application : Calls \cup {NoCall}, chat : Seq(Messages)]
CallType == [op : Ops, at : Steps, id : Nat, tries : Nat, of : Nat, since : Nat]
RowType == [id : Nat, birth : Nat]
PageType == [rows : Seq(RowType), selected : Nat, shown : RowType,
             chat : UNION {[D -> Seq(Messages)] : D \in SUBSET Nat},
             loadingChat : BOOLEAN, chatError : Nat,
             run : [ask : Calls \cup {NoCall}, id : Nat],
             asking : BOOLEAN, pending : Nat, lastError : Nat]
LoadType == [id : Nat, at : {"get", "list", "missing", "back"}, newest : BOOLEAN, birth : Nat, chat : Seq(Messages)]

StoreOK ==
  /\ born \in Nat
  /\ reports \in UNION {[D -> ReportType] : D \in SUBSET Nat}
  /\ \A n \in DOMAIN reports : n \in 1 .. born /\ reports[n].birth \in 1 .. born
  /\ \A m, n \in DOMAIN reports : reports[m].birth = reports[n].birth => m = n

CallOK ==
  /\ call \in [Calls -> CallType]
  /\ \A q \in Asks : call[q].at \in AskSteps /\ (call[q].at # "idle" => call[q].op = "query")
  /\ \A c \in Calls \ Asks : call[c].at \in EditSteps /\ call[c].op # "query"
  /\ call[NewButton].at \in NewSteps
  /\ call[NewButton].at # "idle" => call[NewButton].op = "create"
  /\ \A c \in Calls : call[c].at = "insert" => call[c].id \in 1 .. born + 1

PageOK ==
  /\ page \in PageType
  /\ listing \in [at : {"none", "server", "back"}, rows : Seq(RowType)]
  /\ loads \subseteq LoadType

TypeInv == StoreOK /\ CallOK /\ PageOK

\* The dossier of birth b, if it exists, is number n.
KnownIn(n, b, reps, bn) == b \in 0 .. bn /\ \A m \in DOMAIN reps : reps[m].birth = b => m = n
Known(n, b) == KnownIn(n, b, reports, born)

PageKnown ==
  /\ \A i \in DOMAIN page.rows : Known(page.rows[i].id, page.rows[i].birth)
  /\ Known(page.shown.id, page.shown.birth)
  /\ \A i \in DOMAIN listing.rows : Known(listing.rows[i].id, listing.rows[i].birth)

CallKnown ==
  /\ \A q \in Asks : Known(call[q].id, call[q].of)
  /\ call[NewButton].at = "ok" => Known(call[NewButton].id, call[NewButton].of)

\* The messages of analyses in a chat are those of analyses for dossier n.
FiledIn(n, chat, calls) ==
  \A i \in DOMAIN chat :
    chat[i].ask \in Asks => calls[chat[i].ask].at # "idle" /\ calls[chat[i].ask].id = n
Filed(n, chat) == FiledIn(n, chat, call)

StoreFiled == \A n \in DOMAIN reports : Filed(n, reports[n].chat)

PageFiled ==
  /\ \A n \in DOMAIN page.chat : Filed(n, page.chat[n])
  /\ \A l \in loads : Filed(l.id, l.chat)
  /\ page.run.ask \in Asks =>
       call[page.run.ask].at # "idle" /\ call[page.run.ask].id = page.run.id

\* The stored half of AnswerStaysInDossier.
Belongs(n) ==
  \A i \in DOMAIN reports[n].chat :
    LET q == reports[n].chat[i].ask IN
    q \in Asks => call[q].of = reports[n].birth \/ call[q].of \notin Births

BelongInv == \A n \in DOMAIN reports : Belongs(n)

PageInv == TypeInv /\ PageKnown /\ CallKnown /\ StoreFiled /\ PageFiled /\ BelongInv

-------------------------------------------------------------------------------
(* The largest number *)

\* A set of numbers with an upper bound has a largest one: the least upper bound.
LEMMA MaxInSet ==
  ASSUME NEW S, NEW b \in Nat, S \subseteq 0 .. b, 0 \in S
  PROVE  Max(S) \in S /\ Max(S) + 1 \notin S
<1> DEFINE U == {u \in Nat : \A x \in S : x <= u}
<1>1. b \in U OBVIOUS
<1>2. U \subseteq Nat OBVIOUS
<1>3. PICK u \in U : \A v \in U : ~(<<v, u>> \in OpToRel(<, Nat))
  BY <1>1, <1>2, NatLessThanWellFounded, WFMin
<1>4. u \in Nat /\ \A x \in S : x <= u BY <1>3
<1>5. u \in S
  <2>1. SUFFICES ASSUME u \notin S PROVE FALSE OBVIOUS
  <2>2. \A x \in S : x \in Nat /\ x <= u - 1 BY <2>1, <1>4
  <2>3. u - 1 \in Nat BY <2>2, <1>4
  <2>4. u - 1 \in U BY <2>2, <2>3
  <2>5. <<u - 1, u>> \in OpToRel(<, Nat) BY <2>3, <1>4 DEF OpToRel
  <2> QED BY <2>4, <2>5, <1>3
<1>6. \E x \in S : \A y \in S : x >= y BY <1>4, <1>5
<1>7. Max(S) \in S /\ \A y \in S : Max(S) >= y BY <1>6 DEF Max
<1>8. ASSUME NEW m \in S, \A y \in S : m >= y PROVE m + 1 \notin S BY <1>8
<1> QED BY <1>7, <1>8

LEMMA NextIsNumber == ASSUME StoreOK PROVE NextParagraph \in 1 .. born + 1
<1> DEFINE S == DOMAIN reports \cup {0}
<1>1. S \subseteq 0 .. born /\ 0 \in S /\ born \in Nat BY DEF StoreOK
<1>2. Max(S) \in S BY <1>1, MaxInSet
<1> QED BY <1>1, <1>2 DEF NextParagraph

-------------------------------------------------------------------------------
(* The store's statements *)

LEMMA PutTyped ==
  ASSUME NEW S, NEW V, NEW f \in [S -> V], NEW n, NEW r \in V
  PROVE  Put(f, n, r) \in [S \cup {n} -> V]
BY DEF Put

LEMMA MessageOK == ASSUME NEW c \in Calls PROVE Message(c) \in Messages /\ Message(c).ask = c
BY DEF Message, Messages

\* A changed dossier keeps its birth and scope; its chat stays or grows by c's message;
\* only a client that sets the status unpublishes it.
Changed(r, s, c) ==
  /\ s \in ReportType /\ s.birth = r.birth /\ s.scope = r.scope
  /\ s.chat = r.chat \/ s.chat = Append(r.chat, Message(c))
  /\ r.published => s.published \/ (call[c].op = "withdraw" /\ call[c].at = "patch")

\* What a statement does: nothing, one new dossier, one less, one changed.
Effect(c) ==
  LET n == call[c].id IN
  \/ UNCHANGED <<reports, born>>
  \/ /\ call[c].at = "insert" /\ n \notin DOMAIN reports
     /\ reports' = Put(reports, n, NewReport(c)) /\ born' = born + 1
  \/ /\ call[c].at = "erase" /\ n \in DOMAIN reports
     /\ reports' = Without(reports, n) /\ born' = born
  \/ /\ n \in DOMAIN reports /\ born' = born
     /\ call[c].at \in {"patch", "question", "answer", "notice", "append"}
     /\ \E s : Changed(reports[n], s, c) /\ reports' = Put(reports, n, s)

LEMMA PatchedIs ==
  ASSUME NEW r \in ReportType, NEW c \in Calls
  PROVE  Patched(r, c) \in ReportType /\ Patched(r, c).birth = r.birth
         /\ Patched(r, c).scope = r.scope /\ Patched(r, c).chat = r.chat
         /\ (r.published => Patched(r, c).published \/ call[c].op = "withdraw")
<1>1. CASE call[c].op = "publish" BY <1>1 DEF Patched, ReportType
<1>2. CASE call[c].op = "withdraw" BY <1>2 DEF Patched, ReportType
<1>3. CASE call[c].op = "query" BY <1>3 DEF Patched, ReportType
<1>4. CASE call[c].op \notin {"publish", "withdraw", "query"} BY <1>4 DEF Patched, ReportType
<1> QED BY <1>1, <1>2, <1>3, <1>4

LEMMA WriteIs ==
  ASSUME TypeInv, NEW c \in Calls, Write(c)
  PROVE  Effect(c)
<1> DEFINE n == call[c].id
<1>1. CASE call[c].at = "insert"
  BY <1>1 DEF Write, Effect, Refused, Exists
<1>2. CASE call[c].at = "erase"
  BY <1>2 DEF Write, Effect, Exists
<1>3. CASE call[c].at = "patch" /\ n \in DOMAIN reports
  <2>1. reports[n] \in ReportType BY <1>3 DEF TypeInv, StoreOK
  <2>2. Changed(reports[n], Patched(reports[n], c), c) BY <1>3, <2>1, PatchedIs DEF Changed
  <2>3. reports' = Put(reports, n, Patched(reports[n], c)) /\ born' = born
    BY <1>3 DEF Write, Exists
  <2> QED BY <1>3, <2>2, <2>3 DEF Effect
<1>4. CASE call[c].at \in {"question", "answer", "notice", "append"} /\ n \in DOMAIN reports
  <2> DEFINE s == [reports[n] EXCEPT !.chat = Append(@, Message(c))]
  <2>1. reports[n] \in ReportType BY <1>4 DEF TypeInv, StoreOK
  <2>2. Append(reports[n].chat, Message(c)) \in Seq(Messages)
    BY <2>1, MessageOK DEF ReportType
  <2>3. Changed(reports[n], s, c) BY <2>1, <2>2 DEF Changed, ReportType
  <2>4. reports' = Put(reports, n, s) /\ born' = born BY <1>4 DEF Write, Exists
  <2> QED BY <1>4, <2>3, <2>4 DEF Effect
<1>5. CASE /\ call[c].at \notin {"insert", "erase"}
           /\ call[c].at \notin {"patch", "question", "answer", "notice", "append"}
             \/ n \notin DOMAIN reports
  BY <1>5 DEF Write, Effect, Exists
<1> QED BY <1>1, <1>2, <1>3, <1>4, <1>5

\* The store stays what it is under every effect.
LEMMA EffectKeeps ==
  ASSUME TypeInv, NEW c \in Calls, Effect(c)
  PROVE  StoreOK' /\ born' \in {born, born + 1}
<1> DEFINE n == call[c].id
<1>0. /\ born \in Nat /\ n \in Nat /\ DOMAIN reports \subseteq Nat
      /\ reports \in [DOMAIN reports -> ReportType]
      /\ \A m \in DOMAIN reports : m \in 1 .. born /\ reports[m].birth \in 1 .. born
      /\ \A k, m \in DOMAIN reports : reports[k].birth = reports[m].birth => k = m
  BY DEF TypeInv, StoreOK, CallOK, CallType
<1>1. CASE UNCHANGED <<reports, born>> BY <1>1 DEF TypeInv, StoreOK
<1>2. CASE /\ call[c].at = "insert" /\ n \notin DOMAIN reports
           /\ reports' = Put(reports, n, NewReport(c)) /\ born' = born + 1
  <2>1. NewReport(c) \in ReportType /\ NewReport(c).birth = born + 1
    <3>1. ScopeOf(c) \in Scopes BY DEF ScopeOf, Scopes
    <3> QED BY <3>1, <1>0 DEF NewReport, ReportType
  <2>2. n \in 1 .. born + 1 BY <1>2 DEF TypeInv, CallOK
  <2>3. /\ DOMAIN reports' = DOMAIN reports \cup {n} /\ reports'[n] = NewReport(c)
        /\ \A m \in DOMAIN reports : reports'[m] = reports[m]
    BY <1>2 DEF Put
  <2>7. reports' \in [DOMAIN reports \cup {n} -> ReportType] BY <1>2, <1>0, <2>1, PutTyped
  <2>4. reports' \in UNION {[D -> ReportType] : D \in SUBSET Nat} BY <2>7, <1>0, ZenonT(30)
  <2>5. \A m \in DOMAIN reports' : m \in 1 .. born' /\ reports'[m].birth \in 1 .. born'
    BY <2>1, <2>2, <2>3, <1>0, <1>2
  <2>6. \A k, m \in DOMAIN reports' : reports'[k].birth = reports'[m].birth => k = m
    BY <2>1, <2>3, <1>0
  <2> QED BY <2>4, <2>5, <2>6, <1>0, <1>2 DEF StoreOK
<1>3. CASE n \in DOMAIN reports /\ reports' = Without(reports, n) /\ born' = born
  <2>1. DOMAIN reports' = DOMAIN reports \ {n} /\ \A m \in DOMAIN reports' : reports'[m] = reports[m]
    BY <1>3 DEF Without
  <2>2. reports' \in [DOMAIN reports \ {n} -> ReportType] BY <1>3, <1>0 DEF Without
  <2>3. reports' \in UNION {[D -> ReportType] : D \in SUBSET Nat} BY <2>2, <1>0
  <2> QED BY <2>1, <2>3, <1>0, <1>3 DEF StoreOK
<1>4. CASE /\ n \in DOMAIN reports /\ born' = born
           /\ \E s : Changed(reports[n], s, c) /\ reports' = Put(reports, n, s)
  <2>1. PICK s : Changed(reports[n], s, c) /\ reports' = Put(reports, n, s) BY <1>4
  <2>2. s \in ReportType /\ s.birth = reports[n].birth BY <2>1 DEF Changed
  <2>3. /\ DOMAIN reports' = DOMAIN reports /\ reports'[n] = s
        /\ \A m \in DOMAIN reports : m # n => reports'[m] = reports[m]
    BY <1>4, <2>1 DEF Put
  <2>6. reports' \in [DOMAIN reports \cup {n} -> ReportType] BY <2>1, <2>2, <1>0, PutTyped
  <2>4. reports' \in UNION {[D -> ReportType] : D \in SUBSET Nat} BY <2>6, <1>0, ZenonT(30)
  <2>5. \A m \in DOMAIN reports' : reports'[m].birth = reports[m].birth BY <2>2, <2>3
  <2> QED BY <2>3, <2>4, <2>5, <1>0, <1>4 DEF StoreOK
<1> QED BY <1>0, <1>1, <1>2, <1>3, <1>4 DEF Effect

-------------------------------------------------------------------------------
(* The handlers *)

\* What a step of c's handler does to the store and to c itself.
Handled(c) ==
  /\ Effect(c)
  /\ call' \in [Calls -> CallType] /\ \A d \in Calls : d # c => call'[d] = call[d]
  /\ call'[c].op = call[c].op
  /\ c \in Asks => /\ call[c].at # "idle" /\ call'[c].at \in AskSteps \ {"idle"}
                   /\ call'[c].id = call[c].id /\ call'[c].of = call[c].of
  /\ c \notin Asks => call[c].at # "idle" /\ call'[c].at \in EditSteps
  /\ c = NewButton => call'[c].at \in NewSteps
  /\ c = NewButton /\ call'[c].at = "ok" =>
       /\ call[c].id \notin DOMAIN reports /\ reports' = Put(reports, call[c].id, NewReport(c))
       /\ born' = born + 1
       /\ call'[c].id = call[c].id /\ call'[c].of = born + 1
  /\ call'[c].at = "insert" => call'[c].id \in 1 .. born + 1 /\ born' = born

\* The steps that only change where c is.
LEMMA MovesTo ==
  ASSUME TypeInv, NEW c \in Calls, NEW at \in Steps, To(c, at)
  PROVE  /\ call' \in [Calls -> CallType] /\ \A d \in Calls : d # c => call'[d] = call[d]
         /\ call'[c].op = call[c].op /\ call'[c].at = at
         /\ call'[c].id = call[c].id /\ call'[c].of = call[c].of
         /\ call'[c].tries = call[c].tries /\ call'[c].since = call[c].since
<1>1. call \in [Calls -> CallType] BY DEF TypeInv, CallOK
<1>2. call' = [call EXCEPT ![c].at = at] BY DEF To
<1>3. [call[c] EXCEPT !.at = at] \in CallType BY <1>1 DEF CallType
<1> QED BY <1>1, <1>2, <1>3 DEF CallType

\* A step that writes what its statement says and moves on.
LEMMA WritesAndMoves ==
  ASSUME TypeInv, PageAssumption, NEW c \in Calls, Effect(c), NEW at \in Steps, To(c, at),
         c \in Asks => call[c].at # "idle" /\ at \in AskSteps \ {"idle"},
         c \notin Asks => call[c].at # "idle" /\ at \in EditSteps \ {"insert"},
         c = NewButton => at \in NewSteps \ {"ok"}
  PROVE  Handled(c)
<1>1. NewButton \notin Asks BY PageAssumption DEF PageAssumption
<1>2. at # "insert" BY DEF AskSteps
<1> QED BY <1>1, <1>2, MovesTo, ZenonT(30) DEF Handled

LEMMA Quiet == ASSUME UNCHANGED <<reports, born>>, NEW c PROVE Effect(c)
BY DEF Effect

\* Which calls are at which steps.
LEMMA WhoIsWhere ==
  ASSUME TypeInv, PageAssumption, NEW c \in Calls
  PROVE  /\ call[c].at \in {"get", "question", "model", "answer", "notice", "over"} => c \in Asks
         /\ call[c].at \in {"next", "insert", "lookup", "find", "winner", "append", "victim", "erase",
                            "ok", "failed"} => c \notin Asks
         /\ c = NewButton => c \notin Asks /\ call[c].at \in NewSteps
         /\ c \in Asks /\ call[c].at # "idle" => call[c].op = "query"
         /\ c \notin Asks => call[c].op # "query"
         /\ c = NewButton /\ call[c].at # "idle" => call[c].op = "create"
<1>1. NewButton \notin Asks /\ NewButton \in Calls BY PageAssumption DEF PageAssumption
<1> QED BY <1>1 DEF TypeInv, CallOK, AskSteps, EditSteps, NewSteps

\* Numbers have a smallest one.
LEMMA SmallestIn ==
  ASSUME NEW S, S \subseteq Nat, S # {}
  PROVE  \E n \in S : \A m \in S : n <= m
<1>1. PICK n \in S : \A m \in S : ~(<<m, n>> \in OpToRel(<, Nat))
  BY WFMin, NatLessThanWellFounded
<1>2. ASSUME NEW m \in S PROVE n <= m
  <2>1. SUFFICES ASSUME m < n PROVE FALSE BY <1>2, SMT
  <2>2. <<m, n>> \in OpToRel(<, Nat) BY <1>2, <2>1 DEF OpToRel
  <2> QED BY <1>1, <1>2, <2>2
<1> QED BY <1>1, <1>2

\* The smallest of the canonical ones, where there is none of the legacy ones.
LEMMA WinnerIsNumber == ASSUME TypeInv, OfScope # {} PROVE Winner \in Nat /\ Winner \in OfScope
<1> DEFINE C == {n \in OfScope : reports[n].scope = "canonical"}
           S == IF C # {} THEN C ELSE OfScope
           Wins(n) == \A m \in OfScope :
                        \/ reports[n].scope = "canonical" /\ reports[m].scope = "legacy"
                        \/ reports[n].scope = reports[m].scope /\ n <= m
<1>1. /\ OfScope \subseteq Nat
      /\ \A n \in OfScope : reports[n].scope \in {"canonical", "legacy"}
  BY DEF TypeInv, StoreOK, OfScope, ReportType, Scopes
<1>2. S \subseteq Nat /\ S # {} /\ S \subseteq OfScope BY <1>1
<1>3. PICK n \in S : \A m \in S : n <= m
  <2> HIDE DEF S
  <2> QED BY <1>2, SmallestIn
<1>5. Wins(n)
  <2>1. CASE C # {} BY <2>1, <1>1, <1>3
  <2>2. CASE C = {} BY <2>2, <1>1, <1>3
  <2> QED BY <2>1, <2>2
<1>6. \E k \in OfScope : Wins(k) BY <1>2, <1>3, <1>5
<1>7. Winner = CHOOSE k \in OfScope : Wins(k) BY DEF Winner
<1> HIDE DEF Wins
<1>8. Winner \in OfScope BY <1>6, <1>7
<1> QED BY <1>8, <1>1

LEMMA StepIsHandled ==
  ASSUME TypeInv, PageAssumption, NEW c \in Calls, ServerStep(c)
  PROVE  Handled(c)
<1>0. /\ call \in [Calls -> CallType] /\ NewButton \notin Asks
  BY PageAssumption DEF TypeInv, CallOK, PageAssumption
<1>1. CASE Alloc(c)
  <2> DEFINE x == [call[c] EXCEPT !.at = "insert", !.id = NextParagraph]
  <2>1. NextParagraph \in 1 .. born + 1 /\ NextParagraph \in Nat
    <3>1. NextParagraph \in 1 .. born + 1 BY NextIsNumber DEF TypeInv
    <3> QED BY <3>1 DEF TypeInv, StoreOK
  <2>9. call[c] \in CallType /\ "insert" \in Steps BY <1>0 DEF Steps, EditSteps
  <2>2. x \in CallType BY <2>1, <2>9 DEF CallType
  <2>3. call' = [call EXCEPT ![c] = x] BY <1>1, <1>0 DEF Alloc
  <2>4. call' \in [Calls -> CallType] /\ (\A d \in Calls : d # c => call'[d] = call[d])
        /\ call'[c] = x
    BY <2>2, <2>3, <1>0
  <2>5. x.op = call[c].op /\ x.at = "insert" /\ x.id = NextParagraph BY <1>0 DEF CallType
  <2>6. UNCHANGED <<reports, born>> BY <1>1 DEF Alloc, Read
  <2>7. Effect(c) BY <2>6, Quiet
  <2>8. c \notin Asks BY <1>1, WhoIsWhere DEF Alloc
  <2> QED BY <1>1, <2>1, <2>4, <2>5, <2>6, <2>7, <2>8 DEF Handled, Alloc, EditSteps, NewSteps
<1>2. CASE Insert(c)
  <2>1. Effect(c) BY <1>2, WriteIs DEF Insert
  <2>2. c \notin Asks /\ call[c].at = "insert" BY <1>2, WhoIsWhere DEF Insert
  <2>3. CASE Refused(c) /\ To(c, "lookup")
    BY <2>1, <2>2, <2>3, WritesAndMoves DEF Steps, AskSteps, EditSteps, NewSteps
  <2>4. CASE ~Refused(c) /\ call' = [call EXCEPT ![c].at = IF call[c].op = "save" THEN "patch" ELSE "ok",
                                                 ![c].of = born + 1]
    <3> DEFINE at == IF call[c].op = "save" THEN "patch" ELSE "ok"
               x == [call[c] EXCEPT !.at = at, !.of = born + 1]
    <3>1. born + 1 \in Nat BY DEF TypeInv, StoreOK
    <3>8. call[c] \in CallType /\ at \in Steps BY <1>0 DEF Steps, EditSteps
    <3>9. x \in CallType BY <3>1, <3>8 DEF CallType
    <3>2. x \in CallType BY <3>9
    <3>3. call' = [call EXCEPT ![c] = x] BY <2>4, <1>0
    <3>4. call' \in [Calls -> CallType] /\ (\A d \in Calls : d # c => call'[d] = call[d])
          /\ call'[c] = x
      BY <3>2, <3>3, <1>0
    <3>5. x.op = call[c].op /\ x.at = at /\ x.id = call[c].id /\ x.of = born + 1
      BY <1>0, <3>1 DEF CallType
    <3>6. /\ call[c].id \notin DOMAIN reports
          /\ reports' = Put(reports, call[c].id, NewReport(c)) /\ born' = born + 1
      BY <1>2, <2>2, <2>4 DEF Insert, Write, Refused, Exists
    <3>7. c = NewButton => at = "ok" BY <2>2, WhoIsWhere
    <3> QED BY <2>1, <2>2, <3>4, <3>5, <3>6, <3>7 DEF Handled, EditSteps, NewSteps
  <2> QED BY <1>2, <2>3, <2>4 DEF Insert
<1>3. CASE LookUp(c)
  <2>1. c \notin Asks /\ call[c].at = "lookup" BY <1>3, WhoIsWhere DEF LookUp
  <2>2. Effect(c) BY <1>3, Quiet DEF LookUp, Read
  <2>3. CASE Exists(c)
    <3> DEFINE at == IF call[c].tries + 1 < Attempts THEN "next" ELSE "failed"
               x == [call[c] EXCEPT !.at = at, !.tries = call[c].tries + 1]
    <3>5. call[c] \in CallType /\ at \in Steps BY <1>0 DEF Steps, EditSteps
    <3>6. call[c].tries + 1 \in Nat BY <3>5 DEF CallType
    <3>1. x \in CallType
      <4> HIDE DEF at
      <4> QED BY <3>5, <3>6 DEF CallType
    <3>2. call' = [call EXCEPT ![c] = x] BY <1>3, <2>3, <1>0 DEF LookUp, AfterRefusal
    <3>3. call' \in [Calls -> CallType] /\ (\A d \in Calls : d # c => call'[d] = call[d])
          /\ call'[c] = x
      BY <3>1, <3>2, <1>0
    <3>4. x.op = call[c].op /\ x.at = at BY <1>0 DEF CallType
    <3> QED BY <2>1, <2>2, <3>3, <3>4 DEF Handled, EditSteps, NewSteps
  <2>4. CASE ~Exists(c)
    <3>1. To(c, IF call[c].op = "save" THEN "winner" ELSE "failed")
      BY <1>3, <2>4 DEF LookUp, AfterRefusal
    <3>2. c = NewButton => call[c].op # "save" BY <2>1, WhoIsWhere
    <3> QED BY <2>1, <2>2, <3>1, <3>2, WritesAndMoves DEF Steps, AskSteps, EditSteps, NewSteps
  <2> QED BY <2>3, <2>4
<1>4. CASE FindScope(c)
  <2>1. c \notin Asks /\ c # NewButton /\ call[c].at \in {"find", "winner"}
    BY <1>4, WhoIsWhere DEF FindScope, NewSteps
  <2>2. Effect(c) BY <1>4, Quiet DEF FindScope, Read
  <2>3. CASE OfScope # {}
    <3> DEFINE x == [call[c] EXCEPT !.at = "patch", !.id = Winner]
    <3>1. Winner \in Nat BY <2>3, WinnerIsNumber
    <3>2. x \in CallType BY <3>1, <1>0, ZenonT(30) DEF CallType, Steps, AskSteps, EditSteps
    <3>3. call' = [call EXCEPT ![c] = x] BY <1>4, <2>3, <1>0 DEF FindScope
    <3>4. call' \in [Calls -> CallType] /\ (\A d \in Calls : d # c => call'[d] = call[d])
          /\ call'[c] = x
      BY <3>2, <3>3, <1>0
    <3>5. x.op = call[c].op /\ x.at = "patch" BY <1>0 DEF CallType
    <3> QED BY <2>1, <2>2, <3>4, <3>5 DEF Handled, EditSteps
  <2>4. CASE OfScope = {}
    BY <1>4, <2>1, <2>2, <2>4, WritesAndMoves DEF FindScope, Steps, AskSteps, EditSteps
  <2> QED BY <2>3, <2>4
<1>5. CASE Patch(c)
  <2>1. Effect(c) BY <1>5, WriteIs DEF Patch
  <2>2. call[c].at = "patch" /\ c # NewButton BY <1>5, WhoIsWhere DEF Patch, NewSteps
  <2>3. CASE call[c].op = "query"
    <3>1. c \in Asks BY <2>3, WhoIsWhere
    <3>2. To(c, "answer") \/ To(c, "over") BY <1>5, <2>3 DEF Patch
    <3> QED BY <2>1, <2>2, <3>1, <3>2, WritesAndMoves DEF Steps, AskSteps, EditSteps
  <2>4. CASE call[c].op # "query"
    <3>1. c \notin Asks BY <2>2, <2>4, WhoIsWhere
    <3>2. To(c, "failed") \/ To(c, "append") \/ To(c, "ok") BY <1>5, <2>4 DEF Patch
    <3> QED BY <2>1, <2>2, <3>1, <3>2, WritesAndMoves DEF Steps, AskSteps, EditSteps
  <2> QED BY <2>3, <2>4
<1>6. CASE SaveMessage(c)
  <2>1. Effect(c) BY <1>6, WriteIs DEF SaveMessage
  <2>2. c \notin Asks /\ c # NewButton /\ call[c].at = "append"
    BY <1>6, WhoIsWhere DEF SaveMessage, NewSteps
  <2>3. To(c, "ok") \/ To(c, "failed") BY <1>6 DEF SaveMessage
  <2> QED BY <2>1, <2>2, <2>3, WritesAndMoves DEF Steps, AskSteps, EditSteps
<1>7. CASE FindVictim(c)
  <2>1. Effect(c) BY <1>7, Quiet DEF FindVictim, Read
  <2>2. c \notin Asks /\ c # NewButton /\ call[c].at = "victim"
    BY <1>7, WhoIsWhere DEF FindVictim, NewSteps
  <2>3. To(c, "erase") \/ To(c, "failed") BY <1>7 DEF FindVictim
  <2> QED BY <2>1, <2>2, <2>3, WritesAndMoves DEF Steps, AskSteps, EditSteps
<1>8. CASE Erase(c)
  <2>1. Effect(c) BY <1>8, WriteIs DEF Erase
  <2>2. c \notin Asks /\ c # NewButton /\ call[c].at = "erase"
    BY <1>8, WhoIsWhere DEF Erase, NewSteps
  <2>3. To(c, "ok") BY <1>8 DEF Erase
  <2> QED BY <2>1, <2>2, <2>3, WritesAndMoves DEF Steps, AskSteps, EditSteps
<1>9. CASE FindReport(c)
  <2>1. Effect(c) BY <1>9, Quiet DEF FindReport
  <2>2. c \in Asks /\ call[c].at = "get" BY <1>9, WhoIsWhere DEF FindReport
  <2>3. To(c, "question") \/ To(c, "over") BY <1>9 DEF FindReport
  <2> QED BY <1>0, <2>1, <2>2, <2>3, WritesAndMoves DEF Steps, AskSteps, EditSteps
<1>10. CASE StoreQuestion(c)
  <2>1. Effect(c) BY <1>10, WriteIs DEF StoreQuestion
  <2>2. c \in Asks /\ call[c].at = "question" BY <1>10, WhoIsWhere DEF StoreQuestion
  <2>3. To(c, "model") BY <1>10 DEF StoreQuestion
  <2> QED BY <1>0, <2>1, <2>2, <2>3, WritesAndMoves DEF Steps, AskSteps, EditSteps
<1>11. CASE ModelReturns(c)
  <2>1. Effect(c) BY <1>11, Quiet DEF ModelReturns
  <2>2. c \in Asks /\ call[c].at = "model" BY <1>11, WhoIsWhere DEF ModelReturns
  <2>3. To(c, "patch") \/ To(c, "over") \/ To(c, "notice") BY <1>11 DEF ModelReturns
  <2> QED BY <1>0, <2>1, <2>2, <2>3, WritesAndMoves DEF Steps, AskSteps, EditSteps
<1>12. CASE StoreOutcome(c)
  <2>1. Effect(c) BY <1>12, WriteIs DEF StoreOutcome
  <2>2. c \in Asks /\ call[c].at # "idle" BY <1>12, WhoIsWhere DEF StoreOutcome
  <2>3. To(c, "over") BY <1>12 DEF StoreOutcome
  <2> QED BY <1>0, <2>1, <2>2, <2>3, WritesAndMoves DEF Steps, AskSteps, EditSteps
<1>13. CASE Raises(c)
  <2>1. Effect(c) BY <1>13, WriteIs, Quiet DEF Raises
  <2>2. call[c].at # "idle" BY <1>13 DEF Raises
  <2>3. CASE call[c].op = "query"
    <3>1. c \in Asks BY <2>3, WhoIsWhere
    <3>2. To(c, "over") BY <1>13, <2>3 DEF Raises
    <3> QED BY <1>0, <2>1, <2>2, <3>1, <3>2, WritesAndMoves DEF Steps, AskSteps, EditSteps
  <2>4. CASE call[c].op # "query"
    <3>1. c \notin Asks BY <2>2, <2>4, WhoIsWhere
    <3>2. To(c, "failed") BY <1>13, <2>4 DEF Raises
    <3> QED BY <2>1, <2>2, <3>1, <3>2, WritesAndMoves DEF Steps, AskSteps, EditSteps, NewSteps
  <2> QED BY <2>3, <2>4
<1>14. CASE Cancelled(c)
  <2>1. Effect(c) BY <1>14, Quiet DEF Cancelled, Read
  <2>2. call[c].at # "idle" /\ c \in Asks BY <1>14, WhoIsWhere DEF Cancelled, Live
  <2>3. To(c, "over") BY <1>14 DEF Cancelled
  <2> QED BY <1>0, <2>1, <2>2, <2>3, WritesAndMoves DEF Steps, AskSteps, EditSteps
<1> QED BY <1>1, <1>2, <1>3, <1>4, <1>5, <1>6, <1>7, <1>8, <1>9, <1>10, <1>11, <1>12, <1>13, <1>14
        DEF ServerStep, HandlerStep

-------------------------------------------------------------------------------
(* What is known of a dossier stays true *)

\* An analysis that runs or has run keeps its dossier's number and birth.
Kept == \A q \in Asks : call[q].at # "idle" =>
          call'[q].at # "idle" /\ call'[q].id = call[q].id /\ call'[q].of = call[q].of

Mono == \A n, b : Known(n, b) => KnownIn(n, b, reports', born')

LEMMA FiledKept ==
  ASSUME Kept, NEW n, NEW chat, Filed(n, chat)
  PROVE  FiledIn(n, chat, call')
BY DEF Kept, Filed, FiledIn

LEMMA FiledMore ==
  ASSUME NEW n, NEW calls, NEW chat \in Seq(Messages), FiledIn(n, chat, calls), NEW m \in Messages,
         m.ask \in Asks => calls[m.ask].at # "idle" /\ calls[m.ask].id = n
  PROVE  FiledIn(n, Append(chat, m), calls)
<1>1. ASSUME NEW i \in DOMAIN Append(chat, m)
      PROVE  (i \in DOMAIN chat /\ Append(chat, m)[i] = chat[i]) \/ Append(chat, m)[i] = m
  OBVIOUS
<1> QED BY <1>1 DEF FiledIn

LEMMA StoreStep ==
  ASSUME PageInv, NEW c \in Calls, Effect(c), c \in Asks => call[c].at # "idle", Kept
  PROVE  /\ StoreOK' /\ born' >= born
         /\ StoreFiled' /\ BelongInv' /\ Mono
<1> DEFINE n == call[c].id
<1>0. /\ StoreOK' /\ born' \in {born, born + 1} /\ born \in Nat
      /\ \A m \in DOMAIN reports : reports[m] \in ReportType /\ reports[m].birth \in 1 .. born
  BY EffectKeeps DEF PageInv, TypeInv, StoreOK
\* Of the old dossiers each one left keeps its birth; the one that may be new is the next.
<1>1. \A m \in DOMAIN reports' :
        \/ /\ m \in DOMAIN reports /\ reports'[m].birth = reports[m].birth
           /\ \/ reports'[m].chat = reports[m].chat
              \/ m = n /\ reports'[m].chat = Append(reports[m].chat, Message(c))
        \/ m = n /\ reports'[m].birth = born + 1 /\ reports'[m].chat = <<>> /\ born' = born + 1
  <2>1. CASE UNCHANGED <<reports, born>> BY <2>1
  <2>2. CASE reports' = Put(reports, n, NewReport(c)) /\ born' = born + 1
    BY <2>2 DEF Put, NewReport
  <2>3. CASE reports' = Without(reports, n) BY <2>3 DEF Without
  <2>4. CASE n \in DOMAIN reports /\ \E s : Changed(reports[n], s, c) /\ reports' = Put(reports, n, s)
    <3>1. PICK s : Changed(reports[n], s, c) /\ reports' = Put(reports, n, s) BY <2>4
    <3>2. s.birth = reports[n].birth /\ (s.chat = reports[n].chat \/ s.chat = Append(reports[n].chat, Message(c)))
      BY <3>1 DEF Changed
    <3>3. /\ DOMAIN reports' = DOMAIN reports /\ reports'[n] = s
          /\ \A m \in DOMAIN reports : m # n => reports'[m] = reports[m]
      BY <2>4, <3>1 DEF Put
    <3> QED BY <3>2, <3>3
  <2> QED BY <2>1, <2>2, <2>3, <2>4 DEF Effect
<1>2. Mono
  <2>1. SUFFICES ASSUME NEW k, NEW b, Known(k, b) PROVE KnownIn(k, b, reports', born') BY DEF Mono
  <2>2. b \in 0 .. born' BY <2>1, <1>0 DEF Known, KnownIn
  <2>3. ASSUME NEW m \in DOMAIN reports', reports'[m].birth = b PROVE m = k
    <3>1. b # born + 1 BY <2>1, <1>0 DEF Known, KnownIn
    <3> QED BY <3>1, <2>3, <1>1, <2>1 DEF Known, KnownIn
  <2> QED BY <2>2, <2>3 DEF KnownIn
<1>3. Message(c) \in Messages /\ Message(c).ask = c BY MessageOK
<1>4. c \in Asks => call'[c].at # "idle" /\ call'[c].id = n BY DEF Kept
<1>5. ASSUME NEW m \in DOMAIN reports' PROVE FiledIn(m, reports'[m].chat, call')
  <2>1. CASE m \in DOMAIN reports /\ reports'[m].chat = reports[m].chat
    BY <2>1, FiledKept DEF PageInv, StoreFiled
  <2>2. CASE m \in DOMAIN reports /\ m = n /\ reports'[m].chat = Append(reports[m].chat, Message(c))
    <3>1. Filed(m, reports[m].chat) /\ reports[m].chat \in Seq(Messages)
      BY <2>2, <1>0 DEF PageInv, StoreFiled, ReportType
    <3>2. c \in Asks => call[c].at # "idle" /\ call[c].id = m BY <2>2
    <3>3. Filed(m, Append(reports[m].chat, Message(c))) BY <3>1, <3>2, <1>3, FiledMore DEF Filed
    <3>4. FiledIn(m, Append(reports[m].chat, Message(c)), call') BY <3>3, FiledKept
    <3> QED BY <2>2, <3>4
  <2>3. CASE reports'[m].chat = <<>> BY <2>3 DEF FiledIn
  <2> QED BY <1>5, <1>1, <2>1, <2>2, <2>3
<1>6. ASSUME NEW m \in DOMAIN reports' PROVE Belongs(m)'
  <2>1. SUFFICES ASSUME NEW i \in DOMAIN reports'[m].chat, NEW q \in Asks,
                        q = reports'[m].chat[i].ask
                 PROVE  call'[q].of = reports'[m].birth \/ call'[q].of \notin Births'
    BY DEF Belongs
  <2>2. \/ /\ m \in DOMAIN reports /\ reports'[m].birth = reports[m].birth
           /\ i \in DOMAIN reports[m].chat /\ q = reports[m].chat[i].ask
        \/ m \in DOMAIN reports /\ reports'[m].birth = reports[m].birth /\ m = n /\ q = c
    <3>1. CASE m \in DOMAIN reports /\ reports'[m].birth = reports[m].birth
               /\ reports'[m].chat = reports[m].chat
      BY <3>1, <2>1
    <3>2. CASE /\ m \in DOMAIN reports /\ reports'[m].birth = reports[m].birth /\ m = n
               /\ reports'[m].chat = Append(reports[m].chat, Message(c))
      <4> DEFINE chat == reports[m].chat
      <4>1. chat \in Seq(Messages) BY <3>2, <1>0 DEF ReportType
      <4>2. (i \in DOMAIN chat /\ Append(chat, Message(c))[i] = chat[i])
            \/ Append(chat, Message(c))[i] = Message(c)
        BY <3>2, <2>1, <4>1, <1>3
      <4> QED BY <3>2, <2>1, <4>2, <1>3
    <3>3. CASE reports'[m].chat = <<>> BY <3>3, <2>1
    <3> QED BY <1>6, <1>1, <3>1, <3>2, <3>3
  <2>3. /\ call[q].at # "idle" /\ m \in DOMAIN reports /\ reports'[m].birth = reports[m].birth
        /\ call[q].of = reports[m].birth \/ call[q].of \notin Births
    <3>1. CASE i \in DOMAIN reports[m].chat /\ q = reports[m].chat[i].ask /\ m \in DOMAIN reports
      BY <2>1, <2>2, <3>1 DEF PageInv, BelongInv, Belongs, StoreFiled, Filed, FiledIn
    <3>2. CASE m = n /\ q = c /\ m \in DOMAIN reports
      <4>1. Known(n, call[c].of) BY <2>1, <3>2 DEF PageInv, CallKnown
      <4> QED BY <2>1, <2>2, <3>2, <4>1 DEF Known, KnownIn, Births
    <3> QED BY <2>2, <3>1, <3>2
  <2>4. call'[q].of = call[q].of BY <2>1, <2>3 DEF Kept
  <2>5. call[q].of \in 0 .. born BY <2>1 DEF PageInv, CallKnown, Known, KnownIn
  <2>6. Births' \subseteq Births \cup {born + 1} BY <1>1 DEF Births
  <2> QED BY <2>3, <2>4, <2>5, <2>6, <1>0
<1> QED BY <1>0, <1>2, <1>5, <1>6 DEF BelongInv, StoreFiled, Filed

-------------------------------------------------------------------------------
(* The calls of the page and of the clients *)

CallsOK == CallOK /\ CallKnown

LEMMA SendOK ==
  ASSUME PageInv, PageAssumption, NEW c \in Calls,
         NEW op \in {"save", "create", "delete", "publish", "withdraw", "query"}, NEW id \in Nat, NEW of \in Nat,
         Send(c, op, id, of), c \in Asks <=> op = "query", c = NewButton => op = "create",
         c \in Asks => Known(id, of)
  PROVE  CallsOK' /\ Kept /\ UNCHANGED <<reports, born>>
<1> DEFINE x == Request(op, id, of)
<1>0. born \in Nat BY DEF PageInv, TypeInv, StoreOK
<1>1. x \in CallType /\ x.op = op /\ x.at = FirstStep[op] /\ x.id = id /\ x.of = of
  BY <1>0 DEF Request, FirstStep, CallType, Ops, Steps, AskSteps, EditSteps
<1>2. /\ op = "query" => x.at = "get"
      /\ op = "create" => x.at = "next"
      /\ op # "query" => x.at \in {"find", "next", "victim", "patch"}
  BY <1>1 DEF FirstStep
<1>3. call \in [Calls -> CallType] /\ NewButton \in Calls /\ NewButton \notin Asks
      /\ Asks \subseteq Calls
  BY PageAssumption DEF PageInv, TypeInv, CallOK, PageAssumption
<1>4. call[c].at = "idle" /\ call' = [call EXCEPT ![c] = x] /\ UNCHANGED <<reports, born>>
  BY DEF Send
<1> HIDE DEF x
<1>5. call' \in [Calls -> CallType] /\ call'[c] = x /\ \A d \in Calls : d # c => call'[d] = call[d]
  BY <1>1, <1>3, <1>4
<1>6. CallOK'
  BY <1>1, <1>2, <1>3, <1>4, <1>5 DEF PageInv, TypeInv, CallOK, AskSteps, EditSteps, NewSteps
<1>7. CallKnown'
  BY <1>1, <1>2, <1>3, <1>4, <1>5 DEF PageInv, CallKnown, Known, KnownIn
<1>8. Kept BY <1>3, <1>4, <1>5 DEF Kept
<1> QED BY <1>4, <1>6, <1>7, <1>8 DEF CallsOK

LEMMA IdleOK ==
  ASSUME PageInv, PageAssumption, NEW c \in Calls, c \notin Asks, call' = [call EXCEPT ![c] = Idle],
         UNCHANGED <<reports, born>>
  PROVE  CallsOK' /\ Kept
<1>1. Idle \in CallType /\ Idle.at = "idle" /\ Idle.op = "none"
  BY DEF Idle, CallType, Ops, Steps, AskSteps
<1>2. call \in [Calls -> CallType] /\ NewButton \in Calls /\ NewButton \notin Asks
      /\ Asks \subseteq Calls
  BY PageAssumption DEF PageInv, TypeInv, CallOK, PageAssumption
<1>3. call' \in [Calls -> CallType] /\ call'[c] = Idle /\ \A d \in Calls : d # c => call'[d] = call[d]
  BY <1>1, <1>2
<1>4. CallOK'
  BY <1>1, <1>2, <1>3 DEF PageInv, TypeInv, CallOK, EditSteps, NewSteps
<1>5. CallKnown' BY <1>1, <1>2, <1>3 DEF PageInv, CallKnown, Known, KnownIn
<1>6. Kept BY <1>2, <1>3 DEF Kept
<1> QED BY <1>4, <1>5, <1>6 DEF CallsOK

LEMMA CallsStay ==
  ASSUME PageInv, UNCHANGED <<reports, born, call>>
  PROVE  CallsOK' /\ Kept
BY DEF PageInv, TypeInv, CallOK, CallKnown, CallsOK, Kept, Known, KnownIn

\* A handler's step: the number of an analysis stays, the page's own new dossier is known.
LEMMA HandledOK ==
  ASSUME PageInv, PageAssumption, NEW c \in Calls, Handled(c)
  PROVE  CallsOK' /\ Kept
<1>1. call \in [Calls -> CallType] /\ NewButton \in Calls /\ NewButton \notin Asks
      /\ Asks \subseteq Calls
  BY PageAssumption DEF PageInv, TypeInv, CallOK, PageAssumption
<1>2. /\ call' \in [Calls -> CallType] /\ call'[c].op = call[c].op /\ call[c].at # "idle"
      /\ \A d \in Calls : d # c => call'[d] = call[d]
  BY DEF Handled
<1>3. Kept BY <1>1, <1>2 DEF Kept, Handled
<1>4. StoreOK' /\ born' >= born /\ Mono
  BY <1>2, <1>3, StoreStep DEF Handled
<1>5. born \in Nat /\ born' \in Nat BY <1>4 DEF PageInv, TypeInv, StoreOK
<1>6. CallOK'
  <2>1. \A q \in Asks : call'[q].at \in AskSteps /\ (call'[q].at # "idle" => call'[q].op = "query")
    BY <1>1, <1>2 DEF Handled, PageInv, TypeInv, CallOK
  <2>2. \A d \in Calls \ Asks : call'[d].at \in EditSteps /\ call'[d].op # "query"
    BY <1>1, <1>2 DEF Handled, PageInv, TypeInv, CallOK
  <2>3. call'[NewButton].at \in NewSteps
    BY <1>1, <1>2 DEF Handled, PageInv, TypeInv, CallOK
  <2>4. call'[NewButton].at # "idle" => call'[NewButton].op = "create"
    BY <1>1, <1>2 DEF Handled, PageInv, TypeInv, CallOK
  <2>5. ASSUME NEW d \in Calls, call'[d].at = "insert" PROVE call'[d].id \in 1 .. born' + 1
    <3>1. CASE d = c BY <2>5, <3>1, <1>5 DEF Handled
    <3>2. CASE d # c
      <4>1. call'[d].id \in 1 .. born + 1 BY <2>5, <3>2, <1>2 DEF PageInv, TypeInv, CallOK
      <4> QED BY <4>1, <1>4, <1>5
    <3> QED BY <3>1, <3>2
  <2> QED BY <1>2, <2>1, <2>2, <2>3, <2>4, <2>5 DEF CallOK
<1>7. CallKnown'
  <2>1. ASSUME NEW q \in Asks PROVE KnownIn(call'[q].id, call'[q].of, reports', born')
    <3>1. call'[q].id = call[q].id /\ call'[q].of = call[q].of BY <1>1, <1>2 DEF Handled
    <3>2. Known(call[q].id, call[q].of) BY DEF PageInv, CallKnown
    <3> QED BY <3>1, <3>2, <1>4 DEF Mono
  <2>2. ASSUME call'[NewButton].at = "ok"
        PROVE  KnownIn(call'[NewButton].id, call'[NewButton].of, reports', born')
    <3>1. CASE c = NewButton
      <4>1. /\ reports' = Put(reports, call[c].id, NewReport(c)) /\ born' = born + 1
            /\ call'[c].id = call[c].id /\ call'[c].of = born + 1
        BY <2>2, <3>1 DEF Handled
      <4>2. \A m \in DOMAIN reports : reports[m].birth \in 1 .. born
        BY DEF PageInv, TypeInv, StoreOK
      <4>3. \A m \in DOMAIN reports' : m = call[c].id \/ (m \in DOMAIN reports /\ reports'[m] = reports[m])
        BY <4>1 DEF Put
      <4> QED BY <3>1, <4>1, <4>2, <4>3, <1>5 DEF KnownIn
    <3>2. CASE c # NewButton
      <4>1. call'[NewButton] = call[NewButton] BY <3>2, <1>1, <1>2
      <4>2. Known(call[NewButton].id, call[NewButton].of) BY <2>2, <4>1 DEF PageInv, CallKnown
      <4> QED BY <4>1, <4>2, <1>4 DEF Mono
    <3> QED BY <3>1, <3>2
  <2> QED BY <2>1, <2>2 DEF CallKnown, Known
<1> QED BY <1>3, <1>6, <1>7 DEF CallsOK

-------------------------------------------------------------------------------
(* What the page's effects leave *)

\* A load that is on its way has nothing yet or what a load had before.
Came == \A l \in loads' : l.chat = <<>> \/ \E k \in loads : k.id = l.id /\ k.chat = l.chat

Same(p) == page'.rows = p.rows /\ page'.chat = p.chat /\ page'.run = p.run

LEMMA Loading ==
  ASSUME NEW p \in PageType, NEW n \in Nat, loads \subseteq LoadType, StartLoad(p, n)
  PROVE  page' \in PageType /\ loads' \subseteq LoadType /\ Same(p) /\ page'.shown = p.shown /\ Came
<1>1. page' = [p EXCEPT !.loadingChat = TRUE, !.chatError = 0] BY DEF StartLoad
<1>2. page' \in PageType /\ Same(p) /\ page'.shown = p.shown BY <1>1 DEF PageType, Same
<1>3. ASSUME NEW l \in loads'
      PROVE  l \in LoadType /\ (l.chat = <<>> \/ \E k \in loads : k.id = l.id /\ k.chat = l.chat)
  <2>1. CASE \E k \in loads : l = [k EXCEPT !.newest = FALSE]
    <3>1. PICK k \in loads : l = [k EXCEPT !.newest = FALSE] BY <2>1
    <3>2. k \in LoadType OBVIOUS
    <3> QED BY <3>1, <3>2 DEF LoadType
  <2>2. CASE l = [id |-> n, at |-> "get", newest |-> TRUE, birth |-> 0, chat |-> <<>>]
    BY <2>2 DEF LoadType
  <2> QED BY <1>3, <2>1, <2>2 DEF StartLoad
<1> QED BY <1>2, <1>3 DEF Came

LEMMA ShownIs ==
  ASSUME NEW p \in PageType
  PROVE  Shown(p) \in RowType /\ (Shown(p) = NoRow \/ \E i \in DOMAIN p.rows : Shown(p) = p.rows[i])
<1>0. p.rows \in Seq(RowType) /\ NoRow \in RowType BY DEF PageType, RowType, NoRow
<1>1. CASE p.selected \in Ids(p)
  <2>1. \E i \in DOMAIN p.rows : p.rows[i].id = p.selected BY <1>1 DEF Ids
  <2> DEFINE i == CHOOSE i \in DOMAIN p.rows : p.rows[i].id = p.selected
  <2>2. i \in DOMAIN p.rows BY <2>1
  <2>3. Shown(p) = p.rows[i] BY <1>1 DEF Shown
  <2> HIDE DEF i
  <2> QED BY <2>2, <2>3, <1>0
<1>2. CASE p.selected \notin Ids(p) /\ p.rows = <<>> BY <1>2, <1>0 DEF Shown
<1>3. CASE p.selected \notin Ids(p) /\ p.rows # <<>>
  <2>1. 1 \in DOMAIN p.rows BY <1>3, <1>0
  <2> QED BY <1>3, <2>1, <1>0 DEF Shown
<1> QED BY <1>1, <1>2, <1>3

LEMMA Committing ==
  ASSUME NEW p \in PageType, loads \subseteq LoadType, Commit(p)
  PROVE  page' \in PageType /\ loads' \subseteq LoadType /\ Same(p) /\ Came
         /\ (page'.shown = NoRow \/ \E i \in DOMAIN p.rows : page'.shown = p.rows[i])
<1> DEFINE row == Shown(p)
           q == [p EXCEPT !.selected = IF row = NoRow THEN @ ELSE row.id, !.shown = row]
<1>1. row \in RowType /\ (row = NoRow \/ \E i \in DOMAIN p.rows : row = p.rows[i]) BY ShownIs
<1>2. IF row.id \notin {0, p.shown.id} THEN StartLoad(q, row.id) ELSE page' = q /\ UNCHANGED loads
  BY DEF Commit
<1> HIDE DEF row
<1>3. q \in PageType /\ q.rows = p.rows /\ q.chat = p.chat /\ q.run = p.run /\ q.shown = row
  BY <1>1 DEF PageType, RowType
<1> HIDE DEF q
<1>4. CASE StartLoad(q, row.id)
  <2>1. row.id \in Nat BY <1>1 DEF RowType
  <2>2. page' \in PageType /\ loads' \subseteq LoadType /\ Same(q) /\ page'.shown = q.shown /\ Came
    BY <1>3, <1>4, <2>1, Loading
  <2> QED BY <1>1, <1>3, <2>2 DEF Same
<1>5. CASE page' = q /\ UNCHANGED loads BY <1>1, <1>3, <1>5 DEF Same, Came
<1> QED BY <1>2, <1>4, <1>5

LEMMA OverIs ==
  ASSUME NEW p \in PageType, page \in PageType, loads \subseteq LoadType, Over(p)
  PROVE  page' \in PageType /\ loads' \subseteq LoadType /\ Same(p) /\ Came /\ page'.shown = p.shown
<1>1. CASE page.asking /\ page.pending # 0
  <2> DEFINE q == [p EXCEPT !.asking = FALSE, !.pending = 0]
  <2>1. q \in PageType /\ q.rows = p.rows /\ q.chat = p.chat /\ q.run = p.run /\ q.shown = p.shown
    BY DEF PageType
  <2>2. page.pending \in Nat BY DEF PageType
  <2>3. StartLoad(q, page.pending) BY <1>1 DEF Over
  <2> HIDE DEF q
  <2>4. page' \in PageType /\ loads' \subseteq LoadType /\ Same(q) /\ page'.shown = q.shown /\ Came
    BY <2>1, <2>2, <2>3, Loading
  <2> QED BY <2>1, <2>4 DEF Same
<1>2. CASE page.asking /\ page.pending = 0
  <2>1. page' = [p EXCEPT !.asking = FALSE] /\ UNCHANGED loads BY <1>2 DEF Over
  <2> QED BY <2>1 DEF PageType, Same, Came
<1>3. CASE ~page.asking
  BY <1>3 DEF Over, PageType, Same, Came
<1> QED BY <1>1, <1>2, <1>3

LEMMA AddedIs ==
  ASSUME NEW p \in PageType, NEW n \in Nat, NEW m \in Messages, NEW calls,
         \A k \in DOMAIN p.chat : FiledIn(k, p.chat[k], calls),
         m.ask \in Asks => calls[m.ask].at # "idle" /\ calls[m.ask].id = n
  PROVE  /\ Added(p, n, m) \in PageType
         /\ Added(p, n, m).rows = p.rows /\ Added(p, n, m).run = p.run
         /\ Added(p, n, m).shown = p.shown
         /\ \A k \in DOMAIN Added(p, n, m).chat : FiledIn(k, Added(p, n, m).chat[k], calls)
<1> DEFINE s == IF n \in DOMAIN p.chat THEN Append(p.chat[n], m) ELSE <<m>>
           f == Put(p.chat, n, s)
<1>1. PICK D \in SUBSET Nat : p.chat \in [D -> Seq(Messages)] BY DEF PageType
<1>2. s \in Seq(Messages) /\ FiledIn(n, s, calls)
  <2>1. CASE n \in DOMAIN p.chat
    <3>1. p.chat[n] \in Seq(Messages) /\ FiledIn(n, p.chat[n], calls) BY <2>1, <1>1
    <3>2. FiledIn(n, Append(p.chat[n], m), calls) BY <3>1, FiledMore
    <3> QED BY <2>1, <3>1, <3>2
  <2>2. CASE n \notin DOMAIN p.chat BY <2>2 DEF FiledIn
  <2> QED BY <2>1, <2>2
<1>3. Added(p, n, m) = [p EXCEPT !.chat = f] BY DEF Added
<1> HIDE DEF s
<1>4. f \in [D \cup {n} -> Seq(Messages)] BY <1>1, <1>2, PutTyped
<1>5. f \in UNION {[E -> Seq(Messages)] : E \in SUBSET Nat} BY <1>4
<1>6. DOMAIN f = DOMAIN p.chat \cup {n} /\ f[n] = s /\ \A k \in DOMAIN p.chat : k # n => f[k] = p.chat[k]
  BY DEF Put
<1>7. \A k \in DOMAIN f : FiledIn(k, f[k], calls) BY <1>2, <1>6
<1> HIDE DEF f
<1> QED BY <1>3, <1>5, <1>7 DEF PageType

\* The rows of the list without dossier n are rows of the list.
LEMMA OthersAre ==
  ASSUME page \in PageType, NEW n
  PROVE  /\ Others(n) \in Seq(RowType)
         /\ \A i \in DOMAIN Others(n) : \E j \in DOMAIN page.rows : Others(n)[i] = page.rows[j]
<1>0. page.rows \in Seq(RowType) BY DEF PageType
<1>1. CASE n \in Ids(page)
  <2> DEFINE r == page.rows
             i == PlaceOf(n)
  <2>1. i \in DOMAIN r
    <3>1. \E k \in DOMAIN r : r[k].id = n BY <1>1 DEF Ids
    <3> QED BY <3>1 DEF PlaceOf
  <2>2. Others(n) = SubSeq(r, 1, i - 1) \o SubSeq(r, i + 1, Len(r)) BY <1>1 DEF Others, RemoveAt
  <2> HIDE DEF i
  <2>3. i \in 1 .. Len(r) /\ Len(r) \in Nat BY <2>1, <1>0
  <2> DEFINE a == SubSeq(r, 1, i - 1)
             b == SubSeq(r, i + 1, Len(r))
  <2>4. /\ a \in Seq(RowType) /\ Len(a) = i - 1 /\ \A k \in 1 .. i - 1 : a[k] = r[k]
    BY <2>3, <1>0
  <2>5. /\ b \in Seq(RowType) /\ Len(b) = Len(r) - i /\ \A k \in 1 .. Len(r) - i : b[k] = r[k + i]
    BY <2>3, <1>0
  <2> HIDE DEF a, b
  <2>6. ASSUME NEW k \in DOMAIN (a \o b) PROVE \E j \in DOMAIN r : (a \o b)[k] = r[j]
    <3>1. k \in 1 .. Len(a) + Len(b) BY <2>4, <2>5
    <3>2. CASE k <= Len(a)
      <4>1. (a \o b)[k] = a[k] BY <2>4, <2>5, <3>1, <3>2
      <4> QED BY <4>1, <2>3, <2>4, <3>1, <3>2
    <3>3. CASE k > Len(a)
      <4>1. (a \o b)[k] = b[k - Len(a)] BY <2>4, <2>5, <3>1, <3>3
      <4>2. k - Len(a) \in 1 .. Len(r) - i BY <2>3, <2>4, <2>5, <3>1, <3>3, SMTT(30)
      <4>3. b[k - Len(a)] = r[(k - Len(a)) + i] BY <2>5, <4>2
      <4>4. (k - Len(a)) + i \in 1 .. Len(r) BY <2>3, <4>2
      <4> QED BY <4>1, <4>3, <4>4, <1>0
    <3> QED BY <3>1, <3>2, <3>3, <2>4
  <2>7. a \o b \in Seq(RowType) BY <2>4, <2>5
  <2>8. Others(n) = a \o b BY <2>2 DEF a, b
  <2> QED BY <2>6, <2>7, <2>8
<1>2. CASE n \notin Ids(page) BY <1>2, <1>0 DEF Others
<1> QED BY <1>1, <1>2

-------------------------------------------------------------------------------
(* Every step keeps the invariant *)

PagePart == PageOK /\ PageKnown /\ PageFiled

ListingOK ==
  /\ listing \in [at : {"none", "server", "back"}, rows : Seq(RowType)]
  /\ \A i \in DOMAIN listing.rows : Known(listing.rows[i].id, listing.rows[i].birth)

LEMMA ListingKept ==
  ASSUME PageInv, Mono, listing' \in {listing, NotAsked, Waiting}
  PROVE  ListingOK'
<1>1. CASE listing' = listing
  BY <1>1 DEF PageInv, TypeInv, PageOK, PageKnown, ListingOK, Mono, Known
<1>2. CASE listing' \in {NotAsked, Waiting}
  <2> DEFINE none == <<>>
  <2>3. none \in Seq(RowType) /\ DOMAIN none = {} OBVIOUS
  <2>4. NotAsked = [at |-> "none", rows |-> none] /\ Waiting = [at |-> "server", rows |-> none]
    BY DEF NotAsked, Waiting
  <2> HIDE DEF none
  <2>5. PICK x \in {"none", "server"} : listing' = [at |-> x, rows |-> none] BY <1>2, <2>4
  <2>6. listing'.rows = none BY <2>5
  <2>7. listing' \in [at : {"none", "server", "back"}, rows : Seq(RowType)] BY <2>3, <2>5
  <2>1. DOMAIN listing'.rows = {} BY <2>3, <2>6
  <2>2. \A i \in DOMAIN listing'.rows : KnownIn(listing'.rows[i].id, listing'.rows[i].birth, reports', born')
    BY <2>1
  <2> QED BY <2>7, <2>2 DEF ListingOK, Known
<1> QED BY <1>1, <1>2

\* A step that leaves the store's dossiers alone.
LEMMA StoreStays ==
  ASSUME PageInv, PageAssumption, UNCHANGED <<reports, born>>, Kept
  PROVE  StoreOK' /\ StoreFiled' /\ BelongInv' /\ Mono
<1>1. NewButton \in Calls /\ NewButton \notin Asks BY PageAssumption DEF PageAssumption
<1>2. Effect(NewButton) BY Quiet
<1> QED BY <1>1, <1>2, StoreStep

LEMMA PageKeeps ==
  ASSUME PageInv, StoreOK', Mono, Kept, ListingOK',
         page' \in PageType, loads' \subseteq LoadType, Came,
         \A i \in DOMAIN page'.rows : KnownIn(page'.rows[i].id, page'.rows[i].birth, reports', born'),
         \/ page'.shown \in {NoRow, page.shown}
         \/ \E i \in DOMAIN page'.rows : page'.shown = page'.rows[i],
         \A n \in DOMAIN page'.chat : FiledIn(n, page'.chat[n], call'),
         page'.run = page.run
  PROVE  PagePart'
<1>1. KnownIn(0, 0, reports', born') BY DEF StoreOK, KnownIn
<1>2. KnownIn(page'.shown.id, page'.shown.birth, reports', born')
  <2>1. CASE page'.shown = NoRow BY <1>1, <2>1 DEF NoRow
  <2>2. CASE page'.shown = page.shown BY <2>2 DEF PageInv, PageKnown, Mono
  <2>3. CASE \E i \in DOMAIN page'.rows : page'.shown = page'.rows[i] BY <2>3
  <2> QED BY <2>1, <2>2, <2>3
<1>3. ASSUME NEW l \in loads' PROVE FiledIn(l.id, l.chat, call')
  <2>1. CASE l.chat = <<>> BY <2>1 DEF FiledIn
  <2>2. CASE \E k \in loads : k.id = l.id /\ k.chat = l.chat
    BY <2>2, FiledKept DEF PageInv, PageFiled
  <2> QED BY <1>3, <2>1, <2>2 DEF Came
<1>4. page'.run.ask \in Asks => call'[page'.run.ask].at # "idle" /\ call'[page'.run.ask].id = page'.run.id
  BY DEF PageInv, PageFiled, Kept
<1>5. PageOK' BY DEF PageOK, ListingOK
<1>6. PageKnown' BY <1>2 DEF PageKnown, ListingOK, Known
<1>7. PageFiled' BY <1>3, <1>4 DEF PageFiled, Filed
<1> QED BY <1>5, <1>6, <1>7 DEF PagePart

\* What the page has is still known and filed.
LEMMA OldPage ==
  ASSUME PageInv, Mono, Kept
  PROVE  /\ page \in PageType /\ loads \subseteq LoadType
         /\ \A i \in DOMAIN page.rows : KnownIn(page.rows[i].id, page.rows[i].birth, reports', born')
         /\ \A n \in DOMAIN page.chat : FiledIn(n, page.chat[n], call')
         /\ UNCHANGED loads => Came
BY FiledKept DEF PageInv, TypeInv, PageOK, PageKnown, PageFiled, Mono, Came

LEMMA PageStays ==
  ASSUME PageInv, StoreOK', Mono, Kept, UNCHANGED pageVars
  PROVE  PagePart'
<1>1. page' = page /\ loads' = loads /\ listing' = listing BY DEF pageVars
<1>2. ListingOK' BY <1>1, ListingKept
<1> QED BY <1>1, <1>2, OldPage, PageKeeps

\* Only the list's fields, the flags and the selection change.
LEMMA PageOnly ==
  ASSUME PageInv, StoreOK', Mono, Kept, listing' \in {listing, NotAsked, Waiting}, UNCHANGED loads,
         page' \in PageType, Same(page), page'.shown = page.shown
  PROVE  PagePart'
<1>1. ListingOK' BY ListingKept
<1> QED BY <1>1, OldPage, PageKeeps DEF Same

LEMMA CommitKeeps ==
  ASSUME PageInv, StoreOK', Mono, Kept, listing' \in {listing, NotAsked}, NEW p \in PageType, Commit(p),
         \A i \in DOMAIN p.rows : KnownIn(p.rows[i].id, p.rows[i].birth, reports', born'),
         \A n \in DOMAIN p.chat : FiledIn(n, p.chat[n], call'), p.run = page.run
  PROVE  PagePart'
<1>1. ListingOK' BY ListingKept
<1>2. page' \in PageType /\ loads' \subseteq LoadType /\ Same(p) /\ Came
      /\ (page'.shown = NoRow \/ \E i \in DOMAIN p.rows : page'.shown = p.rows[i])
  BY OldPage, Committing
<1> QED BY <1>1, <1>2, PageKeeps DEF Same

\* A step that tells the page about the end of its run.
LEMMA OverKeeps ==
  ASSUME PageInv, StoreOK', Mono, Kept, UNCHANGED listing, NEW p \in PageType, Over(p),
         p.rows = page.rows, p.shown = page.shown, p.run = page.run,
         \A n \in DOMAIN p.chat : FiledIn(n, p.chat[n], call')
  PROVE  PagePart'
<1>1. ListingOK' BY ListingKept
<1>2. page' \in PageType /\ loads' \subseteq LoadType /\ Same(p) /\ Came /\ page'.shown = p.shown
  BY OldPage, OverIs
<1> QED BY <1>1, <1>2, OldPage, PageKeeps DEF Same

LEMMA ToldIs ==
  ASSUME PageInv, Mono, Kept, page.run.ask \in Asks, Asks \subseteq Calls
  PROVE  \A p \in ToldErrors \cup {Told} :
           /\ p \in PageType /\ p.rows = page.rows /\ p.shown = page.shown /\ p.run = page.run
           /\ \A n \in DOMAIN p.chat : FiledIn(n, p.chat[n], call')
<1> DEFINE m == [role |-> "munin", ask |-> page.run.ask]
           a == Added(page, page.run.id, m)
<1>1. m \in Messages /\ m.ask = page.run.ask BY DEF Messages
<1>2. page \in PageType /\ page.run.id \in Nat BY OldPage DEF PageType
<1>3. call'[page.run.ask].at # "idle" /\ call'[page.run.ask].id = page.run.id
  BY DEF PageInv, PageFiled, Kept
<1>4. \A n \in DOMAIN page.chat : FiledIn(n, page.chat[n], call') BY OldPage
<1> HIDE DEF m
<1>5. /\ a \in PageType /\ a.rows = page.rows /\ a.run = page.run /\ a.shown = page.shown
      /\ \A n \in DOMAIN a.chat : FiledIn(n, a.chat[n], call')
  BY <1>1, <1>2, <1>3, <1>4, AddedIs
<1>6. Told = a BY DEF Told, AnalysisDossier, m
<1> HIDE DEF a
<1> DEFINE e == [a EXCEPT !.lastError = page.run.id]
<1>7. /\ e \in PageType /\ e.rows = a.rows /\ e.run = a.run /\ e.shown = a.shown /\ e.chat = a.chat
  BY <1>2, <1>5 DEF PageType
<1>8. \A p \in ToldErrors \cup {Told} : p = e \/ p = a \/ p = page
  BY <1>6 DEF ToldErrors, AnalysisDossier
<1> HIDE DEF e
<1> QED BY <1>2, <1>4, <1>5, <1>7, <1>8

LEMMA Together ==
  ASSUME StoreOK', StoreFiled', BelongInv', CallsOK', PagePart'
  PROVE  PageInv'
BY DEF PageInv, TypeInv, CallsOK, PagePart

\* A request of the user's or of a client's that leaves the page as it is.
LEMMA SendKeeps ==
  ASSUME PageInv, PageAssumption, CallsOK', Kept, UNCHANGED <<reports, born>>, UNCHANGED <<page, listing, loads>>
  PROVE  PageInv'
<1>1. StoreOK' /\ StoreFiled' /\ BelongInv' /\ Mono BY StoreStays
<1>2. ListingOK' BY <1>1, ListingKept
<1>3. PagePart' BY <1>1, <1>2, OldPage, PageKeeps
<1> QED BY <1>1, <1>3, Together

LEMMA ServerKeeps ==
  ASSUME PageInv, PageAssumption, NEW c \in Calls, ServerMoves(c)
  PROVE  PageInv'
<1>1. Handled(c) /\ UNCHANGED pageVars BY StepIsHandled DEF ServerMoves, PageInv
<1>2. CallsOK' /\ Kept BY <1>1, HandledOK
<1>3. StoreOK' /\ StoreFiled' /\ BelongInv' /\ Mono BY <1>1, <1>2, StoreStep DEF Handled
<1>4. PagePart' BY <1>1, <1>2, <1>3, PageStays
<1> QED BY <1>2, <1>3, <1>4, Together

LEMMA ClientKeeps ==
  ASSUME PageInv, PageAssumption, NEW c \in Clients, ClientSends(c) \/ ClientDone(c)
  PROVE  PageInv'
<1>0. c \in Calls /\ c \notin Asks /\ c # NewButton BY PageAssumption DEF PageAssumption
<1>1. CASE ClientSends(c)
  <2>1. UNCHANGED <<page, listing, loads>> BY <1>1 DEF ClientSends
  <2>2. \E op \in {"save", "create", "delete", "publish", "withdraw"}, id \in Nat, of \in Nat : Send(c, op, id, of)
    <3>1. CASE Send(c, "save", 0, 0) \/ Send(c, "create", 0, 0) BY <3>1
    <3>2. ASSUME NEW n \in DOMAIN reports, NEW kind \in {"delete", "publish", "withdraw"},
                 Send(c, kind, n, reports[n].birth)
          PROVE  \E op \in {"save", "create", "delete", "publish", "withdraw"}, id \in Nat, of \in Nat : Send(c, op, id, of)
      <4>1. n \in Nat /\ reports[n].birth \in Nat BY <3>2 DEF PageInv, TypeInv, StoreOK
      <4> QED BY <3>2, <4>1
    <3> QED BY <1>1, <3>1, <3>2 DEF ClientSends
  <2>3. CallsOK' /\ Kept /\ UNCHANGED <<reports, born>> BY <1>0, <2>2, SendOK
  <2> QED BY <2>1, <2>3, SendKeeps
<1>2. CASE ClientDone(c)
  <2>1. /\ call' = [call EXCEPT ![c] = Idle] /\ UNCHANGED <<reports, born>>
        /\ UNCHANGED <<page, listing, loads>>
    BY <1>2 DEF ClientDone, Forget, pageVars
  <2>2. CallsOK' /\ Kept BY <1>0, <2>1, IdleOK
  <2> QED BY <2>1, <2>2, SendKeeps
<1> QED BY <1>1, <1>2

\* The buttons' requests go out.
LEMMA ButtonsSend ==
  ASSUME PageInv, PageAssumption, Create \/ Delete
  PROVE  PageInv'
<1>0. /\ NewButton \in Calls /\ DeleteButton \in Calls /\ NewButton # DeleteButton
      /\ NewButton \notin Asks /\ DeleteButton \notin Asks
  BY PageAssumption DEF PageAssumption
<1>1. CASE Create
  <2>1. Send(NewButton, "create", 0, 0) /\ UNCHANGED <<page, listing, loads>> BY <1>1 DEF Create
  <2>2. CallsOK' /\ Kept /\ UNCHANGED <<reports, born>> BY <1>0, <2>1, SendOK
  <2> QED BY <2>1, <2>2, SendKeeps
<1>2. CASE Delete
  <2>1. Send(DeleteButton, "delete", page.shown.id, page.shown.birth) /\ UNCHANGED <<page, listing, loads>>
    BY <1>2 DEF Delete
  <2>2. page.shown.id \in Nat /\ page.shown.birth \in Nat
    BY DEF PageInv, TypeInv, PageOK, PageType, RowType
  <2>3. CallsOK' /\ Kept /\ UNCHANGED <<reports, born>> BY <1>0, <2>1, <2>2, SendOK
  <2> QED BY <2>1, <2>3, SendKeeps
<1> QED BY <1>1, <1>2

\* The analysis goes out: its question stands in the chat of the dossier shown.
LEMMA AskKeeps ==
  ASSUME PageInv, PageAssumption, NEW q \in Asks, Ask(q)
  PROVE  PageInv'
<1> DEFINE s == page.shown
           m == [role |-> "user", ask |-> q]
           a == Added(page, s.id, m)
<1>0. q \in Calls /\ q # NewButton BY PageAssumption DEF PageAssumption
<1>1. page \in PageType /\ s.id \in Nat /\ s.birth \in Nat
  BY DEF PageInv, TypeInv, PageOK, PageType, RowType
<1>2. Known(s.id, s.birth) BY DEF PageInv, PageKnown
<1>3. /\ Send(q, "query", s.id, s.birth) /\ UNCHANGED <<listing, loads>>
      /\ page' = [a EXCEPT !.run = [ask |-> q, id |-> s.id], !.asking = TRUE, !.pending = s.id]
  BY DEF Ask
<1>4. CallsOK' /\ Kept /\ UNCHANGED <<reports, born>> BY <1>0, <1>1, <1>2, <1>3, SendOK
<1>5. StoreOK' /\ StoreFiled' /\ BelongInv' /\ Mono BY <1>4, StoreStays
<1>6. call'[q].at # "idle" /\ call'[q].id = s.id
  <2>1. call' = [call EXCEPT ![q] = Request("query", s.id, s.birth)] BY <1>3 DEF Send
  <2>2. call'[q] = Request("query", s.id, s.birth)
    BY <1>0, <2>1 DEF PageInv, TypeInv, CallOK
  <2> QED BY <2>2 DEF Request, FirstStep
<1>7. m \in Messages /\ m.ask = q BY <1>0 DEF Messages
<1>8. \A n \in DOMAIN page.chat : FiledIn(n, page.chat[n], call') BY <1>4, <1>5, OldPage
<1> HIDE DEF m
<1>9. /\ a \in PageType /\ a.rows = page.rows /\ a.shown = page.shown
      /\ \A n \in DOMAIN a.chat : FiledIn(n, a.chat[n], call')
  BY <1>1, <1>6, <1>7, <1>8, AddedIs
<1> HIDE DEF a
<1>10. /\ page' \in PageType /\ page'.rows = page.rows /\ page'.shown = page.shown
       /\ page'.chat = a.chat /\ page'.run = [ask |-> q, id |-> s.id]
  BY <1>0, <1>1, <1>3, <1>9 DEF PageType
<1>11. ListingOK' BY <1>3, <1>5, ListingKept
<1>12. PageKnown'
  BY <1>4, <1>5, <1>10, <1>11, OldPage DEF PageKnown, ListingOK, Known, PageInv, Mono
<1>13. PageFiled'
  <2>1. \A l \in loads' : FiledIn(l.id, l.chat, call')
    BY <1>3, <1>4, FiledKept DEF PageInv, PageFiled
  <2> QED BY <1>6, <1>9, <1>10, <2>1 DEF PageFiled, Filed
<1>14. PageOK' BY <1>1, <1>3, <1>10, <1>11, OldPage, <1>4, <1>5 DEF PageOK, ListingOK
<1> QED BY <1>4, <1>5, <1>12, <1>13, <1>14, Together DEF PagePart

\* The list of dossiers as it is read: each one under its number.
LEMMA ListReadsKeeps ==
  ASSUME PageInv, PageAssumption, ListReads
  PROVE  PageInv'
<1>1. UNCHANGED <<reports, born, call>> /\ UNCHANGED <<page, loads>>
  BY DEF ListReads, storeVars
<1>2. CallsOK' /\ Kept BY <1>1, CallsStay
<1>3. StoreOK' /\ StoreFiled' /\ BelongInv' /\ Mono BY <1>1, <1>2, StoreStays
<1>4. PICK s \in NewestFirst : listing' = [at |-> "back", rows |-> [i \in DOMAIN s |-> Row(s[i])]]
  BY DEF ListReads
<1>5. Cardinality(DOMAIN reports) \in Nat
  <2>1. IsFiniteSet(1 .. born) BY FS_Interval DEF PageInv, TypeInv, StoreOK
  <2>2. DOMAIN reports \subseteq 1 .. born BY DEF PageInv, TypeInv, StoreOK
  <2>3. IsFiniteSet(DOMAIN reports) BY <2>1, <2>2, FS_Subset
  <2> QED BY <2>3, FS_CardinalityType
<1> DEFINE N == Cardinality(DOMAIN reports)
           r == [i \in DOMAIN s |-> Row(s[i])]
<1>6. s \in [1 .. N -> DOMAIN reports] BY <1>4 DEF NewestFirst
<1>7. \A n \in DOMAIN reports : Row(n) \in RowType /\ Known(Row(n).id, Row(n).birth)
  <2>1. SUFFICES ASSUME NEW n \in DOMAIN reports PROVE Row(n) \in RowType /\ Known(Row(n).id, Row(n).birth)
    OBVIOUS
  <2>2. /\ n \in Nat /\ reports[n].birth \in 1 .. born /\ born \in Nat
        /\ \A m \in DOMAIN reports : reports[m].birth = reports[n].birth => m = n
    BY DEF PageInv, TypeInv, StoreOK
  <2>3. Row(n).id = n /\ Row(n).birth = reports[n].birth BY DEF Row
  <2> QED BY <2>2, <2>3 DEF RowType, Row, Known, KnownIn
<1>8. DOMAIN r = 1 .. N /\ \A i \in 1 .. N : r[i] \in RowType /\ Known(r[i].id, r[i].birth)
  BY <1>6, <1>7
<1>9. r \in [1 .. N -> RowType] BY <1>6, <1>7
<1> HIDE DEF N, r
<1>10. r \in Seq(RowType) BY <1>5, <1>9 DEF N
<1>11. listing' = [at |-> "back", rows |-> r] BY <1>4 DEF r
<1>12. ListingOK'
  <2>1. listing'.rows = r BY <1>11
  <2>2. listing' \in [at : {"none", "server", "back"}, rows : Seq(RowType)] BY <1>10, <1>11
  <2>3. \A i \in DOMAIN r : KnownIn(r[i].id, r[i].birth, reports', born') BY <1>8, <1>3 DEF Mono
  <2> QED BY <2>1, <2>2, <2>3 DEF ListingOK, Known
<1>13. PagePart' BY <1>1, <1>2, <1>3, <1>12, OldPage, PageKeeps
<1> QED BY <1>2, <1>3, <1>13, Together

\* The list lands, fails or is asked for again; another dossier is selected.
LEMMA ListKeeps ==
  ASSUME PageInv, PageAssumption,
         ListLands \/ ListFails \/ RetryList \/ \E i \in DOMAIN page.rows : Select(i)
  PROVE  PageInv'
<1>1. UNCHANGED <<reports, born, call>>
  BY DEF ListLands, ListFails, RetryList, Select, storeVars
<1>2. CallsOK' /\ Kept BY <1>1, CallsStay
<1>3. StoreOK' /\ StoreFiled' /\ BelongInv' /\ Mono BY <1>1, <1>2, StoreStays
<1>4. /\ page \in PageType /\ loads \subseteq LoadType
      /\ \A i \in DOMAIN page.rows : KnownIn(page.rows[i].id, page.rows[i].birth, reports', born')
      /\ \A n \in DOMAIN page.chat : FiledIn(n, page.chat[n], call')
  BY <1>2, <1>3, OldPage
<1>5. CASE ListLands
  <2> DEFINE p == [page EXCEPT !.rows = listing.rows,
                               !.selected = IF listing.rows = <<>> THEN 0 ELSE @]
  <2>1. listing.rows \in Seq(RowType) BY DEF PageInv, TypeInv, PageOK
  <2>2. p \in PageType /\ p.rows = listing.rows /\ p.chat = page.chat /\ p.run = page.run
    BY <1>4, <2>1 DEF PageType
  <2>3. Commit(p) /\ listing' = NotAsked BY <1>5 DEF ListLands
  <2>4. \A i \in DOMAIN listing.rows : KnownIn(listing.rows[i].id, listing.rows[i].birth, reports', born')
    BY <1>3 DEF PageInv, PageKnown, Mono
  <2> HIDE DEF p
  <2>5. PagePart' BY <1>2, <1>3, <1>4, <2>2, <2>3, <2>4, CommitKeeps
  <2> QED BY <1>2, <1>3, <2>5, Together
<1>6. CASE ListFails
  <2>1. UNCHANGED <<page, loads>> /\ listing' = NotAsked BY <1>6 DEF ListFails
  <2>2. PagePart' BY <1>2, <1>3, <1>4, <2>1, PageOnly DEF Same
  <2> QED BY <1>2, <1>3, <2>2, Together
<1>7. CASE RetryList
  <2>1. UNCHANGED <<page, loads>> /\ listing' = Waiting BY <1>7 DEF RetryList
  <2>2. PagePart' BY <1>2, <1>3, <1>4, <2>1, PageOnly DEF Same
  <2> QED BY <1>2, <1>3, <2>2, Together
<1>8. ASSUME NEW i \in DOMAIN page.rows, Select(i) PROVE PageInv'
  <2> DEFINE p == [page EXCEPT !.selected = page.rows[i].id]
  <2>1. page.rows[i].id \in Nat
    <3>1. page.rows \in Seq(RowType) BY <1>4 DEF PageType
    <3>2. page.rows[i] \in RowType BY <3>1, <1>8
    <3> QED BY <3>2 DEF RowType
  <2>2. p \in PageType /\ p.rows = page.rows /\ p.chat = page.chat /\ p.run = page.run
    BY <1>4, <2>1 DEF PageType
  <2>3. Commit(p) /\ listing' = listing BY <1>8 DEF Select
  <2> HIDE DEF p
  <2>5. PagePart' BY <1>2, <1>3, <1>4, <2>2, <2>3, CommitKeeps
  <2> QED BY <1>2, <1>3, <2>5, Together
<1> QED BY <1>5, <1>6, <1>7, <1>8

\* A load moves on or lands.
LEMMA LoadKeeps ==
  ASSUME PageInv, PageAssumption, NEW l \in loads,
         LoadFinds(l) \/ LoadReads(l) \/ LoadLands(l) \/ LoadFails(l)
  PROVE  PageInv'
<1>1. UNCHANGED <<reports, born, call>> /\ UNCHANGED listing
  BY DEF LoadFinds, LoadReads, LoadLands, LoadFails, storeVars
<1>2. CallsOK' /\ Kept BY <1>1, CallsStay
<1>3. StoreOK' /\ StoreFiled' /\ BelongInv' /\ Mono BY <1>1, <1>2, StoreStays
<1>4. /\ page \in PageType /\ loads \subseteq LoadType
      /\ \A i \in DOMAIN page.rows : KnownIn(page.rows[i].id, page.rows[i].birth, reports', born')
      /\ \A n \in DOMAIN page.chat : FiledIn(n, page.chat[n], call')
  BY <1>2, <1>3, OldPage
<1>5. l \in LoadType BY <1>4
<1>6. ListingOK' BY <1>1, <1>3, ListingKept
\* What has been read is the chat of the dossier as it is filed.
<1>7. PageOK' /\ PageKnown' /\ PageFiled'
  <2>1. ASSUME NEW k, k \in LoadType, FiledIn(k.id, k.chat, call'), loads' \subseteq loads \cup {k},
               UNCHANGED page
        PROVE  PageOK' /\ PageKnown' /\ PageFiled'
    <3>1. PageOK' BY <1>4, <1>6, <2>1 DEF PageOK, ListingOK
    <3>2. PageKnown' BY <1>3, <1>4, <1>6, <2>1 DEF PageKnown, ListingOK, Known, PageInv, Mono
    <3>3. \A j \in loads' : FiledIn(j.id, j.chat, call')
      BY <1>2, <2>1, FiledKept DEF PageInv, PageFiled
    <3>4. page.run.ask \in Asks => call'[page.run.ask].at # "idle" /\ call'[page.run.ask].id = page.run.id
      BY <1>2 DEF PageInv, PageFiled, Kept
    <3>5. PageFiled' BY <1>4, <2>1, <3>3, <3>4 DEF PageFiled, Filed
    <3> QED BY <3>1, <3>2, <3>5
  <2>2. FiledIn(l.id, l.chat, call') BY <1>2, FiledKept DEF PageInv, PageFiled
  <2>3. CASE LoadFinds(l) \/ LoadFails(l)
    <3> DEFINE at == IF LoadFinds(l) THEN IF l.id \in DOMAIN reports THEN "list" ELSE "missing" ELSE "missing"
               k == [l EXCEPT !.at = at]
    <3>1. k \in LoadType /\ k.id = l.id /\ k.chat = l.chat BY <1>5 DEF LoadType
    <3>2. loads' = (loads \ {l}) \cup {k} \/ loads' = (loads \ {l}) \cup {[l EXCEPT !.at = "missing"]}
      BY <2>3 DEF LoadFinds, LoadFails, Moved
    <3>3. UNCHANGED page BY <2>3 DEF LoadFinds, LoadFails
    <3>4. [l EXCEPT !.at = "missing"] \in LoadType /\ [l EXCEPT !.at = "missing"].id = l.id
          /\ [l EXCEPT !.at = "missing"].chat = l.chat
      BY <1>5 DEF LoadType
    <3> HIDE DEF k
    <3>5. CASE loads' = (loads \ {l}) \cup {k} BY <2>1, <2>2, <3>1, <3>3, <3>5
    <3>6. CASE loads' = (loads \ {l}) \cup {[l EXCEPT !.at = "missing"]}
      BY <2>1, <2>2, <3>3, <3>4, <3>6
    <3> QED BY <3>2, <3>5, <3>6
  <2>4. CASE LoadReads(l)
    <3>1. CASE l.id \in DOMAIN reports
      <4> DEFINE k == [l EXCEPT !.at = "back", !.birth = reports[l.id].birth, !.chat = reports[l.id].chat]
      <4>1. reports[l.id] \in ReportType BY <3>1 DEF PageInv, TypeInv, StoreOK
      <4>2. k \in LoadType /\ k.id = l.id /\ k.chat = reports[l.id].chat
        BY <1>5, <4>1 DEF LoadType, ReportType
      <4>3. FiledIn(l.id, reports[l.id].chat, call') BY <1>2, <3>1, FiledKept DEF PageInv, StoreFiled
      <4>4. loads' = (loads \ {l}) \cup {k} /\ UNCHANGED page BY <2>4, <3>1 DEF LoadReads, Moved
      <4> HIDE DEF k
      <4> QED BY <2>1, <4>2, <4>3, <4>4
    <3>2. CASE l.id \notin DOMAIN reports
      <4> DEFINE k == [l EXCEPT !.at = "back"]
      <4>1. k \in LoadType /\ k.id = l.id /\ k.chat = l.chat BY <1>5 DEF LoadType
      <4>2. loads' = (loads \ {l}) \cup {k} /\ UNCHANGED page BY <2>4, <3>2 DEF LoadReads, Moved
      <4> HIDE DEF k
      <4> QED BY <2>1, <2>2, <4>1, <4>2
    <3> QED BY <3>1, <3>2
  <2>5. CASE LoadLands(l)
    <3>1. loads' = loads \ {l} BY <2>5 DEF LoadLands, Moved
    <3>2. loads' \subseteq LoadType /\ Came BY <1>4, <3>1 DEF Came
    <3>3. CASE UNCHANGED page BY <1>5, <2>1, <2>2, <3>1, <3>3
    <3>4. CASE page' = [page EXCEPT !.loadingChat = FALSE, !.chatError = l.id]
      <4>1. page' \in PageType /\ Same(page) /\ page'.shown = page.shown
        BY <1>4, <1>5, <3>4 DEF PageType, LoadType, Same
      <4>2. PagePart' BY <1>2, <1>3, <1>4, <1>6, <3>2, <4>1, PageKeeps DEF Same
      <4> QED BY <4>2 DEF PagePart
    <3>5. CASE page' = [page EXCEPT !.chat = Put(@, l.id, l.chat), !.loadingChat = FALSE]
      <4> DEFINE f == Put(page.chat, l.id, l.chat)
      <4>1. PICK D \in SUBSET Nat : page.chat \in [D -> Seq(Messages)] BY <1>4 DEF PageType
      <4>2. l.id \in Nat /\ l.chat \in Seq(Messages) BY <1>5 DEF LoadType
      <4>3. f \in [D \cup {l.id} -> Seq(Messages)] BY <4>1, <4>2, PutTyped
      <4>4. f \in UNION {[E -> Seq(Messages)] : E \in SUBSET Nat} BY <4>2, <4>3
      <4>5. \A n \in DOMAIN f : FiledIn(n, f[n], call') BY <1>4, <2>2 DEF Put
      <4> HIDE DEF f
      <4>6. page' = [page EXCEPT !.chat = f, !.loadingChat = FALSE] BY <3>5 DEF f
      <4>7. /\ page' \in PageType /\ page'.rows = page.rows /\ page'.shown = page.shown
            /\ page'.run = page.run /\ page'.chat = f
        BY <1>4, <4>4, <4>6 DEF PageType
      <4>8. PagePart' BY <1>2, <1>3, <1>4, <1>6, <3>2, <4>5, <4>7, PageKeeps
      <4> QED BY <4>8 DEF PagePart
    <3> QED BY <2>5, <3>3, <3>4, <3>5 DEF LoadLands
  <2> QED BY <2>3, <2>4, <2>5
<1> QED BY <1>2, <1>3, <1>7, Together DEF PagePart

\* The shown dossier's chat is loaded again; the page hears of its analysis.
LEMMA HearKeeps ==
  ASSUME PageInv, PageAssumption, RetryLoad \/ \E q \in Asks : Hears(q) \/ Breaks(q) \/ Cancel(q)
  PROVE  PageInv'
<1>0. Asks \subseteq Calls BY PageAssumption DEF PageAssumption
<1>1. UNCHANGED <<reports, born, call>> /\ UNCHANGED listing
  BY DEF RetryLoad, Hears, Breaks, Cancel, storeVars
<1>2. CallsOK' /\ Kept BY <1>1, CallsStay
<1>3. StoreOK' /\ StoreFiled' /\ BelongInv' /\ Mono BY <1>1, <1>2, StoreStays
<1>4. page \in PageType /\ loads \subseteq LoadType BY <1>2, <1>3, OldPage
<1>5. CASE RetryLoad
  <2>1. StartLoad(page, page.chatError) /\ page.chatError \in Nat BY <1>4, <1>5 DEF RetryLoad, PageType
  <2>2. page' \in PageType /\ loads' \subseteq LoadType /\ Same(page) /\ page'.shown = page.shown /\ Came
    BY <1>4, <2>1, Loading
  <2>3. ListingOK' BY <1>1, <1>3, ListingKept
  <2>4. PagePart' BY <1>2, <1>3, <2>2, <2>3, OldPage, PageKeeps DEF Same
  <2> QED BY <1>2, <1>3, <2>4, Together
<1>6. ASSUME NEW q \in Asks, Hears(q) \/ Breaks(q) \/ Cancel(q) PROVE PageInv'
  <2>1. page.run.ask \in Asks BY <1>6 DEF Hears, Breaks, Cancel
  <2>2. \A p \in ToldErrors \cup {Told} :
           /\ p \in PageType /\ p.rows = page.rows /\ p.shown = page.shown /\ p.run = page.run
           /\ \A n \in DOMAIN p.chat : FiledIn(n, p.chat[n], call')
    BY <1>0, <1>2, <1>3, <2>1, ToldIs
  <2>3. CASE page' = Told /\ UNCHANGED loads
    <3>1. ListingOK' BY <1>1, <1>3, ListingKept
    <3>2. PagePart' BY <1>2, <1>3, <1>4, <2>2, <2>3, <3>1, OldPage, PageKeeps
    <3> QED BY <1>2, <1>3, <3>2, Together
  <2>4. CASE \E p \in ToldErrors \cup {page} : Over(p)
    <3>1. PICK p \in ToldErrors \cup {page} : Over(p) BY <2>4
    <3>2. /\ p \in PageType /\ p.rows = page.rows /\ p.shown = page.shown /\ p.run = page.run
          /\ \A n \in DOMAIN p.chat : FiledIn(n, p.chat[n], call')
      BY <1>2, <1>3, <2>2, OldPage
    <3>3. PagePart' BY <1>1, <1>2, <1>3, <3>1, <3>2, OverKeeps
    <3> QED BY <1>2, <1>3, <3>3, Together
  <2> QED BY <1>6, <2>3, <2>4 DEF Hears, Breaks, Cancel, Noticed
<1> QED BY <1>5, <1>6

\* The answers to the buttons' requests.
LEMMA ButtonsKeep ==
  ASSUME PageInv, PageAssumption, Created \/ Deleted \/ \E b \in {NewButton, DeleteButton} : ButtonFails(b)
  PROVE  PageInv'
<1>0. /\ NewButton \in Calls /\ DeleteButton \in Calls
      /\ NewButton \notin Asks /\ DeleteButton \notin Asks
  BY PageAssumption DEF PageAssumption
<1>1. UNCHANGED <<reports, born>> /\ UNCHANGED listing
  BY DEF Created, Deleted, ButtonFails, Forget
<1>2. CallsOK' /\ Kept
  <2>1. CASE Created BY <1>0, <1>1, <2>1, IdleOK DEF Created, Forget
  <2>2. CASE Deleted BY <1>0, <1>1, <2>2, IdleOK DEF Deleted, Forget
  <2>3. CASE \E b \in {NewButton, DeleteButton} : ButtonFails(b)
    BY <1>0, <1>1, <2>3, IdleOK DEF ButtonFails
  <2> QED BY <2>1, <2>2, <2>3
<1>3. StoreOK' /\ StoreFiled' /\ BelongInv' /\ Mono BY <1>1, <1>2, StoreStays
<1>4. /\ page \in PageType
      /\ \A i \in DOMAIN page.rows : KnownIn(page.rows[i].id, page.rows[i].birth, reports', born')
      /\ \A n \in DOMAIN page.chat : FiledIn(n, page.chat[n], call')
  BY <1>2, <1>3, OldPage
<1>5. CASE Created
  <2> DEFINE c == call[NewButton]
             row == [id |-> c.id, birth |-> c.of]
             rest == Others(c.id)
             rows == <<row>> \o rest
             p == [page EXCEPT !.rows = rows, !.selected = c.id]
  <2>1. c \in CallType /\ c.at = "ok" BY <1>0, <1>5 DEF Created, PageInv, TypeInv, CallOK
  <2>2. row \in RowType /\ row.id = c.id /\ row.birth = c.of /\ c.id \in Nat BY <2>1 DEF CallType, RowType
  <2>3. KnownIn(row.id, row.birth, reports', born')
    <3>1. Known(c.id, c.of) BY <2>1 DEF PageInv, CallKnown
    <3> QED BY <2>2, <3>1, <1>3 DEF Mono
  <2>4. rest \in Seq(RowType) /\ \A i \in DOMAIN rest : \E j \in DOMAIN page.rows : rest[i] = page.rows[j]
    BY <1>4, OthersAre
  <2>5. Commit(p) BY <1>5 DEF Created
  <2> HIDE DEF row, rest
  <2>6. rows \in Seq(RowType) /\ \A i \in DOMAIN rows : rows[i] = row \/ \E k \in DOMAIN rest : rows[i] = rest[k]
    BY <2>2, <2>4
  <2> HIDE DEF rows
  <2>7. \A i \in DOMAIN rows : KnownIn(rows[i].id, rows[i].birth, reports', born')
    BY <2>3, <2>4, <2>6, <1>4
  <2>8. p \in PageType /\ p.rows = rows /\ p.chat = page.chat /\ p.run = page.run
    BY <2>2, <2>6, <1>4 DEF PageType
  <2> HIDE DEF p
  <2>9. PagePart' BY <1>1, <1>2, <1>3, <1>4, <2>5, <2>7, <2>8, CommitKeeps
  <2> QED BY <1>2, <1>3, <2>9, Together
<1>6. CASE Deleted
  <2> DEFINE n == call[DeleteButton].id
             rest == Others(n)
             f == Without(page.chat, n)
             after == AfterDelete(n)
             p == [page EXCEPT !.rows = rest, !.selected = after, !.chat = f]
  <2>1. rest \in Seq(RowType) /\ \A i \in DOMAIN rest : \E j \in DOMAIN page.rows : rest[i] = page.rows[j]
    BY <1>4, OthersAre
  <2>2. \A i \in DOMAIN rest : KnownIn(rest[i].id, rest[i].birth, reports', born') BY <2>1, <1>4
  <2>3. f \in UNION {[E -> Seq(Messages)] : E \in SUBSET Nat} /\ \A k \in DOMAIN f : FiledIn(k, f[k], call')
    <3>1. PICK D \in SUBSET Nat : page.chat \in [D -> Seq(Messages)] BY <1>4 DEF PageType
    <3>2. f \in [D \ {n} -> Seq(Messages)] BY <3>1 DEF Without
    <3>3. f \in UNION {[E -> Seq(Messages)] : E \in SUBSET Nat} BY <3>2
    <3>4. \A k \in DOMAIN f : FiledIn(k, f[k], call') BY <1>4 DEF Without
    <3> QED BY <3>3, <3>4
  <2>4. after \in Nat
    <3>1. page.selected \in Nat BY <1>4 DEF PageType
    <3>2. CASE page.selected # n BY <3>1, <3>2 DEF AfterDelete
    <3>3. CASE page.selected = n /\ (rest = <<>> \/ n \notin Ids(page)) BY <3>3 DEF AfterDelete
    <3>4. CASE page.selected = n /\ ~(rest = <<>> \/ n \notin Ids(page))
      <4> DEFINE i == PlaceOf(n)
                 j == IF i <= Len(rest) THEN i ELSE Len(rest)
      <4>1. after = rest[j].id BY <3>4 DEF AfterDelete
      <4>2. i \in DOMAIN page.rows
        <5>1. \E k \in DOMAIN page.rows : page.rows[k].id = n BY <3>4 DEF Ids
        <5> QED BY <5>1 DEF PlaceOf
      <4>3. page.rows \in Seq(RowType) BY <1>4 DEF PageType
      <4> HIDE DEF i, rest, after
      <4>4. i \in Nat \ {0} BY <4>2, <4>3
      <4>5. rest # <<>> /\ Len(rest) \in Nat \ {0} BY <3>4, <2>1
      <4>6. j \in 1 .. Len(rest) BY <4>4, <4>5
      <4>7. rest[j] \in RowType BY <4>6, <2>1
      <4> QED BY <4>1, <4>7 DEF RowType
    <3> QED BY <3>2, <3>3, <3>4
  <2>5. Commit(p) BY <1>6 DEF Deleted
  <2> HIDE DEF rest, f, after
  <2>6. p \in PageType /\ p.rows = rest /\ p.chat = f /\ p.run = page.run
    BY <2>1, <2>3, <2>4, <1>4 DEF PageType
  <2> HIDE DEF p
  <2>7. PagePart' BY <1>1, <1>2, <1>3, <2>2, <2>3, <2>5, <2>6, CommitKeeps
  <2> QED BY <1>2, <1>3, <2>7, Together
<1>7. CASE \E b \in {NewButton, DeleteButton} : ButtonFails(b)
  <2>1. UNCHANGED <<page, listing, loads>> BY <1>7 DEF ButtonFails
  <2>2. PagePart' BY <1>2, <1>3, <1>4, <2>1, PageOnly DEF Same
  <2> QED BY <1>2, <1>3, <2>2, Together
<1> QED BY <1>5, <1>6, <1>7

LEMMA NextKeeps ==
  ASSUME PageInv, PageAssumption, [Next]_vars
  PROVE  PageInv'
<1>1. CASE Next
  <2>1. CASE \E c \in Calls : ServerMoves(c) BY <2>1, ServerKeeps
  <2>2. CASE \E c \in Clients : ClientSends(c) \/ ClientDone(c) BY <2>2, ClientKeeps
  <2>3. CASE ListReads BY <2>3, ListReadsKeeps
  <2>4. CASE ListLands \/ ListFails \/ RetryList \/ \E i \in DOMAIN page.rows : Select(i) BY <2>4, ListKeeps
  <2>5. CASE \E l \in loads : LoadFinds(l) \/ LoadReads(l) \/ LoadLands(l) \/ LoadFails(l)
    BY <2>5, LoadKeeps
  <2>6. CASE RetryLoad \/ \E q \in Asks : Hears(q) \/ Breaks(q) \/ Cancel(q) BY <2>6, HearKeeps
  <2>7. CASE \E q \in Asks : Ask(q) BY <2>7, AskKeeps
  <2>8. CASE Create \/ Delete BY <2>8, ButtonsSend
  <2>9. CASE Created \/ Deleted \/ \E b \in {NewButton, DeleteButton} : ButtonFails(b) BY <2>9, ButtonsKeep
  <2> QED BY <1>1, <2>1, <2>2, <2>3, <2>4, <2>5, <2>6, <2>7, <2>8, <2>9 DEF Next
<1>2. CASE UNCHANGED vars
  <2>1. UNCHANGED <<reports, born, call>> /\ UNCHANGED <<page, listing, loads>>
    BY <1>2 DEF vars, storeVars, pageVars
  <2>2. CallsOK' /\ Kept BY <2>1, CallsStay
  <2> QED BY <2>1, <2>2, SendKeeps
<1> QED BY <1>1, <1>2

LEMMA InitInv ==
  ASSUME Init, PageAssumption, StoreAssumption
  PROVE  PageInv
<1>1. PICK s \in Scopes : reports = <<Dossier(1, s), Dossier(2, "none")>> BY DEF Init
<1>2. /\ DOMAIN reports = {1, 2} /\ reports[1] = Dossier(1, s) /\ reports[2] = Dossier(2, "none")
  BY <1>1
<1>3. \A b \in Nat, t \in Scopes : /\ Dossier(b, t) \in ReportType /\ Dossier(b, t).birth = b
                                   /\ Dossier(b, t).chat = <<>>
  BY DEF Dossier, ReportType
<1>4. "none" \in Scopes BY DEF Scopes
<1>5. /\ reports[1] \in ReportType /\ reports[1].birth = 1 /\ reports[1].chat = <<>>
      /\ reports[2] \in ReportType /\ reports[2].birth = 2 /\ reports[2].chat = <<>>
  <2>1. Dossier(1, s) \in ReportType /\ Dossier(1, s).birth = 1 /\ Dossier(1, s).chat = <<>>
    BY <1>3
  <2>2. Dossier(2, "none") \in ReportType /\ Dossier(2, "none").birth = 2 /\ Dossier(2, "none").chat = <<>>
    BY <1>3, <1>4
  <2> QED BY <1>2, <2>1, <2>2
<1>6. StoreOK
  <2>1. born = 2 BY DEF Init
  <2>2. reports \in [{1, 2} -> ReportType] BY <1>1, <1>2, <1>5
  <2>3. reports \in UNION {[D -> ReportType] : D \in SUBSET Nat} BY <2>2
  <2>4. \A n \in DOMAIN reports : reports[n].birth = n /\ n \in 1 .. 2 BY <1>2, <1>5
  <2> QED BY <2>1, <2>3, <2>4 DEF StoreOK
<1>7. CallOK
  <2>1. Idle \in CallType /\ Idle.at = "idle" /\ Idle.op = "none"
    BY DEF Idle, CallType, Ops, Steps, AskSteps
  <2>2. call = [c \in Calls |-> Idle] BY DEF Init
  <2>3. NewButton \in Calls /\ Asks \subseteq Calls BY PageAssumption DEF PageAssumption
  <2> HIDE DEF Idle
  <2>4. call \in [Calls -> CallType] /\ \A c \in Calls : call[c].at = "idle" /\ call[c].op = "none"
    BY <2>1, <2>2
  <2> QED BY <2>3, <2>4 DEF CallOK, AskSteps, EditSteps, NewSteps
<1>8. CallKnown
  <2>1. NewButton \in Calls /\ Asks \subseteq Calls BY PageAssumption DEF PageAssumption
  <2>2. \A c \in Calls : call[c].id = 0 /\ call[c].of = 0 /\ call[c].at = "idle" BY DEF Init, Idle
  <2>3. Known(0, 0) BY <1>2, <1>5, <1>6 DEF Known, KnownIn, StoreOK
  <2> QED BY <2>1, <2>2, <2>3 DEF CallKnown
<1>9. StoreFiled /\ BelongInv BY <1>2, <1>5 DEF StoreFiled, Filed, FiledIn, BelongInv, Belongs
<1>10. loads = {} /\ NoCall \notin Asks
  BY PageAssumption, StoreAssumption DEF Init, PageAssumption, StoreAssumption
<1>11. /\ NewPage \in PageType /\ NewPage.rows = <<>> /\ NewPage.shown = NoRow
       /\ NewPage.chat = <<>> /\ NewPage.run = NoRun
  <2>1. <<>> \in UNION {[D -> Seq(Messages)] : D \in SUBSET Nat}
    <3>1. <<>> \in [{} -> Seq(Messages)] OBVIOUS
    <3> QED BY <3>1
  <2> DEFINE e == <<>>
  <2>2. e \in Seq(RowType) OBVIOUS
  <2>3. NoRow \in RowType /\ NoRun \in [ask : Calls \cup {NoCall}, id : Nat] BY DEF NoRow, RowType, NoRun
  <2> QED BY <2>1, <2>2, <2>3 DEF NewPage, PageType
<1>12. Known(0, 0) BY <1>2, <1>5, <1>6 DEF Known, KnownIn, StoreOK
<1>13. CASE page = NewPage /\ listing = Waiting
  <2>1. PageOK
    <3>1. Waiting \in [at : {"none", "server", "back"}, rows : Seq(RowType)] BY DEF Waiting
    <3> QED BY <1>10, <1>11, <1>13, <3>1 DEF PageOK
  <2>2. PageKnown
    <3>1. listing.rows = <<>> BY <1>13 DEF Waiting
    <3> QED BY <1>11, <1>12, <1>13, <3>1 DEF PageKnown, NoRow
  <2>3. PageFiled BY <1>10, <1>11, <1>13 DEF PageFiled, NoRun
  <2> QED BY <1>6, <1>7, <1>8, <1>9, <2>1, <2>2, <2>3 DEF PageInv, TypeInv
<1>14. CASE page = OpenPage /\ listing = NotAsked
  <2> DEFINE r == <<Row(2), Row(1)>>
             f == [x \in {2} |-> <<>>]
  <2>1. Row(1) = [id |-> 1, birth |-> 1] /\ Row(2) = [id |-> 2, birth |-> 2] BY <1>5 DEF Row
  <2>2. r \in Seq(RowType) /\ Row(2) \in RowType BY <2>1 DEF RowType
  <2>3. f \in UNION {[D -> Seq(Messages)] : D \in SUBSET Nat}
    <3> DEFINE e == <<>>
    <3>2. e \in Seq(Messages) /\ f = [x \in {2} |-> e] OBVIOUS
    <3> HIDE DEF e
    <3>1. f \in [{2} -> Seq(Messages)] BY <3>2
    <3> HIDE DEF f
    <3>3. {2} \in SUBSET Nat OBVIOUS
    <3> QED BY <3>1, <3>3
  <2>4. OpenPage = [NewPage EXCEPT !.rows = r, !.selected = 2, !.shown = Row(2), !.chat = f]
    BY DEF OpenPage
  <2>5. \A i \in DOMAIN r : r[i] = Row(1) \/ r[i] = Row(2) OBVIOUS
  <2>6. DOMAIN f = {2} /\ f[2] = <<>> OBVIOUS
  <2> HIDE DEF r, f
  <2>7. /\ page \in PageType /\ page.rows = r /\ page.shown = Row(2) /\ page.chat = f
        /\ page.run = NoRun
    BY <1>11, <1>14, <2>2, <2>3, <2>4 DEF PageType
  <2>8. Known(1, 1) /\ Known(2, 2) BY <1>2, <1>5, <1>6 DEF Known, KnownIn, StoreOK, Init
  <2>9. PageOK
    <3>1. NotAsked \in [at : {"none", "server", "back"}, rows : Seq(RowType)] BY DEF NotAsked
    <3> QED BY <1>10, <1>14, <2>7, <3>1 DEF PageOK
  <2>10. PageKnown
    <3>1. listing.rows = <<>> BY <1>14 DEF NotAsked
    <3>2. Row(1).id = 1 /\ Row(1).birth = 1 /\ Row(2).id = 2 /\ Row(2).birth = 2 BY <2>1
    <3> QED BY <2>5, <2>7, <2>8, <3>1, <3>2 DEF PageKnown
  <2>11. PageFiled BY <1>10, <2>6, <2>7 DEF PageFiled, NoRun, Filed, FiledIn
  <2> QED BY <1>6, <1>7, <1>8, <1>9, <2>9, <2>10, <2>11 DEF PageInv, TypeInv
<1> QED BY <1>13, <1>14 DEF Init

-------------------------------------------------------------------------------
(* The theorems *)

\* A dossier and its number: see PageInv.
THEOREM PageInvariant == Spec => []PageInv
<1>1. Init => PageInv BY InitInv, PageAssumption, StoreAssumption
<1>2. PageInv /\ [Next]_vars => PageInv' BY NextKeeps, PageAssumption
<1> QED BY <1>1, <1>2, PTL DEF Spec

\* What an analysis stores and shows stays in the dossier it was asked for.
THEOREM AnswerAlwaysStays == Spec => []AnswerStaysInDossier
<1>1. PageInv => AnswerStaysInDossier
  <2>1. SUFFICES ASSUME PageInv PROVE AnswerStaysInDossier OBVIOUS
  <2>2. \A n \in DOMAIN reports : \A i \in DOMAIN reports[n].chat :
          LET q == reports[n].chat[i].ask IN
          q \in Asks => call[q].of = reports[n].birth \/ call[q].of \notin Births
    BY <2>1 DEF PageInv, BelongInv, Belongs
  <2>3. \A n \in DOMAIN page.chat : \A i \in DOMAIN page.chat[n] :
          LET q == page.chat[n][i].ask IN q \in Asks => call[q].id = n
    BY <2>1 DEF PageInv, PageFiled, Filed, FiledIn
  <2> QED BY <2>2, <2>3 DEF AnswerStaysInDossier
<1> QED BY <1>1, PageInvariant, PTL

\* Only a handler writes dossiers.
LEMMA OnlyHandlersWrite ==
  ASSUME PageInv, PageAssumption, [Next]_vars
  PROVE  reports' = reports \/ \E c \in Calls : ServerStep(c) /\ Effect(c)
<1>1. CASE \E c \in Calls : ServerMoves(c)
  <2>1. PICK c \in Calls : ServerStep(c) BY <1>1 DEF ServerMoves
  <2>2. Effect(c) BY <2>1, StepIsHandled DEF Handled, PageInv
  <2> QED BY <2>1, <2>2
<1>2. CASE ~ \E c \in Calls : ServerMoves(c)
  BY <1>2 DEF Next, vars, storeVars, ClientSends, ClientDone, Forget, Send, ListReads, ListLands, ListFails,
              RetryList, LoadFinds, LoadReads, LoadLands, LoadFails, RetryLoad, Ask, Hears, Breaks,
              Cancel, Select, Create, Created, Delete, Deleted, ButtonFails
<1> QED BY <1>1, <1>2

\* A deletion and a change of the fields are done once they have written, or have failed.
LEMMA WritesOnce ==
  ASSUME TypeInv, NEW c \in Calls, ServerStep(c), call[c].at \in {"erase", "patch"}
  PROVE  call'[c].at \notin {"erase", "patch"}
<1>1. call \in [Calls -> CallType] BY DEF TypeInv, CallOK
<1>2. \E at \in {"ok", "over", "failed", "answer", "append"} : To(c, at)
  BY DEF ServerStep, HandlerStep, Alloc, Insert, LookUp, FindScope, Patch, SaveMessage, FindVictim, Erase,
         FindReport, StoreQuestion, ModelReturns, StoreOutcome, Raises, Cancelled
<1>3. PICK at \in {"ok", "over", "failed", "answer", "append"} : To(c, at) BY <1>2
<1>4. at \in Steps /\ at \notin {"erase", "patch"} BY DEF Steps, AskSteps, EditSteps
<1> QED BY <1>3, <1>4, MovesTo

\* A dossier leaves the store only when a client deletes it.
THEOREM DeletedOnly == Spec => GoneOnlyByDelete
<1> DEFINE Step == \A n \in DOMAIN reports :
                     \/ n \in DOMAIN reports' /\ reports'[n].birth = reports[n].birth
                     \/ \E c \in Calls : call[c].at = "erase" /\ call[c].id = n /\ call'[c].at # "erase"
<1>1. PageInv /\ [Next]_vars => Step
  <2>1. SUFFICES ASSUME PageInv, [Next]_vars, NEW n \in DOMAIN reports
                 PROVE  \/ n \in DOMAIN reports' /\ reports'[n].birth = reports[n].birth
                        \/ \E c \in Calls : call[c].at = "erase" /\ call[c].id = n /\ call'[c].at # "erase"
    OBVIOUS
  <2>2. CASE reports' = reports BY <2>2
  <2>3. ASSUME NEW c \in Calls, ServerStep(c), Effect(c)
        PROVE  \/ n \in DOMAIN reports' /\ reports'[n].birth = reports[n].birth
               \/ call[c].at = "erase" /\ call[c].id = n /\ call'[c].at # "erase"
    <3>1. CASE reports' = reports BY <3>1
    <3>2. CASE call[c].id \notin DOMAIN reports /\ reports' = Put(reports, call[c].id, NewReport(c))
      BY <3>2 DEF Put
    <3>3. CASE call[c].at = "erase" /\ reports' = Without(reports, call[c].id)
      <4>1. call'[c].at # "erase" BY <2>1, <2>3, <3>3, WritesOnce DEF PageInv
      <4> QED BY <3>3, <4>1 DEF Without
    <3>4. CASE \E s : Changed(reports[call[c].id], s, c) /\ reports' = Put(reports, call[c].id, s)
      BY <3>4 DEF Put, Changed
    <3> QED BY <2>3, <3>1, <3>2, <3>3, <3>4 DEF Effect
  <2> QED BY <2>1, <2>2, <2>3, OnlyHandlersWrite, PageAssumption
<1>2. PageInv /\ [Next]_vars => [Step]_vars BY <1>1
<1> QED BY <1>2, PageInvariant, PTL DEF Spec, GoneOnlyByDelete

\* What a client has published stays published until a client withdraws it.
THEOREM PublishedForever == Spec => PublishedStays
<1> DEFINE Step ==
             \A n \in DOMAIN reports \cap DOMAIN reports' :
               reports[n].published /\ reports'[n].birth = reports[n].birth
                 => \/ reports'[n].published
                    \/ \E c \in Calls : /\ call[c].op = "withdraw" /\ call[c].id = n
                                        /\ call[c].at = "patch" /\ call'[c].at # "patch"
<1>1. PageInv /\ [Next]_vars => Step
  <2>1. SUFFICES ASSUME PageInv, [Next]_vars, NEW n \in DOMAIN reports \cap DOMAIN reports',
                        reports[n].published, reports'[n].birth = reports[n].birth
                 PROVE  \/ reports'[n].published
                        \/ \E c \in Calls : /\ call[c].op = "withdraw" /\ call[c].id = n
                                            /\ call[c].at = "patch" /\ call'[c].at # "patch"
    OBVIOUS
  <2>2. CASE reports' = reports BY <2>1, <2>2
  <2>3. ASSUME NEW c \in Calls, ServerStep(c), Effect(c)
        PROVE  \/ reports'[n].published
               \/ /\ call[c].op = "withdraw" /\ call[c].id = n
                  /\ call[c].at = "patch" /\ call'[c].at # "patch"
    <3>1. CASE reports' = reports BY <2>1, <3>1
    <3>2. CASE call[c].id \notin DOMAIN reports /\ reports' = Put(reports, call[c].id, NewReport(c))
      BY <2>1, <3>2 DEF Put
    <3>3. CASE reports' = Without(reports, call[c].id) BY <2>1, <3>3 DEF Without
    <3>4. CASE \E s : Changed(reports[call[c].id], s, c) /\ reports' = Put(reports, call[c].id, s)
      <4>1. PICK s : Changed(reports[call[c].id], s, c) /\ reports' = Put(reports, call[c].id, s)
        BY <3>4
      <4>2. CASE n # call[c].id BY <2>1, <4>1, <4>2 DEF Put
      <4>3. CASE n = call[c].id /\ s.published BY <4>1, <4>3 DEF Put
      <4>4. CASE n = call[c].id /\ ~s.published
        <5>1. call[c].op = "withdraw" /\ call[c].at = "patch" BY <2>1, <4>1, <4>4 DEF Changed
        <5>2. call'[c].at # "patch" BY <2>1, <2>3, <5>1, WritesOnce DEF PageInv
        <5> QED BY <4>4, <5>1, <5>2
      <4> QED BY <4>2, <4>3, <4>4
    <3> QED BY <2>3, <3>1, <3>2, <3>3, <3>4 DEF Effect
  <2> QED BY <2>1, <2>2, <2>3, OnlyHandlersWrite, PageAssumption
<1>2. PageInv /\ [Next]_vars => [Step]_vars BY <1>1
<1> QED BY <1>2, PageInvariant, PTL DEF Spec, PublishedStays

-------------------------------------------------------------------------------
(* A load never goes back *)

\* A dossier's chat is not shorter than a load has brought it.
SeenOK ==
  \A n \in DOMAIN seen :
    /\ seen[n].birth \in 0 .. born /\ seen[n].count \in Nat
    /\ seen[n].birth = 0 => seen[n].count = 0
    /\ n \in DOMAIN reports /\ reports[n].birth = seen[n].birth
         => seen[n].count <= Len(reports[n].chat)

\* What the newest load brings lies between what was brought last and what is stored.
LoadOK(l) ==
  /\ l.birth \in 0 .. born
  /\ l.birth = 0 => l.chat = <<>>
  /\ l.at # "back" => l.birth = 0
  /\ l.id \in DOMAIN reports /\ reports[l.id].birth = l.birth
       => Len(l.chat) <= Len(reports[l.id].chat)
  /\ l.at = "back" /\ l.id \in DOMAIN seen /\ seen[l.id].birth = l.birth
       => seen[l.id].count <= Len(l.chat)

LoadsOK ==
  /\ \A k, l \in loads : k.newest /\ l.newest => k = l
  /\ \A l \in loads : l.newest => LoadOK(l)

LoadInv == SeenOK /\ LoadsOK

LEMMA ChatsGrow ==
  ASSUME TypeInv, NEW c \in Calls, Effect(c)
  PROVE  /\ born' \in {born, born + 1}
         /\ \A m \in DOMAIN reports' :
              \/ m \in DOMAIN reports /\ reports'[m].birth = reports[m].birth
                 /\ Len(reports'[m].chat) >= Len(reports[m].chat)
              \/ reports'[m].birth = born + 1
<1> DEFINE n == call[c].id
<1>0. /\ born' \in {born, born + 1}
      /\ \A m \in DOMAIN reports : reports[m] \in ReportType
      /\ Message(c) \in Messages
  BY EffectKeeps, MessageOK DEF TypeInv, StoreOK
<1>1. \A m \in DOMAIN reports : reports[m].chat \in Seq(Messages) BY <1>0 DEF ReportType
<1>2. CASE UNCHANGED <<reports, born>> BY <1>0, <1>1, <1>2
<1>3. CASE n \notin DOMAIN reports /\ reports' = Put(reports, n, NewReport(c))
  BY <1>0, <1>1, <1>3 DEF Put, NewReport
<1>4. CASE reports' = Without(reports, n) BY <1>0, <1>1, <1>4 DEF Without
<1>5. CASE n \in DOMAIN reports /\ \E s : Changed(reports[n], s, c) /\ reports' = Put(reports, n, s)
  <2>1. PICK s : Changed(reports[n], s, c) /\ reports' = Put(reports, n, s) BY <1>5
  <2>2. /\ DOMAIN reports' = DOMAIN reports /\ reports'[n] = s
        /\ \A m \in DOMAIN reports : m # n => reports'[m] = reports[m]
    BY <1>5, <2>1 DEF Put
  <2>3. s.birth = reports[n].birth /\ Len(s.chat) >= Len(reports[n].chat)
    <3>1. CASE s.chat = reports[n].chat BY <1>1, <1>5, <2>1, <3>1 DEF Changed
    <3>2. CASE s.chat = Append(reports[n].chat, Message(c))
      <4>1. Len(s.chat) = Len(reports[n].chat) + 1 BY <1>0, <1>1, <1>5, <3>2
      <4> QED BY <1>1, <1>5, <2>1, <4>1, SMTT(30) DEF Changed
    <3> QED BY <2>1, <3>1, <3>2 DEF Changed
  <2> QED BY <1>0, <1>1, <2>2, <2>3
<1> QED BY <1>2, <1>3, <1>4, <1>5 DEF Effect

LEMMA WrittenKeeps ==
  ASSUME TypeInv, LoadInv, NEW c \in Calls, Effect(c), UNCHANGED <<seen, loads>>
  PROVE  LoadInv'
<1>0. /\ born \in Nat /\ born' \in {born, born + 1}
      /\ \A m \in DOMAIN reports : reports[m].chat \in Seq(Messages)
      /\ \A m \in DOMAIN reports' :
           \/ m \in DOMAIN reports /\ reports'[m].birth = reports[m].birth
              /\ Len(reports'[m].chat) >= Len(reports[m].chat)
           \/ reports'[m].birth = born + 1
  BY ChatsGrow DEF TypeInv, StoreOK, ReportType
<1>1. \A m \in DOMAIN reports' : reports'[m].chat \in Seq(Messages)
  BY EffectKeeps DEF StoreOK, ReportType
<1>2. SeenOK' BY <1>0, <1>1 DEF LoadInv, SeenOK
<1>3. \A l \in loads : l.chat \in Seq(Messages) BY DEF TypeInv, PageOK, LoadType
<1>4. ASSUME NEW l \in loads, LoadOK(l) PROVE LoadOK(l)'
  <2>1. l.id \in DOMAIN reports' /\ reports'[l.id].birth = l.birth
          => Len(l.chat) <= Len(reports'[l.id].chat)
    BY <1>0, <1>1, <1>3, <1>4 DEF LoadOK
  <2> QED BY <1>0, <1>4, <2>1 DEF LoadOK
<1>5. LoadsOK' BY <1>4 DEF LoadInv, LoadsOK
<1> QED BY <1>2, <1>5 DEF LoadInv

LEMMA StartedKeeps ==
  ASSUME TypeInv, LoadInv, NEW p, NEW n, StartLoad(p, n), UNCHANGED <<reports, born, seen>>
  PROVE  LoadInv'
<1> DEFINE new == [id |-> n, at |-> "get", newest |-> TRUE, birth |-> 0, chat |-> <<>>]
<1>1. \A l \in loads' : l.newest => l = new BY DEF StartLoad, TypeInv, PageOK, LoadType
<1>2. LoadOK(new)'
  <2>1. born \in Nat /\ \A m \in DOMAIN reports : reports[m].birth \in 1 .. born
    BY DEF TypeInv, StoreOK
  <2> QED BY <2>1 DEF LoadOK
<1>3. LoadsOK' BY <1>1, <1>2 DEF LoadsOK
<1>4. SeenOK' BY DEF LoadInv, SeenOK
<1> QED BY <1>3, <1>4 DEF LoadInv

LEMMA SameKeeps ==
  ASSUME LoadInv, UNCHANGED <<reports, born, seen, loads>>
  PROVE  LoadInv'
BY DEF LoadInv, SeenOK, LoadsOK, LoadOK

\* A load that goes a step on.
LEMMA MovedKeeps ==
  ASSUME LoadInv, UNCHANGED <<reports, born, seen>>,
         NEW l \in loads, NEW k, k.newest = l.newest, k.newest => LoadOK(k), Moved(l, {k})
  PROVE  LoadInv'
<1>1. \A x \in loads' : x = k \/ (x \in loads /\ x # l) BY DEF Moved
<1>2. \A x \in loads' : x.newest => LoadOK(x)' BY <1>1 DEF LoadInv, LoadsOK, LoadOK
<1>3. LoadsOK' BY <1>1, <1>2 DEF LoadInv, LoadsOK
<1>4. SeenOK' BY DEF LoadInv, SeenOK
<1> QED BY <1>3, <1>4 DEF LoadInv

LEMMA LoadsKeep ==
  ASSUME TypeInv, LoadInv, NEW l \in loads, LoadFinds(l) \/ LoadReads(l) \/ LoadLands(l) \/ LoadFails(l)
  PROVE  LoadInv'
<1>0. l \in LoadType /\ born \in Nat BY DEF TypeInv, PageOK, StoreOK
<1>1. CASE LoadFinds(l)
  <2> DEFINE at == IF l.id \in DOMAIN reports THEN "list" ELSE "missing"
             k == [l EXCEPT !.at = at]
  <2>1. /\ k.newest = l.newest /\ k.id = l.id /\ k.birth = l.birth /\ k.chat = l.chat
        /\ k.at = at /\ at # "back" /\ l.at # "back"
    BY <1>0, <1>1 DEF LoadType, LoadFinds
  <2>2. Moved(l, {k}) /\ UNCHANGED <<reports, born, seen>> BY <1>1 DEF LoadFinds, storeVars
  <2> HIDE DEF k, at
  <2>3. k.newest => LoadOK(k) BY <2>1 DEF LoadInv, LoadsOK, LoadOK
  <2> QED BY <2>1, <2>2, <2>3, MovedKeeps
<1>2. CASE LoadReads(l)
  <2> DEFINE k == IF l.id \in DOMAIN reports
                  THEN [l EXCEPT !.at = "back", !.birth = reports[l.id].birth,
                                 !.chat = reports[l.id].chat]
                  ELSE [l EXCEPT !.at = "back"]
  <2>1. /\ k.newest = l.newest /\ k.id = l.id /\ k.at = "back" /\ l.at = "list"
        /\ l.id \in DOMAIN reports => k.birth = reports[l.id].birth /\ k.chat = reports[l.id].chat
        /\ l.id \notin DOMAIN reports => k.birth = l.birth /\ k.chat = l.chat
    BY <1>0, <1>2 DEF LoadType, LoadReads
  <2>2. Moved(l, {k}) /\ UNCHANGED <<reports, born, seen>> BY <1>2 DEF LoadReads, storeVars
  <2> HIDE DEF k
  <2>3. ASSUME k.newest PROVE LoadOK(k)
    <3>1. LoadOK(l) /\ l.birth = 0 /\ l.chat = <<>> BY <2>1, <2>3 DEF LoadInv, LoadsOK, LoadOK
    <3>2. CASE l.id \in DOMAIN reports
      <4>1. reports[l.id].birth \in 1 .. born /\ reports[l.id].chat \in Seq(Messages)
        BY <3>2 DEF TypeInv, StoreOK, ReportType
      <4> QED BY <2>1, <3>2, <4>1 DEF LoadOK, LoadInv, SeenOK
    <3>3. CASE l.id \notin DOMAIN reports
      BY <2>1, <3>1, <3>3, <1>0 DEF LoadOK, LoadInv, SeenOK
    <3> QED BY <3>2, <3>3
  <2> QED BY <2>1, <2>2, <2>3, MovedKeeps
<1>3. CASE LoadLands(l)
  <2>1. loads' = loads \ {l} /\ UNCHANGED <<reports, born>> BY <1>3 DEF LoadLands, Moved, storeVars
  <2>2. CASE UNCHANGED seen BY <2>1, <2>2 DEF LoadInv, SeenOK, LoadsOK, LoadOK
  <2>3. CASE /\ Newest(l) /\ l.at = "back"
             /\ seen' = Put(seen, l.id, [birth |-> l.birth, count |-> Len(l.chat)])
    <3>1. LoadOK(l) BY <2>3 DEF LoadInv, LoadsOK, Newest
    <3>2. \A x \in loads' : ~x.newest
      <4>1. l.newest BY <2>3 DEF Newest
      <4> QED BY <2>1, <4>1 DEF LoadInv, LoadsOK, TypeInv, PageOK, LoadType
    <3>3. l.chat \in Seq(Messages) BY <1>0 DEF LoadType
    <3>4. /\ DOMAIN seen' = DOMAIN seen \cup {l.id}
          /\ seen'[l.id].birth = l.birth /\ seen'[l.id].count = Len(l.chat)
          /\ \A n \in DOMAIN seen : n # l.id => seen'[n] = seen[n]
      BY <2>3 DEF Put
    <3>5. SeenOK' BY <2>1, <3>1, <3>3, <3>4 DEF LoadInv, SeenOK, LoadOK
    <3>6. LoadsOK' BY <3>2 DEF LoadsOK
    <3> QED BY <3>5, <3>6 DEF LoadInv
  <2> QED BY <1>3, <2>2, <2>3 DEF LoadLands
<1>4. CASE LoadFails(l)
  <2> DEFINE k == [l EXCEPT !.at = "missing"]
  <2>1. /\ k.newest = l.newest /\ k.id = l.id /\ k.birth = l.birth /\ k.chat = l.chat
        /\ k.at = "missing" /\ l.at # "back"
    BY <1>0, <1>4 DEF LoadType, LoadFails
  <2>2. Moved(l, {k}) /\ UNCHANGED <<reports, born, seen>> BY <1>4 DEF LoadFails
  <2> HIDE DEF k
  <2>3. k.newest => LoadOK(k) BY <2>1 DEF LoadInv, LoadsOK, LoadOK
  <2> QED BY <2>1, <2>2, <2>3, MovedKeeps
<1> QED BY <1>1, <1>2, <1>3, <1>4

\* Every other step leaves the store, what was seen and the loads alone, or starts one.
LEMMA StartsOrStays ==
  ASSUME [Next]_vars, ~ \E c \in Calls : ServerMoves(c),
         ~ \E l \in loads : LoadFinds(l) \/ LoadReads(l) \/ LoadLands(l) \/ LoadFails(l)
  PROVE  UNCHANGED <<reports, born, seen>> /\ (loads' = loads \/ \E p, n : StartLoad(p, n))
<1>1. \A p : Commit(p) => loads' = loads \/ \E q, n : StartLoad(q, n) BY DEF Commit
<1>2. \A p : Over(p) => loads' = loads \/ \E q, n : StartLoad(q, n) BY DEF Over
<1>3. CASE UNCHANGED vars BY <1>3 DEF vars, storeVars, pageVars
<1>4. CASE \E c \in Clients : ClientSends(c) \/ ClientDone(c)
  BY <1>4 DEF ClientSends, ClientDone, Send, Forget, pageVars
<1>5. CASE ListReads \/ ListLands \/ ListFails \/ RetryList
  BY <1>1, <1>5 DEF ListReads, ListLands, ListFails, RetryList, storeVars
<1>6. CASE RetryLoad \/ \E q \in Asks : Ask(q) \/ Hears(q) \/ Breaks(q) \/ Cancel(q)
  BY <1>2, <1>6 DEF RetryLoad, Ask, Hears, Breaks, Cancel, Noticed, Send, storeVars
<1>7. CASE \/ Create \/ Created \/ Delete \/ Deleted
           \/ \E b \in {NewButton, DeleteButton} : ButtonFails(b)
           \/ \E i \in DOMAIN page.rows : Select(i)
  BY <1>1, <1>7 DEF Create, Created, Delete, Deleted, ButtonFails, Select, Send, Forget, storeVars
<1> QED BY <1>3, <1>4, <1>5, <1>6, <1>7 DEF Next

LEMMA NextKeepsLoads ==
  ASSUME PageInv, LoadInv, PageAssumption, [Next]_vars
  PROVE  LoadInv'
<1>0. TypeInv BY DEF PageInv
<1>1. CASE \E c \in Calls : ServerMoves(c)
  <2>1. PICK c \in Calls : ServerStep(c) /\ UNCHANGED pageVars BY <1>1 DEF ServerMoves
  <2>2. Effect(c) BY <1>0, <2>1, StepIsHandled DEF Handled
  <2> QED BY <1>0, <2>1, <2>2, WrittenKeeps DEF pageVars
<1>2. CASE \E l \in loads : LoadFinds(l) \/ LoadReads(l) \/ LoadLands(l) \/ LoadFails(l)
  BY <1>0, <1>2, LoadsKeep
<1>3. CASE ~(\E c \in Calls : ServerMoves(c))
           /\ ~(\E l \in loads : LoadFinds(l) \/ LoadReads(l) \/ LoadLands(l) \/ LoadFails(l))
  BY <1>0, <1>3, StartsOrStays, StartedKeeps, SameKeeps
<1> QED BY <1>1, <1>2, <1>3

\* What the loads bring: see LoadInv.
THEOREM LoadInvariant == Spec => []LoadInv
<1>1. ASSUME Init PROVE LoadInv
  <2>1. loads = {} /\ born = 2 BY <1>1 DEF Init
  <2>2. LoadsOK BY <2>1 DEF LoadsOK
  <2>3. seen = [n \in {2} |-> [birth |-> 2, count |-> 0]] \/ seen = <<>> BY <1>1 DEF Init
  <2>4. \A n \in DOMAIN reports : reports[n].chat \in Seq(Messages)
    BY <1>1, InitInv, PageAssumption, StoreAssumption DEF PageInv, TypeInv, StoreOK, ReportType
  <2>5. SeenOK BY <2>1, <2>3, <2>4 DEF SeenOK
  <2> QED BY <2>2, <2>5 DEF LoadInv
<1>2. PageInv /\ LoadInv /\ [Next]_vars => LoadInv' BY NextKeepsLoads, PageAssumption
<1> QED BY <1>1, <1>2, PageInvariant, PTL DEF Spec

\* A load never takes the chat of a dossier back to an earlier state.
THEOREM NoLoadGoesBack == Spec => LoadsNeverGoBack
<1> DEFINE Step == \A n \in DOMAIN seen :
                     seen'[n].birth = seen[n].birth => seen'[n].count >= seen[n].count
<1>1. PageInv /\ LoadInv /\ [Next]_vars => Step
  <2>1. SUFFICES ASSUME PageInv, LoadInv, [Next]_vars, NEW n \in DOMAIN seen,
                        seen'[n].birth = seen[n].birth
                 PROVE  seen'[n].count >= seen[n].count
    OBVIOUS
  <2>2. seen[n].count \in Nat BY <2>1 DEF LoadInv, SeenOK
  <2>3. CASE seen' = seen BY <2>2, <2>3
  <2>4. CASE \E l \in loads : LoadLands(l) /\ seen' # seen
    <3>1. PICK l \in loads : LoadLands(l) /\ seen' # seen BY <2>4
    <3>2. /\ l.newest /\ l.at = "back"
          /\ seen' = Put(seen, l.id, [birth |-> l.birth, count |-> Len(l.chat)])
      BY <3>1 DEF LoadLands, Newest
    <3>3. LoadOK(l) BY <2>1, <3>2 DEF LoadInv, LoadsOK
    <3>4. l.chat \in Seq(Messages) BY <2>1 DEF PageInv, TypeInv, PageOK, LoadType
    <3>5. CASE n # l.id BY <2>2, <3>2, <3>5 DEF Put
    <3>6. CASE n = l.id
      <4>1. seen'[n].birth = l.birth /\ seen'[n].count = Len(l.chat) BY <3>2, <3>6 DEF Put
      <4> QED BY <2>1, <2>2, <3>2, <3>3, <3>4, <3>6, <4>1 DEF LoadOK
    <3> QED BY <3>5, <3>6
  <2>5. \/ seen' = seen
        \/ \E l \in loads : LoadLands(l)
    <3>1. CASE \E c \in Calls : ServerMoves(c) BY <3>1 DEF ServerMoves, pageVars
    <3>2. CASE \E l \in loads : LoadFinds(l) \/ LoadReads(l) \/ LoadFails(l)
      BY <3>2 DEF LoadFinds, LoadReads, LoadFails
    <3> QED BY <2>1, <3>1, <3>2, StartsOrStays
  <2> QED BY <2>3, <2>4, <2>5
<1>2. PageInv /\ LoadInv /\ [Next]_vars => [Step]_vars BY <1>1
<1> QED BY <1>2, PageInvariant, LoadInvariant, PTL DEF Spec, LoadsNeverGoBack

-------------------------------------------------------------------------------
(* A save or a create fails for a cause *)

Making(c) == call[c].op \in {"save", "create"}

CreateSteps == {"next", "insert", "lookup", "ok", "failed"}
Career(c) ==
  /\ call[c].op = "create" => call[c].at \in CreateSteps
  /\ call[c].op = "save" => call[c].at \in CreateSteps \cup {"find", "winner", "patch", "append"}
  /\ call[c].at \in {"next", "insert", "lookup", "find", "winner"} => Making(c)

\* Each number c was refused is that of a dossier born since c was sent.
Pace(c) ==
  Making(c) =>
    /\ call[c].since + call[c].tries <= born
    /\ call[c].at \in {"insert", "lookup"} /\ Exists(c)
         => call[c].since + call[c].tries + 1 <= born

\* What a call that met no fault and was not robbed finds, and why else it fails.
Cause(c) ==
  c \notin met =>
    /\ call[c].op = "create" /\ call[c].at = "lookup" => Exists(c)
    /\ call[c].op = "save" /\ call[c].at = "lookup" => Exists(c) \/ OfScope # {}
    /\ call[c].op = "save" /\ call[c].at = "winner" => OfScope # {}
    /\ call[c].op = "save" /\ call[c].at \in {"patch", "append"} => Exists(c)
    /\ Making(c) /\ call[c].at = "failed" => call[c].tries >= Attempts

CallGood(c) == Career(c) /\ Pace(c) /\ Cause(c)
CauseInv == \A c \in Calls : CallGood(c)

\* A dossier leaves under the eyes of the calls it is taken from.
LEMMA StoreGrows ==
  ASSUME TypeInv, PageAssumption, NEW c \in Calls, ServerStep(c)
  PROVE  /\ met \subseteq met'
         /\ \/ DOMAIN reports \subseteq DOMAIN reports' /\ OfScope \subseteq OfScope'
            \/ \E n : /\ DOMAIN reports \ {n} \subseteq DOMAIN reports'
                     /\ OfScope \ {n} \subseteq OfScope' /\ Robbed(n) \subseteq met'
         /\ \/ born' = born /\ DOMAIN reports' \subseteq DOMAIN reports
            \/ born' = born + 1 /\ call[c].at = "insert"
<1> DEFINE n == call[c].id
<1>0. Effect(c) BY StepIsHandled DEF Handled
<1>1. met \subseteq met' /\ (call[c].at # "erase" \/ UNCHANGED <<reports, born>> \/ Robbed(n) \subseteq met')
  <2>1. CASE Raises(c)
    <3>1. CASE UNCHANGED <<reports, born>> /\ met' = met \cup {c} BY <3>1
    <3>2. CASE met' = met \cup {c} \cup Robs(c) BY <3>2 DEF Robs
    <3> QED BY <2>1, <3>1, <3>2 DEF Raises
  <2>2. CASE Erase(c) BY <2>2 DEF Erase, Robs
  <2>3. CASE ~Raises(c) /\ ~Erase(c)
    BY <2>3 DEF ServerStep, HandlerStep, Cancelled, Read, Calm, Alloc, Insert, LookUp, FindScope, Patch,
                SaveMessage, FindVictim, FindReport, StoreQuestion, ModelReturns, StoreOutcome
  <2> QED BY <2>1, <2>2, <2>3
<1>2. CASE UNCHANGED <<reports, born>> BY <1>1, <1>2 DEF OfScope
<1>3. CASE /\ call[c].at = "insert" /\ n \notin DOMAIN reports
           /\ reports' = Put(reports, n, NewReport(c)) /\ born' = born + 1
  BY <1>1, <1>3 DEF Put, OfScope
<1>4. CASE /\ call[c].at = "erase" /\ n \in DOMAIN reports
           /\ reports' = Without(reports, n) /\ born' = born
  <2>1. reports' # reports BY <1>4 DEF Without
  <2>2. /\ DOMAIN reports' = DOMAIN reports \ {n}
        /\ \A m \in DOMAIN reports \ {n} : reports'[m] = reports[m]
    BY <1>4 DEF Without
  <2>3. OfScope \ {n} \subseteq OfScope' BY <2>2 DEF OfScope
  <2>4. Robbed(n) \subseteq met' BY <1>1, <1>4, <2>1
  <2> QED BY <1>1, <1>4, <2>2, <2>3, <2>4
<1>5. CASE /\ n \in DOMAIN reports /\ born' = born
           /\ \E s : Changed(reports[n], s, c) /\ reports' = Put(reports, n, s)
  <2>1. PICK s : s.scope = reports[n].scope /\ reports' = Put(reports, n, s) BY <1>5 DEF Changed
  <2>2. /\ DOMAIN reports' = DOMAIN reports
        /\ \A m \in DOMAIN reports : reports'[m].scope = reports[m].scope
    BY <1>5, <2>1 DEF Put
  <2> QED BY <1>1, <1>5, <2>2 DEF OfScope
<1> QED BY <1>0, <1>2, <1>3, <1>4, <1>5 DEF Effect

\* The calls that do not move.
LEMMA OthersGood ==
  ASSUME TypeInv, PageAssumption, NEW c \in Calls, ServerStep(c), NEW d \in Calls, d # c, CallGood(d)
  PROVE  CallGood(d)'
<1>0. /\ call'[d] = call[d] /\ call[d].tries \in Nat /\ call[d].since \in Nat /\ born \in Nat
  BY StepIsHandled DEF Handled, TypeInv, CallOK, CallType, StoreOK
<1>1. Career(d)' BY <1>0 DEF CallGood, Career, Making
<1>2. Pace(d)'
  <2>1. Exists(d)' => Exists(d) \/ born' = born + 1 BY <1>0, StoreGrows DEF Exists
  <2>2. born' \in {born, born + 1} BY StoreGrows
  <2>3. Making(d)' = Making(d) BY <1>0 DEF Making
  <2> QED BY <1>0, <2>1, <2>2, <2>3 DEF CallGood, Pace
<1>3. Cause(d)'
  <2>1. CASE DOMAIN reports \subseteq DOMAIN reports' /\ OfScope \subseteq OfScope'
    BY <1>0, <2>1, StoreGrows DEF CallGood, Cause, Making, Exists
  <2>2. ASSUME NEW n, DOMAIN reports \ {n} \subseteq DOMAIN reports', OfScope \ {n} \subseteq OfScope',
               Robbed(n) \subseteq met'
        PROVE  Cause(d)'
    <3>1. SUFFICES ASSUME d \notin met' PROVE Cause(d)' BY DEF Cause
    <3>2. d \notin met /\ d \notin Robbed(n) BY <2>2, <3>1, StoreGrows
    <3>3. call[d].at \in {"lookup", "patch", "append"} /\ Exists(d) => Exists(d)'
      BY <1>0, <2>2, <3>2 DEF Robbed, Live, Exists
    <3>4. call[d].op = "save" /\ call[d].at \in {"lookup", "winner"} /\ OfScope # {} => OfScope' # {}
      BY <2>2, <3>2 DEF Robbed, Live
    <3> QED BY <1>0, <3>2, <3>3, <3>4 DEF CallGood, Cause, Making
  <2> QED BY <2>1, <2>2, StoreGrows
<1> QED BY <1>1, <1>2, <1>3 DEF CallGood

\* The number given to a create is free.
LEMMA NextIsFree == ASSUME TypeInv PROVE NextParagraph \notin DOMAIN reports
<1> DEFINE S == DOMAIN reports \cup {0}
<1>1. S \subseteq 0 .. born /\ 0 \in S /\ born \in Nat BY DEF TypeInv, StoreOK
<1>2. Max(S) + 1 \notin S BY <1>1, MaxInSet
<1> QED BY <1>2 DEF NextParagraph

\* A call that only changes where it is, and the dossiers stay.
LEMMA MovedGood ==
  ASSUME TypeInv, NEW c \in Calls, NEW at \in Steps, To(c, at), CallGood(c),
         Making(c), met \subseteq met',
         at = "lookup" => call[c].at = "insert" /\ Refused(c) /\ UNCHANGED <<reports, born>>,
         at = "winner" => (c \notin met => OfScope' # {}) /\ call[c].op = "save",
         at = "append" => (c \notin met => Exists(c)') /\ call[c].op = "save",
         at = "failed" => c \in met',
         at = "next" => call[c].at = "find",
         born \in Nat, born' \in {born, born + 1},
         at \in {"lookup", "winner", "append", "failed", "next", "ok"}
  PROVE  CallGood(c)'
<1>0. /\ call'[c].op = call[c].op /\ call'[c].at = at /\ call'[c].id = call[c].id
      /\ call'[c].tries = call[c].tries /\ call'[c].since = call[c].since /\ Making(c)'
      /\ call[c].tries \in Nat /\ call[c].since \in Nat
  <2>1. call' = [call EXCEPT ![c].at = at] /\ call \in [Calls -> CallType] BY DEF To, TypeInv, CallOK
  <2> QED BY <2>1 DEF CallType, Making
<1>1. Career(c)' BY <1>0 DEF Career, CreateSteps, CallGood, Making
<1>2. Pace(c)'
  <2>1. at = "lookup" => (Exists(c)' <=> Exists(c)) /\ call[c].at = "insert" BY <1>0 DEF Exists
  <2> QED BY <1>0, <2>1 DEF Pace, CallGood
<1>3. Cause(c)'
  <2>1. CASE at = "lookup"
    <3>1. Exists(c)' <=> Exists(c) BY <1>0, <2>1 DEF Exists
    <3>2. OfScope' = OfScope BY <2>1 DEF OfScope
    <3>3. call[c].op = "create" => Exists(c)
      BY <2>1 DEF Refused, ScopeTaken, ScopeOf
    <3>4. call[c].op = "save" => Exists(c) \/ OfScope # {}
      BY <2>1 DEF Refused, ScopeTaken, ScopeOf, OfScope
    <3> QED BY <1>0, <2>1, <3>1, <3>2, <3>3, <3>4 DEF Cause
  <2>2. CASE at \in {"winner", "append"} BY <1>0, <2>2 DEF Cause, Making
  <2>3. CASE at \in {"failed", "next", "ok"} BY <1>0, <2>3 DEF Cause, Making
  <2> QED BY <2>1, <2>2, <2>3
<1> QED BY <1>1, <1>2, <1>3 DEF CallGood

\* A call's own step.
LEMMA OwnGood ==
  ASSUME TypeInv, PageAssumption, StoreAssumption, CauseInv, NEW c \in Calls, ServerStep(c)
  PROVE  CallGood(c)'
<1>0. /\ call \in [Calls -> CallType] /\ call'[c].op = call[c].op /\ CallGood(c)
      /\ Effect(c) /\ met \subseteq met' /\ born \in Nat /\ born' \in {born, born + 1}
      /\ call[c].tries \in Nat /\ call[c].since \in Nat /\ Attempts \in Nat
  BY StoreAssumption, StepIsHandled, StoreGrows DEF Handled, TypeInv, CallOK, CauseInv, StoreOK, CallType, StoreAssumption
<1>1. CASE ~Making(c)
  <2>1. ~Making(c)' BY <1>0, <1>1 DEF Making
  <2>2. call[c].at \notin {"next", "insert", "lookup", "find", "winner"}
    BY <1>0, <1>1 DEF CallGood, Career
  <2>3. \E at \in Steps : To(c, at) /\ at \notin {"next", "insert", "lookup", "find", "winner"}
    BY <2>2, <1>1 DEF ServerStep, HandlerStep, Alloc, Insert, LookUp, FindScope, Patch,
       SaveMessage, FindVictim, Erase, FindReport, StoreQuestion, ModelReturns, StoreOutcome, Raises,
       Cancelled, Making, Steps, AskSteps, EditSteps
  <2>4. call'[c].at \notin {"next", "insert", "lookup", "find", "winner"} BY <2>3, MovesTo
  <2> QED BY <2>1, <2>4 DEF CallGood, Career, Pace, Cause, Making
<1>2. CASE Making(c)
  <2>0. /\ c \notin Asks /\ call[c].op # "query"
        /\ call[c].at \in CreateSteps \cup {"find", "winner", "patch", "append"}
        /\ call[c].op \in {"save", "create"} /\ Making(c)'
        /\ call[c].op = "create" => call[c].at \in CreateSteps
    BY <1>0, <1>2, WhoIsWhere DEF Making, CallGood, Career, CreateSteps
  <2>1. CASE Alloc(c)
    <3> DEFINE x == [call[c] EXCEPT !.at = "insert", !.id = NextParagraph]
    <3>1. call' = [call EXCEPT ![c] = x] /\ call[c].at = "next" /\ UNCHANGED <<reports, born, met>>
      BY <2>1, <1>0 DEF Alloc, Read, Calm
    <3>2. call'[c].at = "insert" /\ call'[c].id = NextParagraph /\ call'[c].tries = call[c].tries
          /\ call'[c].since = call[c].since
      BY <3>1, <1>0 DEF CallType
    <3>3. ~Exists(c)' BY <3>1, <3>2, NextIsFree DEF Exists
    <3>4. Career(c)' BY <1>0, <2>0, <3>2 DEF Career, CreateSteps
    <3>5. Pace(c)' BY <1>0, <1>2, <3>1, <3>2, <3>3 DEF Pace, CallGood
    <3>6. Cause(c)' BY <3>2 DEF Cause
    <3> QED BY <3>4, <3>5, <3>6 DEF CallGood
  <2>2. CASE Insert(c) /\ Refused(c)
    <3>1. To(c, "lookup") /\ call[c].at = "insert" /\ UNCHANGED <<reports, born>>
      BY <2>2 DEF Insert, Write
    <3> QED BY <1>0, <1>2, <2>2, <3>1, MovedGood DEF Steps, EditSteps
  <2>3. CASE Insert(c) /\ ~Refused(c)
    <3> DEFINE at == IF call[c].op = "save" THEN "patch" ELSE "ok"
               x == [call[c] EXCEPT !.at = at, !.of = born + 1]
    <3>1. /\ call' = [call EXCEPT ![c] = x] /\ call[c].at = "insert"
          /\ reports' = Put(reports, call[c].id, NewReport(c)) /\ born' = born + 1
      BY <2>3, <1>0 DEF Insert, Write
    <3>2. /\ call'[c].at = at /\ call'[c].id = call[c].id
          /\ call'[c].tries = call[c].tries /\ call'[c].since = call[c].since
      BY <3>1, <1>0 DEF CallType
    <3>3. Exists(c)' BY <3>1, <3>2 DEF Exists, Put
    <3>4. Career(c)' BY <1>0, <2>0, <3>2 DEF Career, CreateSteps
    <3>5. Pace(c)' BY <1>0, <1>2, <3>1, <3>2 DEF Pace, CallGood
    <3>6. Cause(c)' BY <1>0, <3>2, <3>3 DEF Cause
    <3> QED BY <3>4, <3>5, <3>6 DEF CallGood
  <2>4. CASE LookUp(c) /\ Exists(c)
    <3> DEFINE at == IF call[c].tries + 1 < Attempts THEN "next" ELSE "failed"
               x == [call[c] EXCEPT !.at = at, !.tries = call[c].tries + 1]
    <3>1. call' = [call EXCEPT ![c] = x] /\ call[c].at = "lookup" /\ UNCHANGED <<reports, born, met>>
      BY <2>4, <1>0 DEF LookUp, AfterRefusal, Read, Calm
    <3>2. call[c].since + call[c].tries + 1 <= born BY <1>0, <1>2, <2>4, <3>1 DEF CallGood, Pace
    <3>3. /\ call'[c].at = at /\ call'[c].tries = call[c].tries + 1
          /\ call'[c].since = call[c].since
      BY <3>1, <1>0 DEF CallType
    <3>4. Career(c)' BY <1>0, <2>0, <3>3 DEF Career, CreateSteps
    <3>5. Pace(c)' BY <1>0, <3>1, <3>2, <3>3 DEF Pace
    <3>6. Cause(c)' BY <1>0, <3>3 DEF Cause
    <3> QED BY <3>4, <3>5, <3>6 DEF CallGood
  <2>5. CASE LookUp(c) /\ ~Exists(c)
    <3>1. /\ call[c].at = "lookup" /\ UNCHANGED <<reports, born, met>>
          /\ To(c, IF call[c].op = "save" THEN "winner" ELSE "failed")
      BY <2>5 DEF LookUp, AfterRefusal, Read, Calm
    <3>2. OfScope' = OfScope BY <3>1 DEF OfScope
    <3>3. call[c].op = "save" => (c \notin met => OfScope' # {})
      BY <1>0, <2>5, <3>1, <3>2 DEF CallGood, Cause
    <3>4. call[c].op = "create" => c \in met' BY <1>0, <2>5, <3>1 DEF CallGood, Cause
    <3>5. CASE call[c].op = "save" BY <1>0, <1>2, <3>1, <3>3, <3>5, MovedGood DEF Steps, EditSteps
    <3>6. CASE call[c].op = "create" BY <1>0, <1>2, <3>1, <3>4, <3>6, MovedGood DEF Steps, EditSteps
    <3> QED BY <2>0, <3>5, <3>6
  <2>6. CASE FindScope(c) /\ OfScope # {}
    <3> DEFINE x == [call[c] EXCEPT !.at = "patch", !.id = Winner]
    <3>1. call' = [call EXCEPT ![c] = x] /\ UNCHANGED <<reports, born>> /\ call[c].at \in {"find", "winner"}
      BY <2>6, <1>0 DEF FindScope, Read
    <3>2. /\ call'[c].at = "patch" /\ call'[c].id = Winner
          /\ call'[c].tries = call[c].tries /\ call'[c].since = call[c].since
      BY <3>1, <1>0 DEF CallType
    <3>3. Exists(c)' BY <2>6, <3>1, <3>2, WinnerIsNumber DEF Exists, OfScope
    <3>4. call[c].op = "save" BY <2>0, <3>1 DEF CreateSteps
    <3>5. Career(c)' BY <1>0, <3>2, <3>4 DEF Career
    <3>6. Pace(c)' BY <1>0, <1>2, <3>1, <3>2 DEF Pace, CallGood
    <3>7. Cause(c)' BY <1>0, <3>2, <3>3, <3>4 DEF Cause
    <3> QED BY <3>5, <3>6, <3>7 DEF CallGood
  <2>7. CASE FindScope(c) /\ OfScope = {}
    <3>1. /\ UNCHANGED <<reports, born, met>> /\ call[c].at \in {"find", "winner"}
          /\ To(c, IF call[c].at = "find" THEN "next" ELSE "failed")
      BY <2>7 DEF FindScope, Read, Calm
    <3>2. call[c].op = "save" BY <2>0, <3>1 DEF CreateSteps
    <3>3. CASE call[c].at = "find" BY <1>0, <1>2, <3>1, <3>3, MovedGood DEF Steps, EditSteps
    <3>4. CASE call[c].at = "winner"
      <4>1. c \in met' BY <1>0, <2>7, <3>1, <3>2, <3>4 DEF CallGood, Cause
      <4>2. To(c, "failed") BY <3>1, <3>4
      <4> QED BY <1>0, <1>2, <4>1, <4>2, MovedGood DEF Steps, EditSteps
    <3> QED BY <3>1, <3>3, <3>4
  <2>8. CASE Patch(c)
    <3>1. /\ call[c].at = "patch" /\ call[c].op = "save" /\ met' = met
          /\ To(c, IF ~Exists(c) THEN "failed" ELSE "append")
      BY <2>0, <2>8 DEF Patch, Calm, CreateSteps
    <3>3. CASE Exists(c)
      <4>1. call'[c].at = "append" /\ call'[c].id = call[c].id
        BY <3>1, <3>3, MovesTo DEF Steps, EditSteps
      <4>2. Exists(c)'
        <5>1. reports' = Put(reports, call[c].id, Patched(reports[call[c].id], c))
          BY <2>8, <3>1, <3>3 DEF Patch, Write
        <5> QED BY <4>1, <5>1 DEF Exists, Put
      <4> QED BY <1>0, <1>2, <3>1, <3>3, <4>2, MovedGood DEF Steps, EditSteps
    <3>4. CASE ~Exists(c)
      <4>1. c \in met' BY <1>0, <3>1, <3>4 DEF CallGood, Cause
      <4>2. To(c, "failed") BY <3>1, <3>4
      <4> QED BY <1>0, <1>2, <4>1, <4>2, MovedGood DEF Steps, EditSteps
    <3> QED BY <3>3, <3>4
  <2>9. CASE SaveMessage(c)
    <3>1. /\ call[c].at = "append" /\ call[c].op = "save" /\ met' = met
          /\ To(c, IF Exists(c) THEN "ok" ELSE "failed")
      BY <2>0, <2>9 DEF SaveMessage, Calm, CreateSteps
    <3>3. ~Exists(c) => c \in met' BY <1>0, <3>1 DEF CallGood, Cause
    <3>4. PICK at \in {"ok", "failed"} : To(c, at) /\ (at = "failed" => c \in met') BY <3>1, <3>3
    <3>5. at \in Steps BY DEF Steps, EditSteps
    <3> QED BY <1>0, <1>2, <3>4, <3>5, MovedGood
  <2>10. CASE Raises(c)
    <3>1. To(c, "failed") /\ c \in met' BY <2>0, <2>10 DEF Raises, CreateSteps
    <3> QED BY <1>0, <1>2, <3>1, MovedGood DEF Steps, EditSteps
  <2>11. CASE \/ FindVictim(c) \/ Erase(c) \/ FindReport(c) \/ StoreQuestion(c) \/ ModelReturns(c)
              \/ StoreOutcome(c) \/ Cancelled(c)
    BY <2>0, <2>11 DEF FindVictim, Erase, FindReport, StoreQuestion, ModelReturns, StoreOutcome, Cancelled,
                       CreateSteps
  <2> QED BY <2>1, <2>2, <2>3, <2>4, <2>5, <2>6, <2>7, <2>8, <2>9, <2>10, <2>11 DEF ServerStep, HandlerStep
<1> QED BY <1>1, <1>2

\* Steps that leave the store and the calls alone.
LEMMA StillCauses == ASSUME CauseInv, UNCHANGED <<reports, born, call, met>> PROVE CauseInv'
BY DEF CauseInv, CallGood, Career, Pace, Cause, Making, Exists, OfScope

\* A call that is sent, or forgotten.
LEMMA OneCallCauses ==
  ASSUME TypeInv, CauseInv, UNCHANGED <<reports, born>>, NEW c \in Calls, NEW x \in CallType,
         call' = [call EXCEPT ![c] = x], met' \in {met, met \ {c}},
         \/ x.op \notin {"save", "create"} /\ x.at \notin {"next", "insert", "lookup", "find", "winner"}
         \/ /\ x.op \in {"save", "create"} /\ x.tries = 0 /\ x.since = born
            /\ x.at = IF x.op = "save" THEN "find" ELSE "next"
  PROVE  CauseInv'
<1>0. /\ call' \in [Calls -> CallType] /\ call'[c] = x /\ \A d \in Calls : d # c => call'[d] = call[d]
      /\ born \in Nat
  BY DEF TypeInv, CallOK, StoreOK
<1>1. ASSUME NEW d \in Calls, d # c PROVE CallGood(d)'
  BY <1>0, <1>1 DEF CauseInv, CallGood, Career, Pace, Cause, Making, Exists, OfScope
<1>2. CallGood(c)'
  <2>1. Career(c)' BY <1>0 DEF Career, Making, CreateSteps
  <2>2. Pace(c)' BY <1>0 DEF Pace, Making
  <2>3. Cause(c)' BY <1>0 DEF Cause, Making
  <2> QED BY <2>1, <2>2, <2>3 DEF CallGood
<1> QED BY <1>1, <1>2 DEF CauseInv

LEMMA SentCauses ==
  ASSUME TypeInv, CauseInv, NEW c \in Calls,
         NEW op \in {"save", "create", "delete", "publish", "withdraw", "query"}, NEW id \in Nat, NEW of \in Nat,
         Send(c, op, id, of)
  PROVE  CauseInv'
<1> DEFINE x == Request(op, id, of)
<1>0. born \in Nat BY DEF TypeInv, StoreOK
<1>1. x \in CallType /\ x.op = op /\ x.at = FirstStep[op] /\ x.tries = 0 /\ x.since = born
  BY <1>0 DEF Request, FirstStep, CallType, Ops, Steps, AskSteps, EditSteps
<1>2. /\ op = "create" => x.at = "next"
      /\ op = "save" => x.at = "find"
      /\ op \notin {"save", "create"} => x.at \notin {"next", "insert", "lookup", "find", "winner"}
  BY <1>1 DEF FirstStep
<1>3. call' = [call EXCEPT ![c] = x] /\ met' = met \ {c} /\ UNCHANGED <<reports, born>>
  BY DEF Send
<1> HIDE DEF x
<1>4. CASE op \in {"save", "create"} BY <1>1, <1>2, <1>3, <1>4, OneCallCauses
<1>5. CASE op \notin {"save", "create"} BY <1>1, <1>2, <1>3, <1>5, OneCallCauses
<1> QED BY <1>4, <1>5

LEMMA ForgottenCauses ==
  ASSUME TypeInv, CauseInv, NEW c \in Calls,
         call' = [call EXCEPT ![c] = Idle], UNCHANGED <<reports, born, met>>
  PROVE  CauseInv'
<1>1. Idle \in CallType /\ Idle.op = "none" /\ Idle.at = "idle"
  BY DEF Idle, CallType, Ops, Steps, AskSteps
<1> HIDE DEF Idle
<1> QED BY <1>1, OneCallCauses

LEMMA NextCauses ==
  ASSUME PageInv, CauseInv, PageAssumption, StoreAssumption, [Next]_vars
  PROVE  CauseInv'
<1>0. TypeInv /\ page \in PageType BY DEF PageInv, TypeInv, PageOK
<1>a. /\ NewButton \in Calls /\ DeleteButton \in Calls /\ Asks \subseteq Calls /\ Clients \subseteq Calls
  BY PageAssumption DEF PageAssumption
<1>c. page.shown.id \in Nat /\ page.shown.birth \in Nat BY <1>0 DEF PageType, RowType
<1>1. CASE \E c \in Calls : ServerMoves(c)
  <2>1. PICK c \in Calls : ServerStep(c) BY <1>1 DEF ServerMoves
  <2> QED BY <1>0, <2>1, OwnGood, OthersGood DEF CauseInv
<1>2. CASE \E c \in Clients : ClientSends(c)
  <2>1. PICK c \in Clients : ClientSends(c) BY <1>2
  <2>2. \A n \in DOMAIN reports : n \in Nat /\ reports[n].birth \in Nat BY <1>0 DEF TypeInv, StoreOK
  <2>3. \/ Send(c, "save", 0, 0) \/ Send(c, "create", 0, 0)
        \/ \E n \in DOMAIN reports, op \in {"delete", "publish", "withdraw"} :
             Send(c, op, n, reports[n].birth)
    BY <2>1 DEF ClientSends
  <2> QED BY <1>0, <1>a, <2>2, <2>3, SentCauses
<1>3. CASE (\E c \in Clients : ClientDone(c)) \/ Created \/ Deleted
  BY <1>0, <1>a, <1>3, ForgottenCauses DEF ClientDone, Created, Deleted, Forget
<1>4. CASE \E b \in {NewButton, DeleteButton} : ButtonFails(b)
  BY <1>0, <1>a, <1>4, ForgottenCauses DEF ButtonFails
<1>5. CASE Create BY <1>0, <1>a, <1>5, SentCauses DEF Create
<1>6. CASE Delete BY <1>0, <1>a, <1>c, <1>6, SentCauses DEF Delete
<1>7. CASE \E q \in Asks : Ask(q) BY <1>0, <1>a, <1>c, <1>7, SentCauses DEF Ask
<1>8. CASE \/ ListReads \/ ListLands \/ ListFails \/ RetryList \/ RetryLoad
           \/ \E l \in loads : LoadFinds(l) \/ LoadReads(l) \/ LoadLands(l) \/ LoadFails(l)
           \/ \E q \in Asks : Hears(q) \/ Breaks(q) \/ Cancel(q)
           \/ \E i \in DOMAIN page.rows : Select(i)
           \/ UNCHANGED vars
  <2>1. UNCHANGED <<reports, born, call, met>>
    BY <1>8 DEF ListReads, ListLands, ListFails, RetryList, RetryLoad, LoadFinds, LoadReads, LoadLands,
                LoadFails, Hears, Breaks, Cancel, Select, vars, storeVars
  <2> QED BY <2>1, StillCauses
<1> QED BY <1>1, <1>2, <1>3, <1>4, <1>5, <1>6, <1>7, <1>8 DEF Next

\* A save or a create that fails was failed by the database, robbed by a deletion, or
\* refused Attempts numbers, each that of a dossier born since it was sent.
THEOREM FailuresHaveCause == Spec => []FailsForCause
<1>1. ASSUME Init PROVE CauseInv
  <2>1. \A c \in Calls : call[c].op = "none" /\ call[c].at = "idle" BY <1>1 DEF Init, Idle
  <2> QED BY <2>1 DEF CauseInv, CallGood, Career, Pace, Cause, Making
<1>2. PageInv /\ CauseInv /\ [Next]_vars => CauseInv' BY NextCauses, PageAssumption, StoreAssumption
<1>3. PageInv /\ CauseInv => FailsForCause
  <2>1. SUFFICES ASSUME PageInv, CauseInv, NEW c \in Calls, Making(c), call[c].at = "failed", c \notin met
                 PROVE  born - call[c].since >= Attempts
    BY DEF FailsForCause, Making
  <2>2. /\ born \in Nat /\ call[c].tries \in Nat /\ call[c].since \in Nat /\ Attempts \in Nat
    BY <2>1, StoreAssumption DEF PageInv, TypeInv, StoreOK, CallOK, CallType, StoreAssumption
  <2>3. call[c].tries >= Attempts /\ call[c].since + call[c].tries <= born
    BY <2>1 DEF CauseInv, CallGood, Cause, Pace
  <2> QED BY <2>2, <2>3
<1> QED BY <1>1, <1>2, <1>3, PageInvariant, PTL DEF Spec

===============================================================================
