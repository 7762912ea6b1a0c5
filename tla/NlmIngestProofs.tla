---------------------------- MODULE NlmIngestProofs ----------------------------
(* Proofs about NlmIngest, for any number of processes, reports and kills, *)
(* under the operator's discipline: all commands but transcribe are given  *)
(* only while no other of these runs.  NlmInv is inductive: one lemma per  *)
(* kind of step, and one step per action.                                  *)
EXTENDS NlmIngest, TLAPS

\* The commands that write the statuses of extract and ingest are not given side by side.
Sequential == {"export", "extract", "ingest", "migrate"} \subseteq Alone

-------------------------------------------------------------------------------
(* Processes.                                                              *)

LEMMA IdleIs == Idle \in Proc /\ PlaceOK(Idle) /\ ~Busy(Idle) /\ Idle.at = "idle"
  BY DEF Idle, Proc, PlaceOK, Busy, Commands, Phases, Stores, Sources

\* A command begins with the list of notebooks or with the database.
LEMMA BeginIs ==
  ASSUME NEW c \in Commands, NEW chain \in BOOLEAN, chain => c \in Phases
  PROVE  /\ Begin(c, chain) \in Proc /\ PlaceOK(Begin(c, chain))
         /\ Begin(c, chain).at \in {"list", "open"}
         /\ Begin(c, chain).cmd = c /\ Begin(c, chain).chain = chain
  BY DEF Begin, Idle, Proc, PlaceOK, Commands, Phases, Stores, Sources

\* What follows a command is open to all, or part of the same run.
LEMMA NextCmdIs ==
  ASSUME NEW r \in Proc
  PROVE  /\ NextCmd(r) \in Proc /\ PlaceOK(NextCmd(r))
         /\ NextCmd(r).at \in {"idle", "open"}
         /\ NextCmd(r).at # "idle" => r.chain
  <1>1. ASSUME NEW c \in {"transcribe", "extract", "ingest"}
        PROVE  /\ Begin(c, TRUE) \in Proc /\ PlaceOK(Begin(c, TRUE))
               /\ Begin(c, TRUE).at = "open"
    BY BeginIs DEF Begin, Idle, Commands, Phases
  <1>2. \/ NextCmd(r) = Idle
        \/ r.chain /\ \E c \in {"transcribe", "extract", "ingest"} : NextCmd(r) = Begin(c, TRUE)
    BY DEF NextCmd
  <1> QED BY <1>1, <1>2, IdleIs

\* A process that is idle, or that transcribes on its own, is none of those the
\* invariant speaks of; every other one is busy.
LEMMA BusyOrFree ==
  ASSUME Sequential, NEW r \in Proc, PlaceOK(r)
  PROVE  Busy(r) \/ r.at = "idle" \/ r.cmd = "transcribe"
  BY DEF Sequential, PlaceOK, Busy, Commands, Phases

-------------------------------------------------------------------------------
(* The invariant after a step that touches it little, and after a step of  *)
(* a busy process.                                                         *)

Early == {"idle", "list", "reports", "fetch", "open", "reactivate", "unlink"}

\* The data of the type invariant.
DataOK ==
  /\ offered \subseteq Sources /\ reports \subseteq Reports
  /\ transcript \in File /\ extraction \in [Sources -> File]
  /\ podcast \in BOOLEAN /\ legacy \in BOOLEAN /\ cut \in BOOLEAN /\ failing \in BOOLEAN
  /\ status \in [Phases -> Status]
  /\ written \in [Stores -> SUBSET Sources]
  /\ kills \in 0 .. MaxKills

LEMMA TypeIs == TypeOK <=> DataOK /\ proc \in [Procs -> Proc]
  BY DEF TypeOK, DataOK

\* A step that settles nothing of extract and ingest, writes no extraction, and removes
\* no source.
LEMMA Quiet ==
  ASSUME NlmInv, NEW p \in Procs, NEW r2 \in Proc, Move(p, r2), DataOK',
         UNCHANGED <<extraction, legacy, written>>, OnDisk \subseteq OnDisk', cut => cut',
         status'["extract"] \in Settled <=> status["extract"] \in Settled,
         status'["ingest"] \in Settled => status["ingest"] \in Settled,
         PlaceOK(r2), Busy(r2) => Busy(proc[p]) \/ \A q \in Procs : ~Busy(proc[q]),
         ExtractorInv(r2), IngesterInv(r2), SkipperInv(r2),
         Owes(proc[p]) => Owes(r2) \/ status'["ingest"] \notin Settled \/ cut',
         legacy => /\ status' = status /\ transcript' = transcript
                   /\ r2.at \in Early \ {"unlink"}
  PROVE  NlmInv'
  <1>1. proc \in [Procs -> Proc] /\ TypeOK /\ DataOK
    BY TypeIs DEF NlmInv
  <1>2. proc' \in [Procs -> Proc] /\ proc'[p] = r2 /\ \A q \in Procs \ {p} : proc'[q] = proc[q]
    BY <1>1 DEF Move
  <1>3. TypeOK'
    BY <1>2, TypeIs DEF TypeOK, DataOK
  <1>4. (\A q \in Procs : PlaceOK(proc[q]))'
    BY <1>2 DEF NlmInv, PlaceOK
  <1>5. AtMostOneBusy'
    BY <1>2 DEF NlmInv, AtMostOneBusy, Busy
  <1>6. (\A s \in Sources : extraction[s] # "none" => s \in OnDisk)'
    BY DEF NlmInv
  <1>7. LegacyInv'
    BY <1>2 DEF NlmInv, LegacyInv, At, Early
  <1>8. DebtInv'
    BY <1>2 DEF NlmInv, DebtInv, Owes
  <1>9. (\A q \in Procs : ExtractorInv(proc[q]))'
    <2>1. \A q \in Procs : ExtractorInv(proc'[q])
      BY <1>2 DEF NlmInv
    <2> QED BY <2>1 DEF ExtractorInv
  <1>10. (\A q \in Procs : IngesterInv(proc[q]))'
    <2>1. \A q \in Procs : IngesterInv(proc'[q])
      BY <1>2 DEF NlmInv
    <2> QED BY <2>1 DEF IngesterInv, InHand, Delivered
  <1>11. (\A q \in Procs : SkipperInv(proc[q]))'
    <2>1. \A q \in Procs : SkipperInv(proc'[q])
      BY <1>2 DEF NlmInv
    <2> QED BY <2>1 DEF SkipperInv
  <1>12. ExtractedIsIngested'
    BY DEF NlmInv, ExtractedIsIngested
  <1> QED BY <1>3, <1>4, <1>5, <1>6, <1>7, <1>8, <1>9, <1>10, <1>11, <1>12 DEF NlmInv

\* A step of a busy process past the migration: no other one is concerned.
LEMMA Lonely ==
  ASSUME NlmInv, Sequential, NEW p \in Procs, NEW r2 \in Proc, Move(p, r2), DataOK',
         Busy(proc[p]), ~legacy, ~legacy', PlaceOK(r2),
         (\A s \in Sources : extraction[s] # "none" => s \in OnDisk)',
         status'["extract"] \notin Settled /\ status'["ingest"] \in Settled => cut' \/ Owes(r2),
         ExtractorInv(proc[p])', IngesterInv(proc[p])', SkipperInv(proc[p])',
         ExtractedIsIngested'
  PROVE  NlmInv'
  <1>1. proc \in [Procs -> Proc] /\ TypeOK /\ DataOK
    BY TypeIs DEF NlmInv
  <1>2. proc' \in [Procs -> Proc] /\ proc'[p] = r2 /\ \A q \in Procs \ {p} : proc'[q] = proc[q]
    BY <1>1 DEF Move
  <1>3. TypeOK'
    BY <1>2, TypeIs DEF TypeOK, DataOK
  <1>4. (\A q \in Procs : PlaceOK(proc[q]))'
    BY <1>2 DEF NlmInv, PlaceOK
  <1>5. ASSUME NEW q \in Procs, q # p
        PROVE  ~Busy(proc[q]) /\ (proc[q].at = "idle" \/ proc[q].cmd = "transcribe")
    BY <1>1, <1>5, BusyOrFree DEF NlmInv, AtMostOneBusy
  <1>6. AtMostOneBusy'
    BY <1>2, <1>5 DEF AtMostOneBusy, Busy
  <1>7. LegacyInv'
    BY DEF LegacyInv
  <1>8. DebtInv'
    BY <1>2 DEF DebtInv, Owes
  <1>9. ASSUME NEW q \in Procs
        PROVE  (ExtractorInv(proc[q]) /\ IngesterInv(proc[q]) /\ SkipperInv(proc[q]))'
    <2>1. CASE q = p
      BY <2>1
    <2>2. CASE q # p
      <3>1. proc'[q].at = "idle" \/ proc'[q].cmd = "transcribe"
        BY <1>2, <1>5, <2>2
      <3>2. PlaceOK(proc'[q])
        BY <1>2, <2>2 DEF NlmInv
      <3> QED BY <3>1, <3>2 DEF ExtractorInv, IngesterInv, SkipperInv, PlaceOK
    <2> QED BY <2>1, <2>2
  <1> QED BY <1>3, <1>4, <1>6, <1>7, <1>8, <1>9 DEF NlmInv

\* What the invariant says of one process.
LEMMA OfProcess ==
  ASSUME NlmInv, NEW p \in Procs
  PROVE  /\ DataOK /\ proc[p] \in Proc /\ PlaceOK(proc[p])
         /\ ExtractorInv(proc[p]) /\ IngesterInv(proc[p]) /\ SkipperInv(proc[p])
         /\ proc[p].at \notin Early => ~legacy
  BY TypeIs DEF NlmInv, TypeOK, LegacyInv, Early

\* The places the invariant says nothing special of.
LEMMA Outside ==
  ASSUME NEW r \in Proc, PlaceOK(r),
         \/ r.at \notin {"load", "running", "plan", "work", "flush", "neo4j", "qdrant", "finish", "skip"}
         \/ r.cmd = "transcribe"
  PROVE  ExtractorInv(r) /\ IngesterInv(r) /\ SkipperInv(r)
  BY DEF ExtractorInv, IngesterInv, SkipperInv, PlaceOK, Stores

\* A step that changes nothing but the process.
LEMMA JustMoves ==
  ASSUME NlmInv, NEW p \in Procs, NEW r2 \in Proc, Move(p, r2),
         UNCHANGED <<offered, files, status, written, cut, kills, failing>>,
         PlaceOK(r2), Busy(r2) => Busy(proc[p]) \/ \A q \in Procs : ~Busy(proc[q]),
         ExtractorInv(r2), IngesterInv(r2), SkipperInv(r2),
         Owes(proc[p]) => Owes(r2) \/ status["ingest"] \notin Settled \/ cut,
         legacy => r2.at \in Early \ {"unlink"}
  PROVE  NlmInv'
  <1>1. DataOK /\ UNCHANGED <<podcast, reports, transcript, extraction, legacy>>
    BY OfProcess DEF files
  <1>2. DataOK'
    BY <1>1 DEF DataOK
  <1>3. OnDisk' = OnDisk
    BY <1>1 DEF OnDisk
  <1> QED BY <1>1, <1>2, <1>3, Quiet

\* A step of a process to the end of its command.
LEMMA NextCmdKeeps ==
  ASSUME NlmInv, NEW p \in Procs, ~At(p, "idle"), ~Owes(proc[p]), Move(p, NextCmd(proc[p])),
         UNCHANGED <<offered, files, status, written, cut, kills, failing>>
  PROVE  NlmInv'
  <1>1. proc[p] \in Proc
    BY OfProcess
  <1>2. /\ NextCmd(proc[p]) \in Proc /\ PlaceOK(NextCmd(proc[p]))
        /\ NextCmd(proc[p]).at \in {"idle", "open"}
        /\ NextCmd(proc[p]).at # "idle" => proc[p].chain
    BY <1>1, NextCmdIs
  <1>3. /\ ExtractorInv(NextCmd(proc[p])) /\ IngesterInv(NextCmd(proc[p]))
        /\ SkipperInv(NextCmd(proc[p]))
    BY <1>2, Outside
  <1>4. Busy(NextCmd(proc[p])) => Busy(proc[p])
    BY <1>2 DEF Busy, At
  <1> QED BY <1>2, <1>3, <1>4, JustMoves DEF Early

LEMMA IdleKeeps ==
  ASSUME NlmInv, NEW p \in Procs, ~Owes(proc[p]), Move(p, Idle),
         UNCHANGED <<offered, files, status, written, cut, kills, failing>>
  PROVE  NlmInv'
  <1>1. ExtractorInv(Idle) /\ IngesterInv(Idle) /\ SkipperInv(Idle)
    BY IdleIs, Outside
  <1> QED BY <1>1, IdleIs, JustMoves DEF Early

-------------------------------------------------------------------------------
(* Commands begin and open the database.                                   *)

LEMMA BeginKeeps ==
  ASSUME NlmInv, NEW p \in Procs, NEW c \in Commands, Start(p, c) \/ Run(p) \/ Retry(p, c)
  PROVE  NlmInv'
  <1>1. proc[p] \in Proc
    BY OfProcess
  <1>2. PICK r2 \in Proc :
          /\ Move(p, r2) /\ PlaceOK(r2) /\ r2.at \in {"list", "open"}
          /\ r2.chain \/ r2.cmd \in Alone => \A q \in Procs : ~Busy(proc[q])
    <2>1. CASE Start(p, c)
      BY <2>1, BeginIs DEF Start, MayStart
    <2>2. CASE Run(p)
      <3>1. "export" \in Commands /\ "export" \in Phases
        BY DEF Commands, Phases
      <3> QED BY <2>2, <3>1, BeginIs DEF Run, MayStart
    <2>3. CASE Retry(p, c)
      <3> DEFINE r2 == [Idle EXCEPT !.at = "open", !.cmd = c, !.retry = TRUE]
      <3>1. r2 \in Proc /\ r2.at = "open" /\ r2.cmd = c /\ ~r2.chain
        BY DEF Idle, Proc, Commands
      <3>2. PlaceOK(r2)
        BY <2>3, <3>1 DEF PlaceOK, Retry, Stores
      <3> QED BY <2>3, <3>1, <3>2 DEF Retry, MayStart
    <2> QED BY <2>1, <2>2, <2>3
  <1>3. At(p, "idle") /\ UNCHANGED <<offered, files, status, written, cut, kills, failing>>
    BY DEF Start, Run, Retry
  <1>4. ExtractorInv(r2) /\ IngesterInv(r2) /\ SkipperInv(r2)
    BY <1>2, Outside
  <1>5. ~Owes(proc[p]) /\ (Busy(r2) => \A q \in Procs : ~Busy(proc[q]))
    BY <1>2, <1>3 DEF Owes, At, Busy
  <1> QED BY <1>2, <1>3, <1>4, <1>5, JustMoves DEF Early

\* Past the migration a command goes on to its own work.
LEMMA OpenedIs ==
  ASSUME NEW r \in Proc, PlaceOK(r), r.at \in {"open", "unlink"}
  PROVE  /\ Opened(r) \in Proc /\ PlaceOK(Opened(r))
         /\ Opened(r).at \in {"idle", "validate", "register", "select"}
         /\ Busy(Opened(r)) => Busy(r)
  <1>1. CASE r.cmd = "migrate"
    BY <1>1, IdleIs DEF Opened, PlaceOK, Phases
  <1>2. CASE r.cmd # "migrate"
    <2>1. PICK a \in {"validate", "register", "select"} :
            /\ Opened(r) = [r EXCEPT !.at = a]
            /\ a = "validate" => r.retry
            /\ a = "register" => r.cmd = "export"
            /\ a = "select" => r.cmd \in {"transcribe", "extract", "ingest"}
      BY <1>2 DEF Opened, PlaceOK, Commands, Phases
    <2>2. [r EXCEPT !.at = a] \in Proc
      BY DEF Proc
    <2>3. PlaceOK([r EXCEPT !.at = a])
      BY <2>1 DEF PlaceOK, Stores, Proc
    <2>4. Busy([r EXCEPT !.at = a]) => Busy(r)
      BY DEF Busy, Proc
    <2> QED BY <2>1, <2>2, <2>3, <2>4
  <1> QED BY <1>1, <1>2

\* The same place with another name, which concerns nobody.
LEMMA GotoIs ==
  ASSUME NEW r \in Proc, PlaceOK(r), r.at # "idle",
         NEW a \in {"open", "reactivate", "unlink"}
  PROVE  /\ [r EXCEPT !.at = a] \in Proc /\ PlaceOK([r EXCEPT !.at = a])
         /\ [r EXCEPT !.at = a].at = a /\ [r EXCEPT !.at = a].cmd = r.cmd
         /\ Busy([r EXCEPT !.at = a]) => Busy(r)
  BY DEF Proc, PlaceOK, Busy, Stores

\* The old extraction is in its new place: it is not ingested as such before its file
\* is deleted, and that comes after the ingestion is opened again.
LEMMA OpenKeeps ==
  ASSUME NlmInv, NEW p \in Procs, Open(p)
  PROVE  NlmInv'
  <1>1. /\ proc[p] \in Proc /\ PlaceOK(proc[p]) /\ DataOK /\ TypeOK
        /\ proc \in [Procs -> Proc] /\ At(p, "open") /\ ~Owes(proc[p])
    BY OfProcess, TypeIs DEF NlmInv, Open, At, Owes
  <1>2. CASE ~legacy /\ Move(p, Opened(proc[p])) /\ UNCHANGED extraction
    <2>1. UNCHANGED <<offered, files, status, written, cut, kills, failing>>
      BY <1>2 DEF Open, files
    <2>2. /\ Opened(proc[p]) \in Proc /\ PlaceOK(Opened(proc[p]))
          /\ Opened(proc[p]).at \in {"idle", "validate", "register", "select"}
          /\ Busy(Opened(proc[p])) => Busy(proc[p])
      BY <1>1, OpenedIs DEF At
    <2>3. /\ ExtractorInv(Opened(proc[p])) /\ IngesterInv(Opened(proc[p]))
          /\ SkipperInv(Opened(proc[p]))
      BY <2>2, Outside
    <2> QED BY <1>1, <1>2, <2>1, <2>2, <2>3, JustMoves
  <1>3. CASE Move(p, Idle) /\ UNCHANGED extraction
    <2>1. UNCHANGED <<offered, files, status, written, cut, kills, failing>>
      BY <1>3 DEF Open, files
    <2> QED BY <1>1, <1>3, <2>1, IdleKeeps
  <1>4. CASE /\ legacy /\ extraction' = [extraction EXCEPT ![Transcript] = "whole"]
             /\ Goto(p, "reactivate")
    <2> DEFINE r2 == [proc[p] EXCEPT !.at = "reactivate"]
    <2>1. /\ UNCHANGED <<offered, podcast, reports, transcript, legacy, status, written, cut, kills,
                         failing>>
          /\ Move(p, r2)
      BY <1>4 DEF Open, Goto
    <2>2. /\ r2 \in Proc /\ PlaceOK(r2) /\ r2.at = "reactivate" /\ r2.cmd = proc[p].cmd
          /\ Busy(r2) => Busy(proc[p])
      BY <1>1, GotoIs DEF At
    <2>3. /\ proc' \in [Procs -> Proc] /\ proc'[p] = r2
          /\ \A q \in Procs \ {p} : proc'[q] = proc[q]
      BY <1>1, <2>1, <2>2 DEF Move
    <2> HIDE DEF r2
    <2>4. /\ extraction' \in [Sources -> File] /\ Transcript \in Sources
          /\ \A s \in Sources \ {Transcript} : extraction'[s] = extraction[s]
      BY <1>1, <1>4 DEF DataOK, File, Sources
    <2>5. TypeOK'
      BY <1>1, <2>1, <2>3, <2>4 DEF TypeOK
    <2>6. (\A q \in Procs : PlaceOK(proc[q]))'
      BY <2>2, <2>3 DEF NlmInv, PlaceOK
    <2>7. AtMostOneBusy'
      BY <2>2, <2>3 DEF NlmInv, AtMostOneBusy, Busy
    <2>8. (\A s \in Sources : extraction[s] # "none" => s \in OnDisk)'
      <3>1. OnDisk' = OnDisk /\ Transcript \in OnDisk
        BY <1>4, <2>1 DEF OnDisk, NlmInv, LegacyInv
      <3> QED BY <2>4, <3>1 DEF NlmInv
    <2>9. LegacyInv'
      BY <1>1, <2>1, <2>2, <2>3 DEF NlmInv, LegacyInv, At
    <2>10. DebtInv'
      BY <1>1, <2>1, <2>3 DEF NlmInv, DebtInv, Owes
    <2>11. \A q \in Procs : proc'[q].at \in Early
      BY <1>4, <2>2, <2>3 DEF NlmInv, LegacyInv, Early
    <2>12. (\A q \in Procs : ExtractorInv(proc[q]) /\ IngesterInv(proc[q]) /\ SkipperInv(proc[q]))'
      BY <2>11 DEF Early, ExtractorInv, IngesterInv, SkipperInv
    <2>13. ExtractedIsIngested'
      BY <1>4, <2>1, <2>4 DEF NlmInv, ExtractedIsIngested
    <2> QED BY <2>5, <2>6, <2>7, <2>8, <2>9, <2>10, <2>12, <2>13 DEF NlmInv
  <1> QED BY <1>2, <1>3, <1>4 DEF Open

LEMMA ReactivateKeeps ==
  ASSUME NlmInv, NEW p \in Procs, Reactivate(p)
  PROVE  NlmInv'
  <1> DEFINE r2 == [proc[p] EXCEPT !.at = "unlink"]
  <1>1. /\ proc[p] \in Proc /\ PlaceOK(proc[p]) /\ DataOK /\ TypeOK
        /\ proc \in [Procs -> Proc] /\ At(p, "reactivate") /\ ~Owes(proc[p])
    BY OfProcess, TypeIs DEF NlmInv, Reactivate, At, Owes
  <1>2. /\ UNCHANGED <<offered, podcast, reports, transcript, extraction, legacy, written, cut, kills,
                       failing>>
        /\ Move(p, r2)
    BY DEF Reactivate, Goto, files
  <1>3. /\ r2 \in Proc /\ PlaceOK(r2) /\ r2.at = "unlink" /\ r2.cmd = proc[p].cmd
        /\ Busy(r2) => Busy(proc[p])
    BY <1>1, GotoIs DEF At
  <1> HIDE DEF r2
  <1>4. /\ proc' \in [Procs -> Proc] /\ proc'[p] = r2
        /\ \A q \in Procs \ {p} : proc'[q] = proc[q]
    BY <1>1, <1>2, <1>3 DEF Move
  <1>5. /\ status' \in [Phases -> Status] /\ "ingest" \in Phases /\ "extract" \in Phases
        /\ \A ph \in Phases \ {"ingest"} : status'[ph] = status[ph]
        /\ status'["ingest"] # "completed"
        /\ status'["ingest"] \in {status["ingest"], "pending"}
    BY <1>1 DEF DataOK, Reactivate, Put, Phases, Status
  <1>6. TypeOK'
    BY <1>1, <1>2, <1>4, <1>5 DEF TypeOK
  <1>7. (\A q \in Procs : PlaceOK(proc[q]))'
    BY <1>3, <1>4 DEF NlmInv, PlaceOK
  <1>8. AtMostOneBusy'
    BY <1>3, <1>4 DEF NlmInv, AtMostOneBusy, Busy
  <1>9. (\A s \in Sources : extraction[s] # "none" => s \in OnDisk)'
    BY <1>2 DEF NlmInv, OnDisk
  <1>10. LegacyInv'
    BY <1>1, <1>2, <1>3, <1>4, <1>5 DEF NlmInv, LegacyInv, At
  <1>11. DebtInv'
    BY <1>1, <1>2, <1>4, <1>5 DEF NlmInv, DebtInv, Owes, Settled
  <1>12. ASSUME NEW q \in Procs
         PROVE  (ExtractorInv(proc[q]) /\ IngesterInv(proc[q]) /\ SkipperInv(proc[q]))'
    <2>1. PlaceOK(proc'[q]) /\ proc'[q] \in Proc
      BY <1>3, <1>4 DEF NlmInv
    <2>2. ExtractorInv(proc'[q]) /\ IngesterInv(proc'[q]) /\ SkipperInv(proc'[q])
      BY <1>3, <1>4, <2>1, Outside DEF NlmInv
    <2>3. status'["extract"] = status["extract"] /\ (status'["ingest"] \in Settled => status["ingest"] \in Settled)
      BY <1>5 DEF Settled
    <2>4. OnDisk' = OnDisk
      BY <1>2 DEF OnDisk
    <2> QED BY <1>2, <2>2, <2>3, <2>4 DEF ExtractorInv, IngesterInv, SkipperInv, InHand, Delivered
  <1>13. ExtractedIsIngested'
    BY <1>2, <1>5 DEF NlmInv, ExtractedIsIngested, Settled
  <1> QED BY <1>6, <1>7, <1>8, <1>9, <1>10, <1>11, <1>12, <1>13 DEF NlmInv

\* The old file goes when the ingestion is open again: from here on its extraction counts.
LEMMA UnlinkKeeps ==
  ASSUME NlmInv, NEW p \in Procs, Unlink(p)
  PROVE  NlmInv'
  <1>1. /\ proc[p] \in Proc /\ PlaceOK(proc[p]) /\ DataOK /\ TypeOK
        /\ proc \in [Procs -> Proc] /\ At(p, "unlink") /\ ~Owes(proc[p])
    BY OfProcess, TypeIs DEF NlmInv, Unlink, At, Owes
  <1>2. CASE ~legacy
    <2>1. /\ Move(p, Idle) /\ legacy' = FALSE
          /\ UNCHANGED <<offered, podcast, reports, transcript, extraction, status, written, cut, kills, failing>>
      BY <1>2 DEF Unlink
    <2>2. UNCHANGED <<offered, files, status, written, cut, kills, failing>>
      BY <1>1, <1>2, <2>1 DEF files, DataOK
    <2> QED BY <1>1, <2>1, <2>2, IdleKeeps
  <1>3. CASE legacy
    <2> DEFINE r2 == Opened(proc[p])
    <2>1. /\ UNCHANGED <<offered, podcast, reports, transcript, extraction, status, written, cut, kills,
                         failing>>
          /\ legacy' = FALSE /\ Move(p, r2)
      BY <1>3 DEF Unlink
    <2>2. /\ r2 \in Proc /\ PlaceOK(r2) /\ (Busy(r2) => Busy(proc[p]))
          /\ r2.at \in {"idle", "validate", "register", "select"}
      BY <1>1, OpenedIs DEF At
    <2> HIDE DEF r2
    <2>3. /\ proc' \in [Procs -> Proc] /\ proc'[p] = r2
          /\ \A q \in Procs \ {p} : proc'[q] = proc[q]
      BY <1>1, <2>1, <2>2 DEF Move
    <2>4. TypeOK'
      BY <1>1, <2>1, <2>3 DEF TypeOK
    <2>5. (\A q \in Procs : PlaceOK(proc[q]))'
      BY <2>2, <2>3 DEF NlmInv, PlaceOK
    <2>6. AtMostOneBusy'
      BY <2>2, <2>3 DEF NlmInv, AtMostOneBusy, Busy
    <2>7. (\A s \in Sources : extraction[s] # "none" => s \in OnDisk)'
      BY <2>1 DEF NlmInv, OnDisk
    <2>8. LegacyInv'
      BY <2>1 DEF LegacyInv
    <2>9. DebtInv'
      BY <1>1, <2>1, <2>2, <2>3 DEF NlmInv, DebtInv, Owes
    <2>10. \A q \in Procs : proc'[q].at \in Early \cup {"validate", "register", "select"}
      BY <1>3, <2>2, <2>3 DEF NlmInv, LegacyInv, Early
    <2>11. (\A q \in Procs : ExtractorInv(proc[q]) /\ IngesterInv(proc[q]) /\ SkipperInv(proc[q]))'
      BY <2>10 DEF Early, ExtractorInv, IngesterInv, SkipperInv
    <2>12. ExtractedIsIngested'
      BY <1>1, <1>3, <2>1 DEF NlmInv, LegacyInv, ExtractedIsIngested, Settled
    <2> QED BY <2>4, <2>5, <2>6, <2>7, <2>8, <2>9, <2>11, <2>12 DEF NlmInv
  <1> QED BY <1>2, <1>3

\* A retry asks for the phase before it, then takes its turn, or does not.
LEMMA ValidateKeeps ==
  ASSUME NlmInv, NEW p \in Procs, Validate(p)
  PROVE  NlmInv'
  <1>1. /\ proc[p] \in Proc /\ PlaceOK(proc[p]) /\ At(p, "validate") /\ ~Owes(proc[p]) /\ ~legacy
    BY OfProcess DEF Validate, At, Owes, Early
  <1>2. UNCHANGED <<offered, files, status, written, cut, kills, failing>>
    BY DEF Validate
  <1>3. CASE Move(p, Idle)
    BY <1>1, <1>2, <1>3, IdleKeeps
  <1>4. CASE Move(p, [proc[p] EXCEPT !.at = "attempt"])
    <2> DEFINE r2 == [proc[p] EXCEPT !.at = "attempt"]
    <2>1. r2 \in Proc /\ PlaceOK(r2) /\ r2.at = "attempt" /\ (Busy(r2) => Busy(proc[p]))
      BY <1>1 DEF Proc, PlaceOK, Busy, Stores, At
    <2>2. ExtractorInv(r2) /\ IngesterInv(r2) /\ SkipperInv(r2)
      BY <2>1, Outside
    <2> HIDE DEF r2
    <2>3. Move(p, r2)
      BY <1>4 DEF r2
    <2> QED BY <1>1, <1>2, <2>1, <2>2, <2>3, JustMoves
  <1> QED BY <1>3, <1>4 DEF Validate

LEMMA AttemptKeeps ==
  ASSUME NlmInv, NEW p \in Procs, Attempt(p)
  PROVE  NlmInv'
  <1>1. /\ proc[p] \in Proc /\ PlaceOK(proc[p]) /\ DataOK /\ At(p, "attempt") /\ ~Owes(proc[p])
        /\ ~legacy /\ proc[p].retry
    BY OfProcess DEF Attempt, At, Owes, Early, PlaceOK
  <1>2. CASE UNCHANGED status /\ Move(p, Idle)
    BY <1>1, <1>2, IdleKeeps DEF Attempt
  <1>3. CASE status[proc[p].cmd] = "failed" /\ Put(proc[p].cmd, "running") /\ Move(p, Begin(proc[p].cmd, FALSE))
    <2> DEFINE c == proc[p].cmd
               r2 == Begin(c, FALSE)
    <2>1. c \in Phases /\ c \in Commands
      BY <1>1 DEF PlaceOK, Commands
    <2>2. /\ r2 \in Proc /\ PlaceOK(r2) /\ r2.at \in {"list", "open"} /\ r2.cmd = c /\ r2.chain = FALSE
      BY <2>1, BeginIs
    <2>3. ExtractorInv(r2) /\ IngesterInv(r2) /\ SkipperInv(r2)
      BY <2>2, Outside
    <2>4. Busy(r2) => Busy(proc[p])
      BY <1>1, <2>2 DEF Busy, At
    <2>5. UNCHANGED <<offered, podcast, reports, transcript, extraction, legacy, written, cut, kills,
                      failing>>
      BY DEF Attempt, files
    <2> HIDE DEF r2
    <2>6. /\ status' \in [Phases -> Status] /\ status'[c] = "running"
          /\ \A ph \in Phases \ {c} : status'[ph] = status[ph]
      BY <1>1, <1>3, <2>1 DEF DataOK, Put, Status
    <2>7. DataOK' /\ OnDisk' = OnDisk
      BY <1>1, <2>5, <2>6 DEF DataOK, OnDisk
    <2>8. status'["extract"] \in Settled <=> status["extract"] \in Settled
      BY <1>3, <2>6 DEF Settled, Phases
    <2>9. status'["ingest"] \in Settled => status["ingest"] \in Settled
      BY <1>3, <2>6 DEF Settled, Phases
    <2>10. Move(p, r2)
      BY <1>3 DEF r2
    <2> QED BY <1>1, <2>2, <2>3, <2>4, <2>5, <2>7, <2>8, <2>9, <2>10, Quiet
  <1> QED BY <1>2, <1>3 DEF Attempt

-------------------------------------------------------------------------------
(* Export.                                                                 *)

\* A step within the export that keeps what is extracted, and the statuses of extract and
\* ingest, as they were.
LEMMA ExportMoves ==
  ASSUME NlmInv, NEW p \in Procs, NEW r2 \in Proc, Move(p, r2), DataOK',
         UNCHANGED <<extraction, legacy, written, cut>>, OnDisk \subseteq OnDisk',
         ~At(p, "idle"), ~Owes(proc[p]), PlaceOK(r2),
         r2.cmd = proc[p].cmd, r2.chain = proc[p].chain,
         r2.at \notin {"load", "running", "plan", "work", "flush", "neo4j", "qdrant", "finish", "skip"},
         status'["extract"] \in Settled <=> status["extract"] \in Settled,
         status'["ingest"] \in Settled => status["ingest"] \in Settled,
         legacy => /\ status' = status /\ transcript' = transcript
                   /\ r2.at \in Early \ {"unlink"}
  PROVE  NlmInv'
  <1>1. ExtractorInv(r2) /\ IngesterInv(r2) /\ SkipperInv(r2)
    BY Outside
  <1>2. Busy(r2) => Busy(proc[p])
    BY DEF Busy, At
  <1> QED BY <1>1, <1>2, Quiet

\* Downloads.
LEMMA DownloadKeeps ==
  ASSUME NlmInv, NEW p \in Procs, List(p) \/ ListReports(p) \/ Fetch(p)
  PROVE  NlmInv'
  <1>1. proc[p] \in Proc /\ PlaceOK(proc[p]) /\ DataOK
    BY OfProcess
  <1>2. CASE List(p)
    <2> DEFINE r2 == [proc[p] EXCEPT !.at = "reports", !.audio = IF podcast' THEN "downloaded" ELSE "absent"]
    <2>1. At(p, "list") /\ Move(p, r2) /\ podcast' \in BOOLEAN
          /\ UNCHANGED <<offered, reports, transcript, extraction, legacy, status, written, cut, kills, failing>>
      BY <1>1, <1>2 DEF List, DataOK
    <2>2. /\ r2 \in Proc /\ PlaceOK(r2) /\ r2.at = "reports"
          /\ r2.cmd = proc[p].cmd /\ r2.chain = proc[p].chain
      BY <1>1, <2>1, ZenonT(30) DEF Proc, PlaceOK, At, Stores
    <2>3. DataOK' /\ OnDisk' = OnDisk
      BY <1>1, <2>1 DEF DataOK, OnDisk
    <2> HIDE DEF r2
    <2> QED BY <2>1, <2>2, <2>3, ExportMoves DEF At, Owes, Early
  <1>3. CASE ListReports(p)
    <2> DEFINE r2 == [proc[p] EXCEPT !.at = "fetch", !.todo = (offered \cap Reports) \ reports]
    <2>1. /\ At(p, "reports") /\ Move(p, r2)
          /\ UNCHANGED <<offered, podcast, reports, transcript, extraction, legacy, status, written, cut, kills, failing>>
      BY <1>3 DEF ListReports, files
    <2>2. /\ r2 \in Proc /\ PlaceOK(r2) /\ r2.at = "fetch"
          /\ r2.cmd = proc[p].cmd /\ r2.chain = proc[p].chain
      BY <1>1, <2>1, ZenonT(30) DEF Proc, PlaceOK, At, Stores, Sources
    <2>3. DataOK' /\ OnDisk' = OnDisk
      BY <1>1, <2>1 DEF DataOK, OnDisk
    <2> HIDE DEF r2
    <2> QED BY <2>1, <2>2, <2>3, ExportMoves DEF At, Owes, Early
  <1>4. CASE Fetch(p)
    <2>1. /\ At(p, "fetch")
          /\ UNCHANGED <<offered, podcast, transcript, extraction, legacy, status, written, cut, kills, failing>>
      BY <1>4 DEF Fetch
    <2>2. CASE proc[p].todo = {} /\ Goto(p, "open") /\ UNCHANGED reports
      <3> DEFINE r2 == [proc[p] EXCEPT !.at = "open"]
      <3>1. /\ r2 \in Proc /\ PlaceOK(r2) /\ r2.at = "open"
            /\ r2.cmd = proc[p].cmd /\ r2.chain = proc[p].chain
        BY <1>1, <2>1 DEF Proc, PlaceOK, At, Stores
      <3>2. DataOK' /\ OnDisk' = OnDisk /\ Move(p, r2)
        BY <1>1, <2>1, <2>2 DEF DataOK, OnDisk, Goto
      <3> HIDE DEF r2
      <3> QED BY <2>1, <3>1, <3>2, ExportMoves DEF At, Owes, Early
    <2>3. CASE \E s \in proc[p].todo : /\ reports' = reports \cup {s}
                                       /\ Move(p, [proc[p] EXCEPT !.todo = @ \ {s}])
      <3> PICK s \in proc[p].todo : /\ reports' = reports \cup {s}
                                    /\ Move(p, [proc[p] EXCEPT !.todo = @ \ {s}])
        BY <2>3
      <3> DEFINE r2 == [proc[p] EXCEPT !.todo = @ \ {s}]
      <3>1. /\ r2 \in Proc /\ PlaceOK(r2) /\ r2.at = "fetch"
            /\ r2.cmd = proc[p].cmd /\ r2.chain = proc[p].chain
        BY <1>1, <2>1 DEF Proc, PlaceOK, At, Stores
      <3>2. DataOK' /\ OnDisk \subseteq OnDisk' /\ Move(p, r2)
        BY <1>1, <2>1 DEF DataOK, OnDisk, PlaceOK, At
      <3> HIDE DEF r2
      <3> QED BY <2>1, <3>1, <3>2, ExportMoves DEF At, Owes, Early
    <2> QED BY <2>2, <2>3, <1>4 DEF Fetch
  <1> QED BY <1>2, <1>3, <1>4

\* A download that fails, or a listing.
LEMMA ExportFailsKeeps ==
  ASSUME NlmInv, NEW p \in Procs, ExportFails(p)
  PROVE  NlmInv'
  <1> DEFINE r == proc[p]
             r1 == [r EXCEPT !.at = "reports", !.audio = "failed"]
             r2 == [r EXCEPT !.at = "open", !.complete = FALSE]
             r3(s) == [r EXCEPT !.todo = @ \ {s}, !.complete = FALSE]
  <1>1. r \in Proc /\ PlaceOK(r) /\ DataOK
    BY OfProcess
  <1>2. UNCHANGED <<offered, files, status, written, cut, kills, failing>>
    BY DEF ExportFails
  <1>3. DataOK' /\ OnDisk' = OnDisk /\ UNCHANGED <<transcript, extraction, legacy>>
    BY <1>1, <1>2 DEF DataOK, OnDisk, files
  <1>4. CASE At(p, "list") /\ Move(p, Idle)
    BY <1>2, <1>4, IdleKeeps DEF Owes, At
  <1>5. CASE At(p, "list") /\ Move(p, r1)
    <2>1. /\ r1 \in Proc /\ PlaceOK(r1) /\ r1.at = "reports" /\ r1.cmd = r.cmd /\ r1.chain = r.chain
      BY <1>1, <1>5, ZenonT(30) DEF Proc, PlaceOK, At, Stores
    <2> HIDE DEF r1
    <2> QED BY <1>2, <1>3, <1>5, <2>1, ExportMoves DEF At, Owes, Early
  <1>6. CASE At(p, "reports") /\ Move(p, r2)
    <2>1. /\ r2 \in Proc /\ PlaceOK(r2) /\ r2.at = "open" /\ r2.cmd = r.cmd /\ r2.chain = r.chain
      BY <1>1, <1>6, ZenonT(30) DEF Proc, PlaceOK, At, Stores
    <2> HIDE DEF r2
    <2> QED BY <1>2, <1>3, <1>6, <2>1, ExportMoves DEF At, Owes, Early
  <1>7. CASE At(p, "fetch") /\ \E s \in r.todo : Move(p, r3(s))
    <2>1. PICK s \in r.todo : Move(p, r3(s))
      BY <1>7
    <2>2. /\ r3(s) \in Proc /\ PlaceOK(r3(s)) /\ r3(s).at = "fetch" /\ r3(s).cmd = r.cmd
          /\ r3(s).chain = r.chain
      BY <1>1, <1>7 DEF Proc, PlaceOK, At, Stores
    <2> HIDE DEF r3
    <2> QED BY <1>2, <1>3, <1>7, <2>1, <2>2, ExportMoves DEF At, Owes, Early
  <1> QED BY <1>4, <1>5, <1>6, <1>7 DEF ExportFails

\* One status is set.
LEMMA PutIs ==
  ASSUME NlmInv, NEW ph \in Phases, NEW st \in Status, Put(ph, st),
         UNCHANGED <<offered, files, written, cut, kills, failing>>
  PROVE  /\ DataOK' /\ OnDisk' = OnDisk /\ status'[ph] = st
         /\ \A x \in Phases \ {ph} : status'[x] = status[x]
         /\ UNCHANGED <<transcript, extraction, legacy, written, cut>>
  BY TypeIs DEF NlmInv, DataOK, OnDisk, files, Put

\* A status is set that settles nothing of extract and ingest.
LEMMA PutKeeps ==
  ASSUME NlmInv, NEW p \in Procs, NEW r2 \in Proc, Move(p, r2), ~legacy,
         NEW ph \in Phases, NEW st \in Status, Put(ph, st),
         UNCHANGED <<offered, files, written, cut, kills, failing>>,
         PlaceOK(r2), Busy(r2) => Busy(proc[p]),
         ExtractorInv(r2), IngesterInv(r2), SkipperInv(r2),
         ph = "extract" => (st \in Settled <=> status["extract"] \in Settled),
         ph = "ingest" => st \notin Settled,
         Owes(proc[p]) => Owes(r2) \/ ph = "ingest" \/ status["ingest"] \notin Settled \/ cut
  PROVE  NlmInv'
  <1>1. /\ DataOK' /\ OnDisk' = OnDisk /\ status'[ph] = st
        /\ \A x \in Phases \ {ph} : status'[x] = status[x]
        /\ UNCHANGED <<transcript, extraction, legacy, written, cut>>
    BY PutIs
  <1>2. status'["extract"] \in Settled <=> status["extract"] \in Settled
    BY <1>1 DEF Phases
  <1>3. status'["ingest"] \in Settled => status["ingest"] \in Settled
    BY <1>1 DEF Phases
  <1>4. Owes(proc[p]) => Owes(r2) \/ status'["ingest"] \notin Settled \/ cut'
    BY <1>1 DEF Phases
  <1> QED BY <1>1, <1>2, <1>3, <1>4, Quiet

\* The statuses the export sets.
LEMMA RegisterKeeps ==
  ASSUME NlmInv, NEW p \in Procs, Register(p)
  PROVE  NlmInv'
  <1>1. proc[p] \in Proc /\ PlaceOK(proc[p]) /\ DataOK /\ At(p, "register") /\ ~legacy
    BY OfProcess DEF Register, At, Early
  <1>2. CASE /\ status' = [ph \in Phases |-> IF status[ph] = "unknown" THEN "pending" ELSE status[ph]]
             /\ Goto(p, "exported")
    <2> DEFINE r2 == [proc[p] EXCEPT !.at = "exported"]
    <2>1. /\ r2 \in Proc /\ PlaceOK(r2) /\ r2.at = "exported" /\ r2.cmd = proc[p].cmd
          /\ r2.chain = proc[p].chain
      BY <1>1 DEF Proc, PlaceOK, At, Stores
    <2>2. Move(p, r2) /\ UNCHANGED <<offered, files, written, cut, kills, failing>>
      BY <1>2 DEF Register, Goto
    <2> HIDE DEF r2
    <2>3. /\ status' \in [Phases -> Status]
          /\ status'["extract"] \in Settled <=> status["extract"] \in Settled
      BY <1>1, <1>2 DEF DataOK, Status, Settled, Phases
    <2>4. status'["ingest"] \in Settled => status["ingest"] \in Settled
      BY <1>1, <1>2 DEF DataOK, Status, Settled, Phases
    <2>5. DataOK' /\ OnDisk' = OnDisk /\ UNCHANGED <<transcript, extraction, legacy>>
      BY <1>1, <2>2, <2>3 DEF DataOK, OnDisk, files
    <2> QED BY <1>1, <2>1, <2>2, <2>3, <2>4, <2>5, ExportMoves DEF At, Owes
  <1>3. CASE Move(p, NextCmd(proc[p])) /\ UNCHANGED status
    BY <1>1, <1>3, NextCmdKeeps DEF Register, At, Owes
  <1> QED BY <1>2, <1>3 DEF Register

LEMMA ExportedKeeps ==
  ASSUME NlmInv, NEW p \in Procs, Exported(p) \/ NoAudio(p)
  PROVE  NlmInv'
  <1>1. /\ proc[p] \in Proc /\ PlaceOK(proc[p]) /\ ~legacy
        /\ proc[p].at \in {"exported", "noaudio"}
    BY OfProcess DEF Exported, NoAudio, At, Early
  <1>2. PICK a \in {"noaudio", "reconcile"}, ph \in {"export", "transcribe"}, st \in Status :
          Move(p, [proc[p] EXCEPT !.at = a]) /\ Put(ph, st)
    <2>1. CASE Exported(p)
      <3>1. "completed" \in Status /\ "failed" \in Status
        BY DEF Status
      <3> QED BY <2>1, <3>1 DEF Exported, Goto
    <2>2. CASE NoAudio(p)
      <3>1. "skipped" \in Status
        BY DEF Status
      <3> QED BY <2>2, <3>1 DEF NoAudio, Goto
    <2> QED BY <2>1, <2>2
  <1> DEFINE r2 == [proc[p] EXCEPT !.at = a]
  <1>3. /\ r2 \in Proc /\ PlaceOK(r2) /\ r2.at = a /\ r2.cmd = proc[p].cmd
        /\ r2.chain = proc[p].chain
    BY <1>1 DEF Proc, PlaceOK, Stores
  <1>4. Move(p, r2) /\ UNCHANGED <<offered, files, written, cut, kills, failing>>
    BY <1>2 DEF Exported, NoAudio
  <1> HIDE DEF r2
  <1>5. ExtractorInv(r2) /\ IngesterInv(r2) /\ SkipperInv(r2)
    BY <1>3, Outside
  <1>6. ph \in Phases /\ ph \notin {"extract", "ingest"}
    BY DEF Phases
  <1>7. (Busy(r2) => Busy(proc[p])) /\ ~Owes(proc[p])
    BY <1>1, <1>3 DEF Busy, Owes
  <1> QED BY <1>1, <1>2, <1>3, <1>4, <1>5, <1>6, <1>7, PutKeeps

LEMMA ReconcileKeeps ==
  ASSUME NlmInv, NEW p \in Procs, Reconcile(p)
  PROVE  NlmInv'
  <1>1. /\ proc[p] \in Proc /\ PlaceOK(proc[p]) /\ ~legacy /\ At(p, "reconcile")
    BY OfProcess DEF Reconcile, At, Early
  <1>2. PICK r2 \in Proc : /\ Move(p, r2) /\ PlaceOK(r2) /\ r2.at \in {"reopen", "inventory"}
                           /\ r2.cmd = proc[p].cmd /\ r2.chain = proc[p].chain
    <2> DEFINE ra == [proc[p] EXCEPT !.at = "reopen", !.phase = "transcribe"]
               rb == [proc[p] EXCEPT !.at = "inventory"]
    <2>1. /\ ra \in Proc /\ PlaceOK(ra) /\ ra.at = "reopen"
          /\ ra.cmd = proc[p].cmd /\ ra.chain = proc[p].chain
      BY <1>1, ZenonT(30) DEF Proc, PlaceOK, At, Stores, Phases
    <2>2. /\ rb \in Proc /\ PlaceOK(rb) /\ rb.at = "inventory"
          /\ rb.cmd = proc[p].cmd /\ rb.chain = proc[p].chain
      BY <1>1 DEF Proc, PlaceOK, At, Stores
    <2>3. Move(p, ra) \/ Move(p, rb)
      BY DEF Reconcile
    <2> HIDE DEF ra, rb
    <2> QED BY <2>1, <2>2, <2>3
  <1>3. ExtractorInv(r2) /\ IngesterInv(r2) /\ SkipperInv(r2)
    BY <1>2, Outside
  <1>4. (Busy(r2) => Busy(proc[p])) /\ ~Owes(proc[p])
    BY <1>1, <1>2 DEF Busy, Owes, At
  <1> QED BY <1>1, <1>2, <1>3, <1>4, JustMoves DEF Reconcile

\* An export at another place, or with another phase.
Placed(r, a, ph) == [r EXCEPT !.at = a, !.phase = ph]

LEMMA ExportPlace ==
  ASSUME NEW r \in Proc, PlaceOK(r), r.cmd = "export", r.at # "idle",
         NEW a \in {"reopen", "inventory", "repair", "skip", "guard", "renew"}, NEW ph \in Phases,
         a \in {"reopen", "repair", "skip"} => ph \in {"transcribe", "extract", "ingest"},
         a \in {"guard", "renew"} => ph \in {"extract", "ingest"}
  PROVE  /\ Placed(r, a, ph) \in Proc
         /\ PlaceOK(Placed(r, a, ph))
         /\ Placed(r, a, ph).at = a
         /\ Placed(r, a, ph).phase = ph
         /\ Placed(r, a, ph).cmd = "export"
         /\ Busy(Placed(r, a, ph)) => Busy(r)
         /\ a # "skip" => SkipperInv(Placed(r, a, ph))
         /\ ExtractorInv(Placed(r, a, ph))
         /\ IngesterInv(Placed(r, a, ph))
  <1> DEFINE r2 == Placed(r, a, ph)
  <1>1. r2 \in Proc /\ r2.at = a /\ r2.phase = ph /\ r2.cmd = r.cmd /\ r2.chain = r.chain /\ r2.retry = r.retry
    BY ZenonT(30) DEF Proc, Placed
  <1> HIDE DEF r2
  <1>2. PlaceOK(r2)
    BY <1>1 DEF PlaceOK, Stores
  <1>3. Busy(r2) => Busy(r)
    BY <1>1 DEF Busy
  <1>4. (a # "skip" => SkipperInv(r2)) /\ ExtractorInv(r2) /\ IngesterInv(r2)
    BY <1>1 DEF SkipperInv, ExtractorInv, IngesterInv
  <1> QED BY <1>1, <1>2, <1>3, <1>4 DEF r2

\* An export that writes the status of extract or ingest.
LEMMA ExportPuts ==
  ASSUME NlmInv, Sequential, NEW p \in Procs, NEW r2 \in Proc, Move(p, r2),
         proc[p].at \in {"reopen", "repair", "skip", "guard", "renew"},
         NEW ph \in {"extract", "ingest"}, NEW st \in Status, Put(ph, st),
         UNCHANGED <<offered, files, written, cut, kills, failing>>, PlaceOK(r2),
         r2.at \in {"idle", "open"} \/ r2.cmd = "export",
         r2.at = "skip" => /\ \A s \in Sources : extraction[s] = "none"
                           /\ r2.phase = "ingest" => ph = "extract" /\ st \in Settled,
         ph = "extract" => Owes(r2) \/ st \in Settled,
         ph = "ingest" => st \notin Settled \/ ( /\ status["extract"] \in Settled
                                                 /\ \A s \in Sources : extraction[s] = "none" )
  PROVE  NlmInv'
  <1>1. proc[p] \in Proc /\ PlaceOK(proc[p]) /\ ~legacy /\ proc \in [Procs -> Proc]
    BY OfProcess, TypeIs DEF Early, NlmInv
  <1>2. Busy(proc[p])
    BY <1>1, BusyOrFree DEF PlaceOK
  <1>3. /\ DataOK' /\ OnDisk' = OnDisk /\ status'[ph] = st
        /\ \A x \in Phases \ {ph} : status'[x] = status[x]
        /\ UNCHANGED <<transcript, extraction, legacy, written, cut>>
    BY PutIs DEF Phases
  <1>4. (\A s \in Sources : extraction[s] # "none" => s \in OnDisk)'
    BY <1>3 DEF NlmInv
  <1>5. status'["extract"] \notin Settled /\ status'["ingest"] \in Settled => cut' \/ Owes(r2)
    <2>1. CASE ph = "extract"
      BY <1>3, <2>1
    <2>2. CASE ph = "ingest"
      BY <1>3, <2>2 DEF Phases
    <2> QED BY <2>1, <2>2
  <1>6. ExtractedIsIngested'
    <2>1. CASE ph = "extract"
      BY <1>3, <2>1 DEF NlmInv, ExtractedIsIngested, Phases
    <2>2. CASE ph = "ingest"
      BY <1>3, <2>2 DEF ExtractedIsIngested
    <2> QED BY <2>1, <2>2
  <1>7. proc'[p] = r2
    BY <1>1 DEF Move
  <1>8. ExtractorInv(proc[p])' /\ IngesterInv(proc[p])' /\ SkipperInv(proc[p])'
    BY <1>3, <1>7 DEF ExtractorInv, IngesterInv, SkipperInv, Phases
  <1> QED BY <1>1, <1>2, <1>3, <1>4, <1>5, <1>6, <1>8, Lonely

\* An audio that appeared: extract and ingest are opened again one after the other, and
\* between the two the ingestion is owed.
LEMMA ReopenKeeps ==
  ASSUME NlmInv, Sequential, NEW p \in Procs, Reopen(p)
  PROVE  NlmInv'
  <1> DEFINE r == proc[p]
             r1 == Placed(r, "reopen", "extract")
             r2 == Placed(r, "reopen", "ingest")
             r3 == Placed(r, "inventory", "ingest")
  <1>1. /\ r \in Proc /\ PlaceOK(r) /\ ~legacy /\ At(p, "reopen") /\ r.cmd = "export"
        /\ r.phase \in {"transcribe", "extract", "ingest"} /\ r.at = "reopen"
    BY OfProcess DEF Reopen, At, Early, PlaceOK
  <1>2. Put(r.phase, "pending") /\ UNCHANGED <<offered, files, written, cut, kills, failing>>
    BY DEF Reopen
  <1>3. "pending" \in Status /\ "pending" \notin Settled
    BY DEF Status, Settled
  <1>4. CASE r.phase = "transcribe"
    <2>1. r1 = [r EXCEPT !.phase = "extract"] /\ Move(p, r1)
      BY <1>1, <1>4 DEF Reopen, Proc, Placed
    <2>2. /\ r1 \in Proc /\ PlaceOK(r1) /\ (Busy(r1) => Busy(r))
          /\ ExtractorInv(r1) /\ IngesterInv(r1) /\ SkipperInv(r1)
      BY <1>1, ExportPlace DEF Phases
    <2>3. ~Owes(r) /\ r.phase \in Phases /\ r.phase \notin {"extract", "ingest"}
      BY <1>4 DEF Owes, Phases
    <2> QED BY <1>1, <1>2, <1>3, <2>1, <2>2, <2>3, PutKeeps
  <1>5. CASE r.phase = "extract"
    <2>1. r2 = [r EXCEPT !.phase = "ingest"] /\ Move(p, r2)
      BY <1>1, <1>5 DEF Reopen, Proc, Placed
    <2>2. r2 \in Proc /\ PlaceOK(r2) /\ r2.at = "reopen" /\ r2.phase = "ingest" /\ r2.cmd = "export"
      BY <1>1, ExportPlace DEF Phases
    <2>3. Owes(r2)
      BY <2>2 DEF Owes
    <2> QED BY <1>1, <1>2, <1>3, <1>5, <2>1, <2>2, <2>3, ExportPuts
  <1>6. CASE r.phase = "ingest"
    <2>1. r3 = [r EXCEPT !.at = "inventory"] /\ Move(p, r3)
      BY <1>1, <1>6 DEF Reopen, Proc, Placed
    <2>2. r3 \in Proc /\ PlaceOK(r3) /\ r3.at = "inventory" /\ r3.cmd = "export"
      BY <1>1, ExportPlace DEF Phases
    <2> QED BY <1>1, <1>2, <1>3, <1>6, <2>1, <2>2, ExportPuts
  <1> QED BY <1>1, <1>4, <1>5, <1>6

\* What the reconciliation finds on disk.
LEMMA InventoryKeeps ==
  ASSUME NlmInv, NEW p \in Procs, Inventory(p)
  PROVE  NlmInv'
  <1> DEFINE r == proc[p]
             r1 == Placed(r, "repair", "extract")
             r2 == Placed(r, "skip", "transcribe")
             r3 == Placed(r, "guard", "extract")
  <1>1. /\ r \in Proc /\ PlaceOK(r) /\ ~legacy /\ At(p, "inventory") /\ r.cmd = "export"
        /\ r.at = "inventory" /\ ~Owes(r) /\ DataOK
    BY OfProcess DEF Inventory, At, Early, PlaceOK, Owes
  <1>2. UNCHANGED <<offered, files, status, written, cut, kills, failing>>
    BY DEF Inventory
  <1>3. CASE Move(p, r1)
    <2>1. /\ r1 \in Proc /\ PlaceOK(r1) /\ (Busy(r1) => Busy(r))
          /\ ExtractorInv(r1) /\ IngesterInv(r1) /\ SkipperInv(r1)
      BY <1>1, ExportPlace DEF Phases
    <2> QED BY <1>1, <1>2, <1>3, <2>1, JustMoves
  <1>4. CASE OnDisk = {} /\ Move(p, r2)
    <2>1. /\ r2 \in Proc /\ PlaceOK(r2) /\ (Busy(r2) => Busy(r))
          /\ ExtractorInv(r2) /\ IngesterInv(r2) /\ r2.phase = "transcribe"
      BY <1>1, ExportPlace DEF Phases
    <2>2. SkipperInv(r2)
      BY <1>4, <2>1 DEF SkipperInv, NlmInv
    <2> QED BY <1>1, <1>2, <1>4, <2>1, <2>2, JustMoves
  <1>5. CASE Move(p, r3)
    <2>1. /\ r3 \in Proc /\ PlaceOK(r3) /\ (Busy(r3) => Busy(r))
          /\ ExtractorInv(r3) /\ IngesterInv(r3) /\ SkipperInv(r3)
      BY <1>1, ExportPlace DEF Phases
    <2> QED BY <1>1, <1>2, <1>5, <2>1, JustMoves
  <1>6. CASE Move(p, NextCmd(r))
    BY <1>1, <1>2, <1>6, NextCmdKeeps DEF At
  <1> QED BY <1>3, <1>4, <1>5, <1>6 DEF Inventory, Placed

\* A torn transcript: extract fails, and then the ingestion is opened.
LEMMA RepairKeeps ==
  ASSUME NlmInv, Sequential, NEW p \in Procs, Repair(p)
  PROVE  NlmInv'
  <1> DEFINE r == proc[p]
             r1 == Placed(r, "repair", "ingest")
             r2 == Placed(r, "repair", "transcribe")
  <1>1. /\ r \in Proc /\ PlaceOK(r) /\ ~legacy /\ At(p, "repair") /\ r.cmd = "export"
        /\ r.phase \in {"transcribe", "extract", "ingest"} /\ r.at = "repair"
    BY OfProcess DEF Repair, At, Early, PlaceOK
  <1>2. UNCHANGED <<offered, files, written, cut, kills, failing>>
    BY DEF Repair
  <1>3. {"pending", "failed"} \subseteq Status \ Settled
    BY DEF Status, Settled
  <1>4. /\ NextCmd(r) \in Proc /\ PlaceOK(NextCmd(r)) /\ NextCmd(r).at \in {"idle", "open"}
        /\ Busy(NextCmd(r)) => Busy(r)
    BY <1>1, NextCmdIs DEF Busy
  <1>5. CASE r.phase = "extract"
    <2>1. r1 = [r EXCEPT !.phase = "ingest"] /\ Move(p, r1) /\ Put("extract", "failed")
      BY <1>1, <1>5 DEF Repair, Proc, Placed
    <2>2. r1 \in Proc /\ PlaceOK(r1) /\ r1.at = "repair" /\ r1.phase = "ingest" /\ r1.cmd = "export"
      BY <1>1, ExportPlace DEF Phases
    <2>3. Owes(r1)
      BY <2>2 DEF Owes
    <2> QED BY <1>1, <1>2, <1>3, <2>1, <2>2, <2>3, ExportPuts
  <1>6. CASE r.phase = "ingest"
    <2>1. Put("ingest", "pending") /\ (Move(p, r2) \/ Move(p, NextCmd(r)))
      <3>1. [r EXCEPT !.phase = "transcribe"] = r2
        BY <1>1 DEF Proc, Placed
      <3> QED BY <1>1, <1>6, <3>1 DEF Repair
    <2>2. r2 \in Proc /\ PlaceOK(r2) /\ r2.at = "repair" /\ r2.cmd = "export"
      BY <1>1, ExportPlace DEF Phases
    <2>3. CASE Move(p, r2)
      BY <1>1, <1>2, <1>3, <2>1, <2>2, <2>3, ExportPuts
    <2>4. CASE Move(p, NextCmd(r))
      <3>1. NextCmd(r).at # "skip"
        BY <1>4
      <3> QED BY <1>1, <1>2, <1>3, <1>4, <2>1, <2>4, <3>1, ExportPuts
    <2> QED BY <2>1, <2>3, <2>4
  <1>7. CASE r.phase = "transcribe"
    <2>1. Put("transcribe", "pending") /\ Move(p, NextCmd(r))
      BY <1>1, <1>7 DEF Repair
    <2>2. ExtractorInv(NextCmd(r)) /\ IngesterInv(NextCmd(r)) /\ SkipperInv(NextCmd(r))
      BY <1>4, Outside
    <2>3. ~Owes(r) /\ "transcribe" \in Phases
      BY <1>7 DEF Owes, Phases
    <2> QED BY <1>1, <1>2, <1>3, <1>4, <2>1, <2>2, <2>3, PutKeeps
  <1> QED BY <1>1, <1>5, <1>6, <1>7

\* A notebook without any source: its phases are skipped in their order.
LEMMA SkipKeeps ==
  ASSUME NlmInv, Sequential, NEW p \in Procs, Skip(p)
  PROVE  NlmInv'
  <1> DEFINE r == proc[p]
             r1 == Placed(r, "skip", "extract")
             r2 == Placed(r, "skip", "ingest")
  <1>1. /\ r \in Proc /\ PlaceOK(r) /\ ~legacy /\ r.cmd = "export"
        /\ r.phase \in {"transcribe", "extract", "ingest"} /\ r.at = "skip" /\ ~Owes(r)
        /\ \A s \in Sources : extraction[s] = "none"
        /\ r.phase = "ingest" => status["extract"] \in Settled
    BY OfProcess DEF Skip, At, Early, PlaceOK, SkipperInv, Owes
  <1>2. Put(r.phase, "skipped") /\ UNCHANGED <<offered, files, written, cut, kills, failing>>
    BY DEF Skip
  <1>3. "skipped" \in Status /\ "skipped" \in Settled
    BY DEF Status, Settled
  <1>4. CASE r.phase = "transcribe"
    <2>1. r1 = [r EXCEPT !.phase = "extract"] /\ Move(p, r1)
      BY <1>1, <1>4 DEF Skip, Proc, Placed
    <2>2. /\ r1 \in Proc /\ PlaceOK(r1) /\ (Busy(r1) => Busy(r)) /\ r1.phase = "extract"
          /\ ExtractorInv(r1) /\ IngesterInv(r1)
      BY <1>1, ExportPlace DEF Phases
    <2>3. SkipperInv(r1)
      BY <1>1, <2>2 DEF SkipperInv
    <2>4. r.phase \in Phases /\ r.phase \notin {"extract", "ingest"}
      BY <1>4 DEF Phases
    <2> QED BY <1>1, <1>2, <1>3, <2>1, <2>2, <2>3, <2>4, PutKeeps
  <1>5. CASE r.phase = "extract"
    <2>1. r2 = [r EXCEPT !.phase = "ingest"] /\ Move(p, r2)
      BY <1>1, <1>5 DEF Skip, Proc, Placed
    <2>2. r2 \in Proc /\ PlaceOK(r2) /\ r2.at = "skip" /\ r2.phase = "ingest" /\ r2.cmd = "export"
      BY <1>1, ExportPlace DEF Phases
    <2> QED BY <1>1, <1>2, <1>3, <1>5, <2>1, <2>2, ExportPuts
  <1>6. CASE r.phase = "ingest"
    <2>1. Move(p, NextCmd(r))
      BY <1>1, <1>6 DEF Skip
    <2>2. /\ NextCmd(r) \in Proc /\ PlaceOK(NextCmd(r)) /\ NextCmd(r).at \in {"idle", "open"}
      BY <1>1, NextCmdIs
    <2> QED BY <1>1, <1>2, <1>3, <1>6, <2>1, <2>2, ExportPuts
  <1> QED BY <1>1, <1>4, <1>5, <1>6

\* A source without an extraction: the phases that run are left alone, the others are
\* opened again.
LEMMA AfterRenewIs ==
  ASSUME NEW r \in Proc, PlaceOK(r), r.cmd = "export", r.at \in {"guard", "renew"}
  PROVE  /\ AfterRenew(r) \in Proc /\ PlaceOK(AfterRenew(r))
         /\ Busy(AfterRenew(r)) => Busy(r)
         /\ AfterRenew(r).at \in {"idle", "open"} \/ AfterRenew(r).cmd = "export"
         /\ AfterRenew(r).at # "skip"
         /\ r.phase = "extract" => Owes(AfterRenew(r))
         /\ ExtractorInv(AfterRenew(r)) /\ IngesterInv(AfterRenew(r)) /\ SkipperInv(AfterRenew(r))
  <1>1. CASE r.phase = "extract"
    <2>1. AfterRenew(r) = Placed(r, "guard", "ingest")
      BY <1>1 DEF AfterRenew, Placed
    <2> DEFINE r2 == Placed(r, "guard", "ingest")
    <2>2. /\ r2 \in Proc /\ PlaceOK(r2) /\ r2.at = "guard" /\ r2.phase = "ingest"
          /\ r2.cmd = "export" /\ (Busy(r2) => Busy(r))
          /\ ExtractorInv(r2) /\ IngesterInv(r2) /\ SkipperInv(r2)
      BY ExportPlace DEF Phases
    <2> QED BY <2>1, <2>2 DEF Owes
  <1>2. CASE r.phase # "extract"
    <2>1. AfterRenew(r) = NextCmd(r)
      BY <1>2 DEF AfterRenew
    <2>2. /\ NextCmd(r) \in Proc /\ PlaceOK(NextCmd(r)) /\ NextCmd(r).at \in {"idle", "open"}
          /\ Busy(NextCmd(r)) => Busy(r)
      BY NextCmdIs DEF Busy
    <2>3. ExtractorInv(NextCmd(r)) /\ IngesterInv(NextCmd(r)) /\ SkipperInv(NextCmd(r))
      BY <2>2, Outside
    <2> QED BY <1>2, <2>1, <2>2, <2>3
  <1> QED BY <1>1, <1>2

LEMMA GuardKeeps ==
  ASSUME NlmInv, NEW p \in Procs, Guard(p)
  PROVE  NlmInv'
  <1> DEFINE r == proc[p]
  <1>1. /\ r \in Proc /\ PlaceOK(r) /\ ~legacy /\ r.cmd = "export"
        /\ r.phase \in {"extract", "ingest"} /\ r.at = "guard"
    BY OfProcess DEF Guard, At, Early, PlaceOK
  <1>2. UNCHANGED <<offered, files, status, written, cut, kills, failing>>
    BY DEF Guard
  <1>3. CASE status[r.phase] = "running" /\ Move(p, AfterRenew(r))
    <2>1. /\ AfterRenew(r) \in Proc /\ PlaceOK(AfterRenew(r)) /\ (Busy(AfterRenew(r)) => Busy(r))
          /\ ExtractorInv(AfterRenew(r)) /\ IngesterInv(AfterRenew(r)) /\ SkipperInv(AfterRenew(r))
      BY <1>1, AfterRenewIs
    <2>2. Owes(r) => status["ingest"] \notin Settled
      BY <1>3 DEF Owes, Settled
    <2> QED BY <1>1, <1>2, <1>3, <2>1, <2>2, JustMoves
  <1>4. CASE Move(p, [r EXCEPT !.at = "renew"])
    <2> DEFINE r2 == Placed(r, "renew", r.phase)
    <2>1. r2 = [r EXCEPT !.at = "renew"]
      BY <1>1 DEF Placed, Proc
    <2>2. /\ r2 \in Proc /\ PlaceOK(r2) /\ (Busy(r2) => Busy(r)) /\ r2.at = "renew" /\ r2.phase = r.phase
          /\ ExtractorInv(r2) /\ IngesterInv(r2) /\ SkipperInv(r2)
      BY <1>1, ExportPlace DEF Phases
    <2>3. Owes(r) => Owes(r2)
      BY <2>2 DEF Owes
    <2> QED BY <1>1, <1>2, <1>4, <2>1, <2>2, <2>3, JustMoves
  <1> QED BY <1>3, <1>4 DEF Guard

LEMMA RenewKeeps ==
  ASSUME NlmInv, Sequential, NEW p \in Procs, Renew(p)
  PROVE  NlmInv'
  <1> DEFINE r == proc[p]
  <1>1. /\ r \in Proc /\ PlaceOK(r) /\ ~legacy /\ r.cmd = "export"
        /\ r.phase \in {"extract", "ingest"} /\ r.at = "renew"
    BY OfProcess DEF Renew, At, Early, PlaceOK
  <1>2. /\ Put(r.phase, "pending") /\ Move(p, AfterRenew(r))
        /\ UNCHANGED <<offered, files, written, cut, kills, failing>>
    BY DEF Renew
  <1>3. "pending" \in Status /\ "pending" \notin Settled
    BY DEF Status, Settled
  <1>4. /\ AfterRenew(r) \in Proc /\ PlaceOK(AfterRenew(r))
        /\ AfterRenew(r).at \in {"idle", "open"} \/ AfterRenew(r).cmd = "export"
        /\ AfterRenew(r).at # "skip"
        /\ r.phase = "extract" => Owes(AfterRenew(r))
    BY <1>1, AfterRenewIs
  <1> QED BY <1>1, <1>2, <1>3, <1>4, ExportPuts

-------------------------------------------------------------------------------
(* The phases.                                                             *)

\* A process of extract or ingest is the only busy one, and no export owes anything.
LEMMA AloneInPhase ==
  ASSUME NlmInv, Sequential, NEW p \in Procs, proc[p].cmd \in {"extract", "ingest"}, ~At(p, "idle")
  PROVE  /\ Busy(proc[p])
         /\ status["extract"] \notin Settled => status["ingest"] \notin Settled \/ cut
  <1>1. Busy(proc[p])
    BY OfProcess, BusyOrFree DEF At
  <1>2. ASSUME NEW q \in Procs, Owes(proc[q])
        PROVE  FALSE
    <2>1. proc[q].at # "idle" /\ proc[q].cmd = "export"
      BY <1>2, OfProcess DEF Owes, PlaceOK
    <2>2. Busy(proc[q])
      BY <2>1, OfProcess, BusyOrFree
    <2> QED BY <1>1, <2>1, <2>2 DEF NlmInv, AtMostOneBusy
  <1> QED BY <1>1, <1>2 DEF NlmInv, DebtInv

LEMMA SelectKeeps ==
  ASSUME NlmInv, Sequential, NEW p \in Procs, Select(p)
  PROVE  NlmInv'
  <1> DEFINE r == proc[p]
             r2 == [r EXCEPT !.at = "load"]
  <1>1. /\ r \in Proc /\ PlaceOK(r) /\ ~legacy /\ r.at = "select" /\ ~Owes(r)
        /\ r.cmd \in {"transcribe", "extract", "ingest"}
    BY OfProcess DEF Select, At, Early, PlaceOK, Owes
  <1>2. UNCHANGED <<offered, files, status, written, cut, kills, failing>>
    BY DEF Select
  <1>3. CASE Due(r.cmd) /\ Move(p, r2)
    <2>1. /\ r2 \in Proc /\ r2.at = "load" /\ r2.cmd = r.cmd /\ r2.chain = r.chain
          /\ PlaceOK(r2)
      BY <1>1 DEF Proc, PlaceOK, Stores
    <2>2. Busy(r2) => Busy(r)
      BY <1>1, <2>1 DEF Busy
    <2>3. ExtractorInv(r2)
      <3>1. r.cmd = "extract" => /\ status["extract"] \notin Settled
                                 /\ status["ingest"] \notin Settled \/ cut
        BY <1>1, <1>3, AloneInPhase DEF Due, Retryable, Settled, At
      <3> QED BY <2>1, <3>1 DEF ExtractorInv
    <2>4. IngesterInv(r2)
      BY <1>3, <2>1 DEF IngesterInv, Due, Settled
    <2>5. SkipperInv(r2)
      BY <2>1 DEF SkipperInv
    <2> HIDE DEF r2
    <2> QED BY <1>1, <1>2, <1>3, <2>1, <2>2, <2>3, <2>4, <2>5, JustMoves
  <1>4. CASE Move(p, NextCmd(r))
    BY <1>1, <1>2, <1>4, NextCmdKeeps DEF At
  <1> QED BY <1>3, <1>4 DEF Select

\* The files the batch finds when it comes to the notebook.
LEMMA LoadKeeps ==
  ASSUME NlmInv, Sequential, NEW p \in Procs, Load(p)
  PROVE  NlmInv'
  <1> DEFINE r == proc[p]
             extracted == {s \in Sources : extraction[s] # "none"}
             r1 == [r EXCEPT !.at = "running"]
             r2 == [r EXCEPT !.at = "finish", !.ok = FALSE]
             r3(S) == [r EXCEPT !.at = "running", !.todo = S]
  <1>1. /\ r \in Proc /\ PlaceOK(r) /\ ~legacy /\ r.at = "load" /\ ~Owes(r)
        /\ r.cmd \in {"transcribe", "extract", "ingest"} /\ ExtractorInv(r) /\ IngesterInv(r)
        /\ DataOK
    BY OfProcess DEF Load, At, Early, PlaceOK, Owes
  <1>2. UNCHANGED <<offered, files, status, written, cut, kills, failing>>
    BY DEF Load
  <1>3. CASE r.cmd = "transcribe" /\ Move(p, r1)
    <2>1. r1 \in Proc /\ r1.at = "running" /\ r1.cmd = r.cmd /\ r1.chain = r.chain /\ PlaceOK(r1)
      BY <1>1 DEF Proc, PlaceOK, Stores
    <2>2. (Busy(r1) => Busy(r)) /\ ExtractorInv(r1) /\ IngesterInv(r1) /\ SkipperInv(r1)
      BY <1>1, <1>3, <2>1 DEF Busy, ExtractorInv, IngesterInv, SkipperInv
    <2> HIDE DEF r1
    <2> QED BY <1>1, <1>2, <1>3, <2>1, <2>2, JustMoves
  <1>4. CASE r.cmd = "extract" /\ Move(p, r2)
    <2>1. r2 \in Proc /\ r2.at = "finish" /\ r2.cmd = r.cmd /\ r2.chain = r.chain /\ PlaceOK(r2)
      BY <1>1, ZenonT(30) DEF Proc, PlaceOK, Stores
    <2>2. (Busy(r2) => Busy(r)) /\ ExtractorInv(r2) /\ IngesterInv(r2) /\ SkipperInv(r2)
      BY <1>1, <1>4, <2>1 DEF Busy, ExtractorInv, IngesterInv, SkipperInv
    <2> HIDE DEF r2
    <2> QED BY <1>1, <1>2, <1>4, <2>1, <2>2, JustMoves
  <1>5. CASE r.cmd = "extract" /\ Move(p, r3(OnDisk))
    <2> DEFINE r4 == r3(OnDisk)
    <2>1. OnDisk \subseteq Sources
      BY <1>1 DEF OnDisk, DataOK, Sources
    <2>2. /\ r4 \in Proc /\ r4.at = "running" /\ r4.cmd = r.cmd /\ r4.chain = r.chain
          /\ PlaceOK(r4) /\ r4.todo = OnDisk
      BY <1>1, <2>1, ZenonT(30) DEF Proc, PlaceOK, Stores
    <2>3. (Busy(r4) => Busy(r)) /\ ExtractorInv(r4) /\ IngesterInv(r4) /\ SkipperInv(r4)
      BY <1>1, <1>5, <2>2 DEF Busy, ExtractorInv, IngesterInv, SkipperInv
    <2>4. Move(p, r4)
      BY <1>5
    <2> HIDE DEF r4
    <2> QED BY <1>1, <1>2, <2>2, <2>3, <2>4, JustMoves
  <1>6. CASE r.cmd = "ingest" /\ Move(p, r3(extracted))
    <2> DEFINE r4 == r3(extracted)
    <2>1. extracted \subseteq Sources
      OBVIOUS
    <2>2. /\ r4 \in Proc /\ r4.at = "running" /\ r4.cmd = r.cmd /\ r4.chain = r.chain
          /\ PlaceOK(r4) /\ r4.todo = extracted
      BY <1>1, <2>1, ZenonT(30) DEF Proc, PlaceOK, Stores
    <2>3. (Busy(r4) => Busy(r)) /\ ExtractorInv(r4) /\ SkipperInv(r4)
      BY <1>1, <1>6, <2>2 DEF Busy, ExtractorInv, SkipperInv
    <2>4. IngesterInv(r4)
      BY <1>1, <1>6, <2>2 DEF IngesterInv
    <2>5. Move(p, r4)
      BY <1>6
    <2> HIDE DEF r4
    <2> QED BY <1>1, <1>2, <2>2, <2>3, <2>4, <2>5, JustMoves
  <1>7. CASE Move(p, NextCmd(r))
    BY <1>1, <1>2, <1>7, NextCmdKeeps DEF At
  <1> QED BY <1>1, <1>3, <1>4, <1>5, <1>6, <1>7 DEF Load

LEMMA RunningKeeps ==
  ASSUME NlmInv, NEW p \in Procs, Running(p)
  PROVE  NlmInv'
  <1> DEFINE r == proc[p]
  <1>1. /\ r \in Proc /\ PlaceOK(r) /\ ~legacy /\ r.at = "running" /\ ~Owes(r)
        /\ r.cmd \in {"transcribe", "extract", "ingest"} /\ ExtractorInv(r) /\ IngesterInv(r)
    BY OfProcess DEF Running, At, Early, PlaceOK, Owes
  <1>2. Put(r.cmd, "running") /\ UNCHANGED <<offered, files, written, cut, kills, failing>>
    BY DEF Running
  <1>3. PICK a \in {"plan", "work"} : Move(p, [r EXCEPT !.at = a]) /\ (a = "plan" => r.cmd = "extract")
    BY DEF Running, Goto
  <1> DEFINE r2 == [r EXCEPT !.at = a]
  <1>4. /\ r2 \in Proc /\ r2.at = a /\ r2.cmd = r.cmd /\ r2.chain = r.chain /\ PlaceOK(r2)
        /\ r2.todo = r.todo /\ r2.item = r.item /\ r2.ok = r.ok
    BY <1>1, <1>3 DEF Proc, PlaceOK, Stores
  <1> HIDE DEF r2
  <1>5. (Busy(r2) => Busy(r)) /\ ExtractorInv(r2) /\ SkipperInv(r2)
    BY <1>1, <1>4 DEF Busy, ExtractorInv, SkipperInv
  <1>6. IngesterInv(r2)
    BY <1>1, <1>4 DEF IngesterInv, InHand
  <1>7. "running" \in Status /\ "running" \notin Settled /\ r.cmd \in Phases
    BY <1>1 DEF Status, Settled, Phases
  <1>8. r.cmd = "extract" => status["extract"] \notin Settled
    BY <1>1 DEF ExtractorInv
  <1>9. Move(p, r2)
    BY <1>3 DEF r2
  <1> QED BY <1>1, <1>2, <1>4, <1>5, <1>6, <1>7, <1>8, <1>9, PutKeeps

LEMMA PlanKeeps ==
  ASSUME NlmInv, NEW p \in Procs, Plan(p)
  PROVE  NlmInv'
  <1> DEFINE r == proc[p]
             r2 == [r EXCEPT !.at = "work", !.todo = NeedsExtract(@)]
  <1>1. /\ r \in Proc /\ PlaceOK(r) /\ ~legacy /\ r.at = "plan" /\ ~Owes(r)
        /\ r.cmd = "extract" /\ ExtractorInv(r)
    BY OfProcess DEF Plan, At, Early, PlaceOK, Owes
  <1>2. Move(p, r2) /\ UNCHANGED <<offered, files, status, written, cut, kills, failing>>
    BY DEF Plan
  <1>3. NeedsExtract(r.todo) \subseteq r.todo /\ r.todo \subseteq Sources
    BY <1>1 DEF NeedsExtract, Proc
  <1>4. /\ r2 \in Proc /\ r2.at = "work" /\ r2.cmd = r.cmd /\ r2.chain = r.chain /\ PlaceOK(r2)
        /\ r2.todo \subseteq r.todo
    BY <1>1, <1>3, ZenonT(30) DEF Proc, PlaceOK, Stores
  <1> HIDE DEF r2
  <1>5. (Busy(r2) => Busy(r)) /\ ExtractorInv(r2) /\ IngesterInv(r2) /\ SkipperInv(r2)
    BY <1>1, <1>4 DEF Busy, ExtractorInv, IngesterInv, SkipperInv
  <1> QED BY <1>1, <1>2, <1>4, <1>5, JustMoves

\* A file of the transcript is begun, and written in full.
LEMMA TranscribeKeeps ==
  ASSUME NlmInv, NEW p \in Procs, Transcribe(p) \/ (Flush(p) /\ proc[p].cmd = "transcribe")
  PROVE  NlmInv'
  <1> DEFINE r == proc[p]
             r1 == [r EXCEPT !.at = "flush", !.item = Transcript]
             r2 == [r EXCEPT !.at = "finish"]
  <1>1. /\ r \in Proc /\ PlaceOK(r) /\ ~legacy /\ r.at \in {"work", "flush"} /\ ~Owes(r)
        /\ r.cmd = "transcribe" /\ DataOK
    BY OfProcess DEF Transcribe, Flush, At, Early, PlaceOK, Owes
  <1>2. /\ UNCHANGED <<offered, podcast, reports, extraction, legacy, status, written, cut, kills, failing>>
        /\ transcript' \in {"torn", "whole"}
        /\ Move(p, r1) \/ Move(p, r2)
    BY <1>1 DEF Transcribe, Flush, Goto
  <1>3. DataOK' /\ OnDisk \subseteq OnDisk'
    BY <1>1, <1>2 DEF DataOK, OnDisk, File
  <1>4. /\ r1 \in Proc /\ r1.cmd = r.cmd /\ r1.chain = r.chain /\ PlaceOK(r1)
    <2>1. /\ r1 \in Proc /\ r1.cmd = r.cmd /\ r1.chain = r.chain /\ r1.retry = r.retry
          /\ r1.at = "flush" /\ r1.item = Transcript
      BY <1>1 DEF Proc, Sources
    <2> HIDE DEF r1
    <2>2. Transcript \in Sources
      BY DEF Sources
    <2>3. PlaceOK(r1)
      BY <1>1, <2>1, <2>2 DEF PlaceOK, Stores
    <2> QED BY <2>1, <2>3
  <1>5. /\ r2 \in Proc /\ r2.cmd = r.cmd /\ r2.chain = r.chain /\ PlaceOK(r2)
    BY <1>1 DEF Proc, PlaceOK, Stores
  <1> HIDE DEF r1, r2
  <1>6. PICK r3 \in Proc : Move(p, r3) /\ r3.cmd = r.cmd /\ r3.chain = r.chain /\ PlaceOK(r3)
    BY <1>2, <1>4, <1>5
  <1>7. ExtractorInv(r3) /\ IngesterInv(r3) /\ SkipperInv(r3) /\ (Busy(r3) => Busy(r))
    BY <1>1, <1>6, Outside DEF Busy
  <1> QED BY <1>1, <1>2, <1>3, <1>6, <1>7, Quiet

\* The extraction of a source is begun, and written in full: the ingestion is open.
LEMMA ExtractKeeps ==
  ASSUME NlmInv, Sequential, NEW p \in Procs,
         Extract(p) \/ (Flush(p) /\ proc[p].cmd # "transcribe")
  PROVE  NlmInv'
  <1> DEFINE r == proc[p]
             r1(s) == [r EXCEPT !.at = "flush", !.item = s, !.todo = @ \ {s}]
             r2 == [r EXCEPT !.at = "work", !.item = "none"]
  <1>1. /\ r \in Proc /\ PlaceOK(r) /\ ~legacy /\ r.at \in {"work", "flush"} /\ r.cmd = "extract"
        /\ ExtractorInv(r) /\ DataOK /\ proc \in [Procs -> Proc]
    BY OfProcess, TypeIs DEF Extract, Flush, At, Early, PlaceOK, NlmInv
  <1>2. r \in Proc /\ PlaceOK(r) /\ r.cmd = "extract" /\ r.at # "idle"
    BY <1>1
  <1>3. Busy(r)
    BY <1>2, BusyOrFree
  <1>4. /\ status["extract"] \notin Settled /\ (status["ingest"] \notin Settled \/ cut)
        /\ r.todo \subseteq OnDisk /\ (r.at = "flush" => r.item \in OnDisk)
    BY <1>1 DEF ExtractorInv
  <1>5. UNCHANGED <<offered, podcast, reports, transcript, legacy, status, written, cut, kills, failing>>
    BY <1>1 DEF Extract, Flush
  <1>6. PICK s \in OnDisk, f \in {"torn", "whole"}, r3 \in Proc :
          /\ extraction' = [extraction EXCEPT ![s] = f] /\ Move(p, r3) /\ PlaceOK(r3)
          /\ r3.cmd = "extract" /\ r3.at \in {"work", "flush"}
          /\ r3.todo \subseteq OnDisk /\ (r3.at = "flush" => r3.item \in OnDisk)
    <2>1. CASE Extract(p)
      <3>1. PICK s \in r.todo : extraction' = [extraction EXCEPT ![s] = "torn"] /\ Move(p, r1(s))
        BY <2>1 DEF Extract
      <3>2. /\ r1(s) \in Proc /\ r1(s).cmd = "extract" /\ r1(s).at = "flush"
            /\ r1(s).todo \subseteq r.todo /\ r1(s).item = s /\ s \in Sources
            /\ r1(s).chain = r.chain /\ r1(s).retry = r.retry
        BY <1>2 DEF Proc
      <3> HIDE DEF r1
      <3>3. PlaceOK(r1(s))
        BY <1>2, <3>2 DEF PlaceOK, Stores
      <3> QED BY <1>4, <3>1, <3>2, <3>3
    <2>2. CASE Flush(p)
      <3>1. r.at = "flush" /\ extraction' = [extraction EXCEPT ![r.item] = "whole"] /\ Move(p, r2)
        BY <1>1, <2>2 DEF Flush, At
      <3>2. /\ r2 \in Proc /\ r2.cmd = "extract" /\ r2.at = "work" /\ r2.todo = r.todo
            /\ r2.chain = r.chain /\ r2.retry = r.retry
        BY <1>2 DEF Proc
      <3> HIDE DEF r2
      <3>3. PlaceOK(r2)
        BY <1>2, <3>2 DEF PlaceOK, Stores
      <3> QED BY <1>4, <3>1, <3>2, <3>3
    <2> QED BY <2>1, <2>2
  <1>7. /\ extraction' \in [Sources -> File]
        /\ \A x \in Sources : extraction'[x] # "none" => x = s \/ extraction[x] # "none"
    BY <1>1, <1>6 DEF DataOK, File
  <1>8. DataOK' /\ OnDisk' = OnDisk
    BY <1>1, <1>5, <1>7 DEF DataOK, OnDisk
  <1>9. (\A x \in Sources : extraction[x] # "none" => x \in OnDisk)'
    BY <1>6, <1>7, <1>8 DEF NlmInv
  <1>10. proc'[p] = r3
    BY <1>1, <1>6 DEF Move
  <1>11. ExtractorInv(proc[p])' /\ IngesterInv(proc[p])' /\ SkipperInv(proc[p])'
    BY <1>4, <1>5, <1>6, <1>8, <1>10 DEF ExtractorInv, IngesterInv, SkipperInv
  <1>12. ExtractedIsIngested'
    BY <1>4, <1>5 DEF ExtractedIsIngested
  <1> QED BY <1>1, <1>3, <1>4, <1>5, <1>6, <1>8, <1>9, <1>11, <1>12, Lonely

\* An extraction is taken up, or found torn.
LEMMA IngestKeeps ==
  ASSUME NlmInv, NEW p \in Procs, Ingest(p)
  PROVE  NlmInv'
  <1> DEFINE r == proc[p]
             r1(s) == [r EXCEPT !.at = "neo4j", !.item = s, !.todo = @ \ {s}]
             r2(s) == [r EXCEPT !.ok = FALSE, !.todo = @ \ {s}]
  <1>1. /\ r \in Proc /\ PlaceOK(r) /\ ~legacy /\ r.at = "work" /\ ~Owes(r)
        /\ r.cmd = "ingest" /\ IngesterInv(r)
    BY OfProcess DEF Ingest, At, Early, PlaceOK, Owes
  <1>2. UNCHANGED <<offered, files, status, written, cut, kills, failing>>
    BY DEF Ingest
  <1>3. PICK s \in r.todo : Move(p, r1(s)) \/ Move(p, r2(s))
    BY DEF Ingest
  <1>4. CASE Move(p, r1(s))
    <2>1. /\ r1(s) \in Proc /\ r1(s).at = "neo4j" /\ r1(s).cmd = r.cmd /\ r1(s).chain = r.chain
          /\ r1(s).item = s /\ r1(s).todo = r.todo \ {s} /\ r1(s).ok = r.ok /\ PlaceOK(r1(s))
      BY <1>1, ZenonT(30) DEF Proc, PlaceOK, Stores
    <2> HIDE DEF r1
    <2>2. (Busy(r1(s)) => Busy(r)) /\ ExtractorInv(r1(s)) /\ SkipperInv(r1(s))
      BY <1>1, <2>1 DEF Busy, ExtractorInv, SkipperInv
    <2>3. IngesterInv(r1(s))
      BY <1>1, <2>1 DEF IngesterInv, InHand
    <2> QED BY <1>1, <1>2, <1>4, <2>1, <2>2, <2>3, JustMoves
  <1>5. CASE Move(p, r2(s))
    <2>1. /\ r2(s) \in Proc /\ r2(s).at = "work" /\ r2(s).cmd = r.cmd /\ r2(s).chain = r.chain
          /\ r2(s).ok = FALSE /\ PlaceOK(r2(s))
      BY <1>1 DEF Proc, PlaceOK, Stores
    <2> HIDE DEF r2
    <2>2. (Busy(r2(s)) => Busy(r)) /\ ExtractorInv(r2(s)) /\ IngesterInv(r2(s)) /\ SkipperInv(r2(s))
      BY <1>1, <2>1 DEF Busy, ExtractorInv, IngesterInv, SkipperInv
    <2> QED BY <1>1, <1>2, <1>5, <2>1, <2>2, JustMoves
  <1> QED BY <1>3, <1>4, <1>5

\* The two stores, one after the other.
LEMMA WriteKeeps ==
  ASSUME NlmInv, Sequential, NEW p \in Procs, Write(p)
  PROVE  NlmInv'
  <1> DEFINE r == proc[p]
             r1 == [r EXCEPT !.at = "qdrant"]
             r2 == [r EXCEPT !.at = "work", !.item = "none"]
  <1>1. /\ r \in Proc /\ PlaceOK(r) /\ ~legacy /\ r.at \in {"neo4j", "qdrant"} /\ r.cmd = "ingest"
        /\ r.item \in Sources /\ IngesterInv(r) /\ DataOK /\ proc \in [Procs -> Proc]
    BY OfProcess, TypeIs DEF Write, Early, PlaceOK, Stores, NlmInv
  <1>2. Busy(r)
    BY <1>1, BusyOrFree
  <1>3. /\ written' = [written EXCEPT ![r.at] = @ \cup {r.item}]
        /\ UNCHANGED <<offered, podcast, reports, transcript, extraction, legacy, status, cut, kills, failing>>
    BY DEF Write, files
  <1>4. /\ written' \in [Stores -> SUBSET Sources] /\ r.item \in written'[r.at]
        /\ \A x \in Stores : written[x] \subseteq written'[x]
    BY <1>1, <1>3 DEF DataOK, Stores
  <1>5. DataOK' /\ OnDisk' = OnDisk
    BY <1>1, <1>3, <1>4 DEF DataOK, OnDisk
  <1>6. \A s \in Sources : Delivered(s) => Delivered(s)'
    BY <1>4 DEF Delivered
  <1>7. /\ status["extract"] \in Settled
        /\ r.ok => \A s \in Sources : extraction[s] = "whole" => s \in r.todo \/ InHand(r, s) \/ Delivered(s)
    BY <1>1 DEF IngesterInv
  <1>8. CASE r.at = "neo4j"
    <2>1. /\ r1 \in Proc /\ r1.at = "qdrant" /\ r1.cmd = r.cmd /\ r1.item = r.item
          /\ r1.todo = r.todo /\ r1.ok = r.ok /\ PlaceOK(r1)
      BY <1>1 DEF Proc, PlaceOK, Stores
    <2>2. PICK r3 \in Proc : /\ Move(p, r3) /\ r3.at = "qdrant" /\ r3.cmd = r.cmd /\ r3.item = r.item
                             /\ r3.todo = r.todo /\ r3.ok = r.ok /\ PlaceOK(r3)
      <3>1. Move(p, r1)
        BY <1>8 DEF Write
      <3> HIDE DEF r1
      <3> QED BY <2>1, <3>1
    <2>3. proc'[p] = r3
      BY <1>1, <2>2 DEF Move
    <2>4. ExtractorInv(proc[p])' /\ SkipperInv(proc[p])'
      BY <1>1, <2>2, <2>3 DEF ExtractorInv, SkipperInv
    <2>5. \A s \in Sources : extraction'[s] = "whole" /\ r3.ok =>
                             s \in r3.todo \/ InHand(r3, s)' \/ Delivered(s)'
      BY <1>3, <1>4, <1>6, <1>7, <1>8, <2>2 DEF InHand
    <2>6. IngesterInv(proc[p])'
      BY <1>3, <1>7, <2>2, <2>3, <2>5 DEF IngesterInv, InHand
    <2>7. ExtractedIsIngested'
      BY <1>3, <1>4 DEF NlmInv, ExtractedIsIngested
    <2>8. (\A s \in Sources : extraction[s] # "none" => s \in OnDisk)'
      BY <1>3, <1>5 DEF NlmInv
    <2> QED BY <1>1, <1>2, <1>3, <1>5, <1>7, <2>1, <2>2, <2>4, <2>6, <2>7, <2>8, Lonely
  <1>9. CASE r.at = "qdrant"
    <2>1. Move(p, r2)
      BY <1>9 DEF Write
    <2>2. /\ r2 \in Proc /\ r2.at = "work" /\ r2.cmd = r.cmd
          /\ r2.todo = r.todo /\ r2.ok = r.ok /\ PlaceOK(r2)
      BY <1>1, ZenonT(30) DEF Proc, PlaceOK, Stores
    <2> HIDE DEF r2
    <2>3. proc'[p] = r2
      BY <1>1, <2>1 DEF Move
    <2>4. ExtractorInv(proc[p])' /\ SkipperInv(proc[p])'
      BY <1>1, <2>2, <2>3 DEF ExtractorInv, SkipperInv
    <2>5. \A s \in Sources : InHand(r, s) => Delivered(s)'
      BY <1>4, <1>9 DEF InHand, Delivered, Stores
    <2>6. IngesterInv(proc[p])'
      BY <1>3, <1>6, <1>7, <2>2, <2>3, <2>5 DEF IngesterInv
    <2>7. ExtractedIsIngested'
      BY <1>3, <1>4 DEF NlmInv, ExtractedIsIngested
    <2>8. (\A s \in Sources : extraction[s] # "none" => s \in OnDisk)'
      BY <1>3, <1>5 DEF NlmInv
    <2> QED BY <1>1, <1>2, <1>3, <1>5, <1>7, <2>1, <2>2, <2>4, <2>6, <2>7, <2>8, Lonely
  <1> QED BY <1>1, <1>8, <1>9

\* A phase that fails, or has nothing left to do.
LEMMA PhaseFailsKeeps ==
  ASSUME NlmInv, NEW p \in Procs, PhaseFails(p) \/ Worked(p)
  PROVE  NlmInv'
  <1> DEFINE r == proc[p]
             r1 == [r EXCEPT !.at = "finish", !.ok = FALSE]
             r2(s) == [r EXCEPT !.ok = FALSE, !.todo = @ \ {s}]
             r3 == [r EXCEPT !.at = "work", !.item = "none", !.ok = FALSE]
             r4 == [r EXCEPT !.at = "finish"]
  <1>1. /\ r \in Proc /\ PlaceOK(r) /\ ExtractorInv(r) /\ IngesterInv(r)
    BY OfProcess
  <1>2. UNCHANGED <<offered, files, status, written, cut, kills, failing>>
    BY DEF PhaseFails, Worked
  <1>3. ~legacy /\ ~Owes(r) /\ r.at # "idle"
    BY OfProcess DEF PhaseFails, Worked, At, Early, Owes, Stores
  <1>4. CASE Move(p, Idle)
    BY <1>2, <1>3, <1>4, IdleKeeps
  <1>5. CASE (r.at = "plan" \/ (r.at = "work" /\ r.cmd = "transcribe")) /\ Move(p, r1)
    <2>1. /\ r1 \in Proc /\ r1.at = "finish" /\ r1.cmd = r.cmd /\ r1.chain = r.chain /\ r1.ok = FALSE
          /\ PlaceOK(r1)
      BY <1>1, <1>5, ZenonT(30) DEF Proc, PlaceOK, Stores
    <2>2. r.cmd \in {"transcribe", "extract"}
      BY <1>1, <1>5 DEF PlaceOK
    <2> HIDE DEF r1
    <2>3. (Busy(r1) => Busy(r)) /\ ExtractorInv(r1) /\ IngesterInv(r1) /\ SkipperInv(r1)
      BY <1>1, <1>5, <2>1, <2>2 DEF Busy, ExtractorInv, IngesterInv, SkipperInv
    <2> QED BY <1>2, <1>3, <1>5, <2>1, <2>3, JustMoves
  <1>6. CASE r.at = "work" /\ r.cmd = "extract" /\ \E s \in r.todo : Move(p, r2(s))
    <2>1. PICK s \in r.todo : Move(p, r2(s))
      BY <1>6
    <2>2. /\ r2(s) \in Proc /\ r2(s).at = "work" /\ r2(s).cmd = r.cmd /\ r2(s).chain = r.chain
          /\ r2(s).todo \subseteq r.todo /\ PlaceOK(r2(s))
      BY <1>1, <1>6, ZenonT(30) DEF Proc, PlaceOK, Stores
    <2> HIDE DEF r2
    <2>3. (Busy(r2(s)) => Busy(r)) /\ ExtractorInv(r2(s)) /\ IngesterInv(r2(s)) /\ SkipperInv(r2(s))
      BY <1>1, <1>6, <2>2 DEF Busy, ExtractorInv, IngesterInv, SkipperInv
    <2> QED BY <1>2, <1>3, <2>1, <2>2, <2>3, JustMoves
  <1>7. CASE r.at \in Stores /\ Move(p, r3)
    <2>1. /\ r3 \in Proc /\ r3.at = "work" /\ r3.cmd = r.cmd /\ r3.chain = r.chain /\ r3.ok = FALSE
          /\ PlaceOK(r3)
      BY <1>1, <1>7, ZenonT(30) DEF Proc, PlaceOK, Stores
    <2>2. r.cmd = "ingest"
      BY <1>1, <1>7 DEF PlaceOK
    <2> HIDE DEF r3
    <2>3. (Busy(r3) => Busy(r)) /\ ExtractorInv(r3) /\ IngesterInv(r3) /\ SkipperInv(r3)
      BY <1>1, <1>3, <1>7, <2>1, <2>2 DEF Busy, ExtractorInv, IngesterInv, SkipperInv, Stores
    <2> QED BY <1>2, <1>3, <1>7, <2>1, <2>3, JustMoves
  <1>8. CASE r.at = "work" /\ r.cmd \in {"extract", "ingest"} /\ r.todo = {} /\ Move(p, r4)
    <2>1. /\ r4 \in Proc /\ r4.at = "finish" /\ r4.cmd = r.cmd /\ r4.chain = r.chain /\ r4.ok = r.ok
          /\ r4.todo = r.todo /\ PlaceOK(r4)
      BY <1>1, <1>8 DEF Proc, PlaceOK, Stores
    <2> HIDE DEF r4
    <2>2. (Busy(r4) => Busy(r)) /\ ExtractorInv(r4) /\ SkipperInv(r4)
      BY <1>1, <1>8, <2>1 DEF Busy, ExtractorInv, SkipperInv
    <2>3. IngesterInv(r4)
      BY <1>1, <1>8, <2>1 DEF IngesterInv, InHand
    <2> QED BY <1>2, <1>3, <1>8, <2>1, <2>2, <2>3, JustMoves
  <1> QED BY <1>4, <1>5, <1>6, <1>7, <1>8 DEF PhaseFails, Worked, At, Goto

\* An ingestion that completes has every extraction in both stores; an extraction that
\* completes leaves the ingestion open.
LEMMA FinishKeeps ==
  ASSUME NlmInv, Sequential, NEW p \in Procs, Finish(p)
  PROVE  NlmInv'
  <1> DEFINE r == proc[p]
             st == IF r.ok THEN "completed" ELSE "failed"
             r2 == NextCmd(r)
  <1>1. /\ r \in Proc /\ PlaceOK(r) /\ ~legacy /\ r.at = "finish" /\ ~Owes(r)
        /\ r.cmd \in {"transcribe", "extract", "ingest"} /\ ExtractorInv(r) /\ IngesterInv(r)
        /\ proc \in [Procs -> Proc]
    BY OfProcess, TypeIs DEF Finish, At, Early, PlaceOK, Owes, NlmInv
  <1>2. /\ Put(r.cmd, st) /\ Move(p, r2)
        /\ UNCHANGED <<offered, files, written, cut, kills, failing>>
    BY DEF Finish
  <1>3. /\ st \in Status /\ r.cmd \in Phases /\ r.cmd \in Commands
        /\ ~r.ok => st \notin Settled
    BY <1>1 DEF Status, Phases, Commands, Settled
  <1>4. r2 \in Proc /\ PlaceOK(r2) /\ r2.at \in {"idle", "open"} /\ (Busy(r2) => Busy(r))
    BY <1>1, NextCmdIs DEF Busy
  <1> HIDE DEF r2, st
  <1>5. CASE r.cmd = "transcribe"
    <2>1. ExtractorInv(r2) /\ IngesterInv(r2) /\ SkipperInv(r2)
      BY <1>4, Outside
    <2> QED BY <1>1, <1>2, <1>3, <1>4, <1>5, <2>1, PutKeeps
  <1>6. CASE r.cmd \in {"extract", "ingest"}
    <2>1. Busy(r)
      BY <1>1, <1>6, BusyOrFree
    <2>2. /\ DataOK' /\ OnDisk' = OnDisk /\ status'[r.cmd] = st
          /\ \A x \in Phases \ {r.cmd} : status'[x] = status[x]
          /\ UNCHANGED <<transcript, extraction, legacy, written, cut>>
      BY <1>2, <1>3, PutIs
    <2>3. (\A s \in Sources : extraction[s] # "none" => s \in OnDisk)'
      BY <2>2 DEF NlmInv
    <2>4. proc'[p].at \in {"idle", "open"}
      BY <1>1, <1>2, <1>4 DEF Move
    <2>5. ExtractorInv(proc[p])' /\ IngesterInv(proc[p])' /\ SkipperInv(proc[p])'
      BY <2>4 DEF ExtractorInv, IngesterInv, SkipperInv
    <2>6. status'["extract"] \notin Settled /\ status'["ingest"] \in Settled => cut' \/ Owes(r2)
      <3>1. CASE r.cmd = "extract"
        BY <1>1, <2>2, <3>1 DEF ExtractorInv, Phases
      <3>2. CASE r.cmd = "ingest"
        BY <1>1, <2>2, <3>2 DEF IngesterInv, Phases
      <3> QED BY <1>6, <3>1, <3>2
    <2>7. ExtractedIsIngested'
      <3>1. CASE r.cmd = "extract"
        BY <2>2, <3>1 DEF NlmInv, ExtractedIsIngested, Phases
      <3>2. CASE r.cmd = "ingest" /\ ~r.ok
        BY <1>3, <2>2, <3>2 DEF ExtractedIsIngested
      <3>3. CASE r.cmd = "ingest" /\ r.ok
        <4>1. \A s \in Sources : extraction[s] = "whole" => Delivered(s)
          BY <1>1, <3>3 DEF IngesterInv, InHand
        <4> QED BY <2>2, <4>1 DEF ExtractedIsIngested, Delivered
      <3> QED BY <1>6, <3>1, <3>2, <3>3
    <2> QED BY <1>1, <1>2, <1>4, <2>1, <2>2, <2>3, <2>5, <2>6, <2>7, Lonely
  <1> QED BY <1>1, <1>5, <1>6

-------------------------------------------------------------------------------
(* The surroundings, and the theorems.                                     *)

\* A process that dies owing the ingestion is remembered.
LEMMA KillKeeps ==
  ASSUME NlmInv, NEW p \in Procs, Kill(p)
  PROVE  NlmInv'
  <1>1. Move(p, Idle) /\ UNCHANGED <<offered, files, status, written, failing>>
    BY DEF Kill
  <1>2. /\ DataOK /\ UNCHANGED <<podcast, reports, transcript, extraction, legacy>>
        /\ cut' = (cut \/ Owes(proc[p])) /\ kills' = kills + 1 /\ kills < MaxKills
    BY OfProcess DEF Kill, files
  <1>3. DataOK' /\ OnDisk' = OnDisk
    BY <1>1, <1>2, NlmAssumption DEF NlmAssumption, DataOK, OnDisk, Owes
  <1>4. ExtractorInv(Idle) /\ IngesterInv(Idle) /\ SkipperInv(Idle)
    BY IdleIs, Outside
  <1> QED BY <1>1, <1>2, <1>3, <1>4, IdleIs, Quiet DEF Early

LEMMA SurroundingsKeep ==
  ASSUME NlmInv, Offer \/ Recover \/ UNCHANGED vars
  PROVE  NlmInv'
  <1>1. UNCHANGED <<files, status, written, proc, cut, kills>>
    BY DEF Offer, Recover, vars
  <1>2. TypeOK'
    BY <1>1 DEF NlmInv, TypeOK, Offer, Recover, vars, files
  <1>3. /\ UNCHANGED <<podcast, reports, transcript, extraction, legacy>> /\ OnDisk' = OnDisk
    BY <1>1 DEF files, OnDisk
  <1> QED BY <1>1, <1>2, <1>3 DEF NlmInv, AtMostOneBusy, LegacyInv, DebtInv, ExtractorInv, IngesterInv,
            SkipperInv, InHand, Delivered, ExtractedIsIngested, At

LEMMA InitInv ==
  ASSUME Init
  PROVE  NlmInv
  <1>1. proc = [p \in Procs |-> Idle] /\ Idle \in Proc /\ PlaceOK(Idle) /\ ~Busy(Idle) /\ Idle.at = "idle"
    BY IdleIs DEF Init
  <1>2. TypeOK
    <2>1. /\ offered \subseteq Sources /\ reports \subseteq Reports /\ transcript \in File
          /\ {podcast, legacy, cut, failing} \subseteq BOOLEAN
      BY DEF Init, File, Sources
    <2>2. extraction \in [Sources -> File]
      BY DEF Init, File
    <2>3. kills \in 0 .. MaxKills
      BY NlmAssumption DEF Init, NlmAssumption
    <2>4. status \in [Phases -> Status]
      <3>1. {"unknown", "pending", "completed"} \subseteq Status
        BY DEF Status
      <3> QED BY <3>1 DEF Init
    <2>5. written \in [Stores -> SUBSET Sources] /\ proc \in [Procs -> Proc]
      BY <1>1 DEF Init
    <2> QED BY <2>1, <2>2, <2>3, <2>4, <2>5 DEF TypeOK
  <1>3. (\A p \in Procs : PlaceOK(proc[p])) /\ AtMostOneBusy
    BY <1>1 DEF AtMostOneBusy
  <1>4. \A s \in Sources : extraction[s] = "none"
    BY DEF Init
  <1>5. LegacyInv
    BY <1>1 DEF Init, LegacyInv, At, Phases
  <1>6. DebtInv
    BY DEF Init, DebtInv, Phases, Settled
  <1>7. \A p \in Procs : ExtractorInv(proc[p]) /\ IngesterInv(proc[p]) /\ SkipperInv(proc[p])
    BY <1>1 DEF ExtractorInv, IngesterInv, SkipperInv
  <1>8. ExtractedIsIngested
    BY <1>4 DEF ExtractedIsIngested
  <1> QED BY <1>2, <1>3, <1>4, <1>5, <1>6, <1>7, <1>8 DEF NlmInv

LEMMA NextKeeps ==
  ASSUME NlmInv, Sequential, [Next]_vars
  PROVE  NlmInv'
  <1>1. ASSUME NEW p \in Procs, Run(p) \/ \E c \in Commands : Start(p, c) \/ Retry(p, c)
        PROVE  NlmInv'
    <2>1. "export" \in Commands
      BY DEF Commands, Phases
    <2> QED BY <1>1, <2>1, BeginKeeps
  <1>2. ASSUME NEW p \in Procs, OpenStep(p)
        PROVE  NlmInv'
    BY <1>2, OpenKeeps, ReactivateKeeps, UnlinkKeeps, ValidateKeeps, AttemptKeeps DEF OpenStep
  <1>3. ASSUME NEW p \in Procs, ExportStep(p)
        PROVE  NlmInv'
    BY <1>3, DownloadKeeps, RegisterKeeps, ExportedKeeps, ReconcileKeeps, ReopenKeeps, InventoryKeeps,
       RepairKeeps, SkipKeeps, GuardKeeps, RenewKeeps DEF ExportStep
  <1>4. ASSUME NEW p \in Procs, PhaseStep(p)
        PROVE  NlmInv'
    BY <1>4, SelectKeeps, LoadKeeps, RunningKeeps, PlanKeeps, TranscribeKeeps, ExtractKeeps, IngestKeeps,
       WriteKeeps, PhaseFailsKeeps, FinishKeeps DEF PhaseStep
  <1>5. ASSUME NEW p \in Procs, ExportFails(p) \/ PhaseFails(p) \/ Kill(p)
        PROVE  NlmInv'
    BY <1>5, ExportFailsKeeps, PhaseFailsKeeps, KillKeeps
  <1>6. CASE Offer \/ Recover \/ UNCHANGED vars
    BY <1>6, SurroundingsKeep
  <1> QED BY <1>1, <1>2, <1>3, <1>4, <1>5, <1>6 DEF Next

\* Whatever the commands do, are killed at or find failed: under the discipline the
\* invariant holds, for any number of processes, reports and kills.
THEOREM NlmInvariant ==
  ASSUME Sequential
  PROVE  Spec => []NlmInv
  <1>1. Init => NlmInv
    BY InitInv
  <1>2. NlmInv /\ [Next]_vars => NlmInv'
    BY NextKeeps
  <1> QED BY <1>1, <1>2, PTL DEF Spec

\* Every variable keeps its type.
THEOREM TypeCorrect ==
  ASSUME Sequential
  PROVE  Spec => []TypeOK
  <1>1. Spec => []NlmInv
    BY NlmInvariant
  <1>2. NlmInv => TypeOK
    BY DEF NlmInv
  <1> QED BY <1>1, <1>2, PTL

\* An ingestion that counts as done has every extraction in both stores, unless an export
\* was killed between the two statuses it opens (reconcile_phases).
THEOREM IngestionIsComplete ==
  ASSUME Sequential
  PROVE  Spec => []ExtractedIsIngested
  <1>1. Spec => []NlmInv
    BY NlmInvariant
  <1>2. NlmInv => ExtractedIsIngested
    BY DEF NlmInv
  <1> QED BY <1>1, <1>2, PTL
===============================================================================
