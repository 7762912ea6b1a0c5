------------------------------- MODULE NlmIngest -------------------------------
(***************************************************************************)
(* The NotebookLM ingestion of one notebook: the phases export, transcribe,*)
(* extract and ingest, each a command of its own or all in one run, with   *)
(* their statuses in SQLite, their files on disk, and the retry, the       *)
(* reconciliation and the migration that tie the two together.  Commands   *)
(* are processes: they overlap as far as the operator lets them, fail and  *)
(* are killed.                                                             *)
(***************************************************************************)
EXTENDS Naturals, FiniteSets

CONSTANTS
  Procs,      \* processes
  Reports,    \* artifact ids of the reports NotebookLM can offer
  Alone,      \* commands the operator runs only when no other one of these runs
  MaxKills    \* bound on killed processes

Transcript == "transcript"
Sources == {Transcript} \cup Reports
Stores == {"neo4j", "qdrant"}
Phases == {"export", "transcribe", "extract", "ingest"}
Commands == Phases \cup {"migrate"}

ASSUME NlmAssumption ==
  /\ Transcript \notin Reports
  /\ Alone \subseteq Commands
  /\ MaxKills \in Nat

VARIABLES
  offered,     \* artifacts NotebookLM offers; the podcast is offered as Transcript
  podcast,     \* the audio file is on disk
  reports,     \* reports on disk
  transcript,  \* the transcript's file
  extraction,  \* the extraction's file of each source
  legacy,      \* the single extraction file of the old layout is on disk
  status,      \* phase_status
  written,     \* sources whose extraction each store holds
  proc,        \* the processes
  cut,         \* an export was killed between its two statuses (history)
  kills,       \* killed processes so far
  failing      \* NotebookLM, the models or the stores still fail at times

files == <<podcast, reports, transcript, extraction, legacy>>
vars == <<offered, files, status, written, proc, cut, kills, failing>>

\* write_text truncates first: a file half written is torn.
File == {"none", "torn", "whole"}
Status == {"unknown", "pending", "running", "completed", "failed", "skipped"}
Retryable == {"pending", "failed", "running"}
Settled == {"completed", "skipped"}

\* A process: where it is suspended, its command, what follows it, and its locals.
Proc == [at : {"idle", "list", "reports", "fetch", "open", "reactivate", "unlink", "validate",
               "attempt", "register", "exported", "noaudio", "reconcile", "reopen", "inventory",
               "repair", "skip", "guard", "renew", "select", "load", "running", "plan", "work",
               "flush", "neo4j", "qdrant", "finish"},
         cmd : Commands \cup {"none"},
         chain : BOOLEAN,                                   \* the run command
         retry : BOOLEAN,                                   \* the retry command
         phase : Phases \cup {"none"},                      \* whose status is set next
         audio : {"none", "downloaded", "absent", "failed"},
         complete : BOOLEAN,                                \* report_status
         todo : SUBSET Sources,
         item : Sources \cup {"none"},
         ok : BOOLEAN]

Idle == [at |-> "idle", cmd |-> "none", chain |-> FALSE, retry |-> FALSE, phase |-> "none",
         audio |-> "none", complete |-> TRUE, todo |-> {}, item |-> "none", ok |-> TRUE]

\* A new notebook, or one that the old layout's pipeline has extracted.
Init ==
  /\ written = [x \in Stores |-> {}]
  /\ proc = [p \in Procs |-> Idle]
  /\ reports = {} /\ extraction = [s \in Sources |-> "none"]
  /\ cut = FALSE /\ kills = 0 /\ failing = TRUE
  /\ \/ /\ offered = {} /\ podcast = FALSE /\ transcript = "none" /\ legacy = FALSE
        /\ status = [ph \in Phases |-> "unknown"]
     \/ /\ offered = {Transcript} /\ podcast = TRUE /\ transcript = "whole" /\ legacy = TRUE
        /\ \E st \in {"pending", "completed"} :
             status = [ph \in Phases |-> IF ph = "ingest" THEN st ELSE "completed"]

At(p, a) == proc[p].at = a
Move(p, r) == proc' = [proc EXCEPT ![p] = r]
Goto(p, a) == Move(p, [proc[p] EXCEPT !.at = a])
Put(ph, st) == status' = [status EXCEPT ![ph] = st]

\* load_sources
OnDisk == reports \cup (IF transcript = "none" THEN {} ELSE {Transcript})
NeedsExtract(S) == {s \in S : extraction[s] # "whole"}

-------------------------------------------------------------------------------
(* Commands begin, follow each other in a run, and are opened by the       *)
(* migration of the old layout.                                            *)

Begin(c, chain) ==
  [Idle EXCEPT !.at = IF c = "export" THEN "list" ELSE "open", !.cmd = c, !.chain = chain]

NextCmd(r) ==
  CASE r.chain /\ r.cmd = "export" -> Begin("transcribe", TRUE)
    [] r.chain /\ r.cmd = "transcribe" -> Begin("extract", TRUE)
    [] r.chain /\ r.cmd = "extract" -> Begin("ingest", TRUE)
    [] OTHER -> Idle

\* The operator keeps these to themselves.
Busy(r) == r.at # "idle" /\ (r.chain \/ r.cmd \in Alone)
MayStart(c, chain) == chain \/ c \in Alone => \A p \in Procs : ~Busy(proc[p])

Start(p, c) ==
  /\ At(p, "idle") /\ MayStart(c, FALSE)
  /\ Move(p, Begin(c, FALSE))
  /\ UNCHANGED <<offered, files, status, written, cut, kills, failing>>

Run(p) ==
  /\ At(p, "idle") /\ MayStart("export", TRUE)
  /\ Move(p, Begin("export", TRUE))
  /\ UNCHANGED <<offered, files, status, written, cut, kills, failing>>

Retry(p, c) ==
  /\ At(p, "idle") /\ c \in Phases /\ MayStart(c, FALSE)
  /\ Move(p, [Idle EXCEPT !.at = "open", !.cmd = c, !.retry = TRUE])
  /\ UNCHANGED <<offered, files, status, written, cut, kills, failing>>

\* Where a command goes once the database is open.
Opened(r) ==
  CASE r.cmd = "migrate" -> Idle
    [] r.retry -> [r EXCEPT !.at = "validate"]
    [] r.cmd = "export" /\ ~r.retry -> [r EXCEPT !.at = "register"]
    [] OTHER -> [r EXCEPT !.at = "select"]

\* Mutant: an old extraction whose new file is there is not ingested again.
OpenAndGoOn(p) ==
  /\ At(p, "open")
  /\ \/ ~legacy /\ Move(p, Opened(proc[p])) /\ UNCHANGED extraction
     \/ /\ legacy /\ extraction[Transcript] = "whole"
        /\ Goto(p, "unlink") /\ UNCHANGED extraction
     \/ /\ legacy /\ extraction[Transcript] = "none"
        /\ extraction' = [extraction EXCEPT ![Transcript] = "whole"]
        /\ Goto(p, "reactivate")
  /\ UNCHANGED <<offered, podcast, reports, transcript, legacy, status, written, cut, kills, failing>>

\* migrate_local: the new file is put in place atomically; one that is there must be valid.
Open(p) ==
  /\ At(p, "open")
  /\ \/ ~legacy /\ Move(p, Opened(proc[p])) /\ UNCHANGED extraction
     \/ legacy /\ extraction[Transcript] = "torn" /\ Move(p, Idle) /\ UNCHANGED extraction
     \/ /\ legacy /\ extraction[Transcript] # "torn"
        /\ extraction' = [extraction EXCEPT ![Transcript] = "whole"]
        /\ Goto(p, "reactivate")
  /\ UNCHANGED <<offered, podcast, reports, transcript, legacy, status, written, cut, kills, failing>>

Reactivate(p) ==
  /\ At(p, "reactivate")
  /\ IF status["ingest"] = "completed" THEN Put("ingest", "pending") ELSE UNCHANGED status
  /\ Goto(p, "unlink")
  /\ UNCHANGED <<offered, files, written, cut, kills, failing>>

\* Two processes that migrate at once: the second finds no file to delete and raises.
Unlink(p) ==
  /\ At(p, "unlink")
  /\ legacy' = FALSE
  /\ Move(p, IF legacy THEN Opened(proc[p]) ELSE Idle)
  /\ UNCHANGED <<offered, podcast, reports, transcript, extraction, status, written, cut, kills, failing>>

\* validate_retry, then attempt_retry, then the command.
Validate(p) ==
  LET ready == CASE proc[p].cmd \in {"transcribe", "extract"} -> status["export"] \in Settled
                 [] proc[p].cmd = "ingest" -> status["extract"] \in Settled
                 [] OTHER -> TRUE
  IN /\ At(p, "validate")
     /\ Move(p, IF ready THEN [proc[p] EXCEPT !.at = "attempt"] ELSE Idle)
     /\ UNCHANGED <<offered, files, status, written, cut, kills, failing>>

Attempt(p) ==
  LET c == proc[p].cmd
  IN /\ At(p, "attempt")
     /\ IF status[c] = "failed"
        THEN Put(c, "running") /\ Move(p, Begin(c, FALSE))
        ELSE UNCHANGED status /\ Move(p, Idle)
     /\ UNCHANGED <<offered, files, written, cut, kills, failing>>

-------------------------------------------------------------------------------
(* Export: download what is offered, then bring the statuses in line with  *)
(* what is on disk.                                                        *)

\* _export_audio: a file that is there is not fetched again.
List(p) ==
  /\ At(p, "list")
  /\ podcast' = (podcast \/ Transcript \in offered)
  /\ Move(p, [proc[p] EXCEPT !.at = "reports", !.audio = IF podcast' THEN "downloaded" ELSE "absent"])
  /\ UNCHANGED <<offered, reports, transcript, extraction, legacy, status, written, cut, kills, failing>>

\* _export_reports
ListReports(p) ==
  LET r == proc[p]
  IN /\ At(p, "reports")
     /\ Move(p, [r EXCEPT !.at = "fetch", !.todo = (offered \cap Reports) \ reports])
     /\ UNCHANGED <<offered, files, status, written, cut, kills, failing>>

Fetch(p) ==
  LET r == proc[p]
  IN /\ At(p, "fetch")
     /\ \/ r.todo = {} /\ Goto(p, "open") /\ UNCHANGED reports
        \/ \E s \in r.todo :
             /\ reports' = reports \cup {s}
             /\ Move(p, [r EXCEPT !.todo = @ \ {s}])
     /\ UNCHANGED <<offered, podcast, transcript, extraction, legacy, status, written, cut, kills, failing>>

\* The notebooks cannot be listed (an expired session): the command raises.  A failed
\* listing or download of a notebook's artifacts makes its export retryable.
ExportFails(p) ==
  LET r == proc[p]
  IN /\ failing
     /\ \/ At(p, "list") /\ Move(p, Idle)
        \/ At(p, "list") /\ ~podcast /\ Move(p, [r EXCEPT !.at = "reports", !.audio = "failed"])
        \/ At(p, "reports") /\ Move(p, [r EXCEPT !.at = "open", !.complete = FALSE])
        \/ /\ At(p, "fetch")
           /\ \E s \in r.todo : Move(p, [r EXCEPT !.todo = @ \ {s}, !.complete = FALSE])
     /\ UNCHANGED <<offered, files, status, written, cut, kills, failing>>

\* A notebook without an artifact and without a failure is left out; a slide deck is one.
Register(p) ==
  LET r == proc[p]
  IN /\ At(p, "register")
     /\ \/ /\ status' = [ph \in Phases |-> IF status[ph] = "unknown" THEN "pending" ELSE status[ph]]
           /\ Goto(p, "exported")
        \/ /\ r.audio = "absent" /\ r.complete /\ reports = {}
           /\ Move(p, NextCmd(r)) /\ UNCHANGED status
     /\ UNCHANGED <<offered, files, written, cut, kills, failing>>

Exported(p) ==
  LET r == proc[p]
  IN /\ At(p, "exported")
     /\ Put("export", IF r.audio = "failed" \/ ~r.complete THEN "failed" ELSE "completed")
     /\ Goto(p, IF r.audio = "absent" THEN "noaudio" ELSE "reconcile")
     /\ UNCHANGED <<offered, files, written, cut, kills, failing>>

NoAudio(p) ==
  /\ At(p, "noaudio")
  /\ Put("transcribe", "skipped")
  /\ Goto(p, "reconcile")
  /\ UNCHANGED <<offered, files, written, cut, kills, failing>>

\* reconcile_phases: an audio that appears after the phases were skipped reopens them.
Reconcile(p) ==
  LET r == proc[p]
  IN /\ At(p, "reconcile")
     /\ Move(p, IF r.audio # "absent" /\ status["transcribe"] = "skipped"
                THEN [r EXCEPT !.at = "reopen", !.phase = "transcribe"]
                ELSE [r EXCEPT !.at = "inventory"])
     /\ UNCHANGED <<offered, files, status, written, cut, kills, failing>>

\* Every status is a commit of its own.
Reopen(p) ==
  LET r == proc[p]
  IN /\ At(p, "reopen")
     /\ Put(r.phase, "pending")
     /\ Move(p, CASE r.phase = "transcribe" -> [r EXCEPT !.phase = "extract"]
                  [] r.phase = "extract" -> [r EXCEPT !.phase = "ingest"]
                  [] OTHER -> [r EXCEPT !.at = "inventory"])
     /\ UNCHANGED <<offered, files, written, cut, kills, failing>>

Inventory(p) ==
  LET r == proc[p]
  IN /\ At(p, "inventory")
     /\ Move(p, CASE transcript = "torn" -> [r EXCEPT !.at = "repair", !.phase = "extract"]
                  [] OnDisk = {} /\ r.audio = "absent" /\ r.complete ->
                       [r EXCEPT !.at = "skip", !.phase = "transcribe"]
                  [] transcript # "torn" /\ NeedsExtract(OnDisk) # {} ->
                       [r EXCEPT !.at = "guard", !.phase = "extract"]
                  [] OTHER -> NextCmd(r))
     /\ UNCHANGED <<offered, files, status, written, cut, kills, failing>>

\* A transcript that cannot be read: the failure of reconcile leaves the phases open.
Repair(p) ==
  LET r == proc[p]
  IN /\ At(p, "repair")
     /\ Put(r.phase, IF r.phase = "extract" THEN "failed" ELSE "pending")
     /\ Move(p, CASE r.phase = "extract" -> [r EXCEPT !.phase = "ingest"]
                  [] r.phase = "ingest" /\ r.audio # "absent" -> [r EXCEPT !.phase = "transcribe"]
                  [] OTHER -> NextCmd(r))
     /\ UNCHANGED <<offered, files, written, cut, kills, failing>>

Skip(p) ==
  LET r == proc[p]
  IN /\ At(p, "skip")
     /\ Put(r.phase, "skipped")
     /\ Move(p, CASE r.phase = "transcribe" -> [r EXCEPT !.phase = "extract"]
                  [] r.phase = "extract" -> [r EXCEPT !.phase = "ingest"]
                  [] OTHER -> NextCmd(r))
     /\ UNCHANGED <<offered, files, written, cut, kills, failing>>

\* A running phase is left alone; the status may change before it is set.
AfterRenew(r) == IF r.phase = "extract" THEN [r EXCEPT !.at = "guard", !.phase = "ingest"] ELSE NextCmd(r)

Guard(p) ==
  LET r == proc[p]
  IN /\ At(p, "guard")
     /\ Move(p, IF status[r.phase] = "running" THEN AfterRenew(r) ELSE [r EXCEPT !.at = "renew"])
     /\ UNCHANGED <<offered, files, status, written, cut, kills, failing>>

Renew(p) ==
  LET r == proc[p]
  IN /\ At(p, "renew")
     /\ Put(r.phase, "pending")
     /\ Move(p, AfterRenew(r))
     /\ UNCHANGED <<offered, files, written, cut, kills, failing>>

-------------------------------------------------------------------------------
(* Transcribe, extract, ingest: a target by its statuses, then by its      *)
(* files, which are read when the batch comes to the notebook.             *)

Due(c) ==
  /\ status[c] \in Retryable
  /\ c = "transcribe" => status["export"] = "completed"
  /\ c = "ingest" => status["extract"] = "completed"

Select(p) ==
  LET r == proc[p]
  IN /\ At(p, "select")
     /\ Move(p, IF Due(r.cmd) THEN [r EXCEPT !.at = "load"] ELSE NextCmd(r))
     /\ UNCHANGED <<offered, files, status, written, cut, kills, failing>>

Load(p) ==
  LET r == proc[p]
      extracted == {s \in Sources : extraction[s] # "none"}
      go(S) == IF S = {} THEN NextCmd(r) ELSE [r EXCEPT !.at = "running", !.todo = S]
  IN /\ At(p, "load")
     /\ Move(p, CASE r.cmd = "transcribe" -> (IF podcast THEN [r EXCEPT !.at = "running"]
                                                         ELSE NextCmd(r))
                  [] r.cmd = "extract" /\ transcript = "torn" ->
                       [r EXCEPT !.at = "finish", !.ok = FALSE]
                  [] r.cmd = "extract" /\ transcript # "torn" -> go(OnDisk)
                  [] OTHER -> go(extracted))
     /\ UNCHANGED <<offered, files, status, written, cut, kills, failing>>

Running(p) ==
  /\ At(p, "running")
  /\ Put(proc[p].cmd, "running")
  /\ Goto(p, IF proc[p].cmd = "extract" THEN "plan" ELSE "work")
  /\ UNCHANGED <<offered, files, written, cut, kills, failing>>

\* _sources_needing_extract
Plan(p) ==
  /\ At(p, "plan")
  /\ Move(p, [proc[p] EXCEPT !.at = "work", !.todo = NeedsExtract(@)])
  /\ UNCHANGED <<offered, files, status, written, cut, kills, failing>>

\* The transcript's file is begun.
Transcribe(p) ==
  /\ At(p, "work") /\ proc[p].cmd = "transcribe"
  /\ transcript' = "torn"
  /\ Move(p, [proc[p] EXCEPT !.at = "flush", !.item = Transcript])
  /\ UNCHANGED <<offered, podcast, reports, extraction, legacy, status, written, cut, kills, failing>>

\* One source is extracted and reviewed, and its file begun.
Extract(p) ==
  /\ At(p, "work") /\ proc[p].cmd = "extract"
  /\ \E s \in proc[p].todo :
       /\ extraction' = [extraction EXCEPT ![s] = "torn"]
       /\ Move(p, [proc[p] EXCEPT !.at = "flush", !.item = s, !.todo = @ \ {s}])
  /\ UNCHANGED <<offered, podcast, reports, transcript, legacy, status, written, cut, kills, failing>>

Flush(p) ==
  LET r == proc[p]
  IN /\ At(p, "flush")
     /\ IF r.cmd = "transcribe"
        THEN transcript' = "whole" /\ UNCHANGED extraction /\ Goto(p, "finish")
        ELSE /\ extraction' = [extraction EXCEPT ![r.item] = "whole"]
             /\ Move(p, [r EXCEPT !.at = "work", !.item = "none"])
             /\ UNCHANGED transcript
     /\ UNCHANGED <<offered, podcast, reports, legacy, status, written, cut, kills, failing>>

\* One file is read and checked: a torn one fails its source.
Ingest(p) ==
  /\ At(p, "work") /\ proc[p].cmd = "ingest"
  /\ \E s \in proc[p].todo :
       Move(p, IF extraction[s] = "whole"
               THEN [proc[p] EXCEPT !.at = "neo4j", !.item = s, !.todo = @ \ {s}]
               ELSE [proc[p] EXCEPT !.ok = FALSE, !.todo = @ \ {s}])
  /\ UNCHANGED <<offered, files, status, written, cut, kills, failing>>

\* Neo4j first, then Qdrant.
Write(p) ==
  LET r == proc[p]
  IN /\ r.at \in Stores
     /\ written' = [written EXCEPT ![r.at] = @ \cup {r.item}]
     /\ Move(p, IF r.at = "neo4j" THEN [r EXCEPT !.at = "qdrant"]
                ELSE [r EXCEPT !.at = "work", !.item = "none"])
     /\ UNCHANGED <<offered, files, status, cut, kills, failing>>

\* Without Qdrant the ingest command raises.  Unreadable metadata, a transcription, an
\* extraction or a write that raises fail the phase.
PhaseFails(p) ==
  LET r == proc[p]
  IN /\ failing
     /\ \/ At(p, "select") /\ r.cmd = "ingest" /\ Move(p, Idle)
        \/ At(p, "plan") /\ Move(p, [r EXCEPT !.at = "finish", !.ok = FALSE])
        \/ /\ At(p, "work") /\ r.cmd = "transcribe"
           /\ Move(p, [r EXCEPT !.at = "finish", !.ok = FALSE])
        \/ /\ At(p, "work") /\ r.cmd = "extract"
           /\ \E s \in r.todo : Move(p, [r EXCEPT !.ok = FALSE, !.todo = @ \ {s}])
        \/ /\ r.at \in Stores
           /\ Move(p, [r EXCEPT !.at = "work", !.item = "none", !.ok = FALSE])
     /\ UNCHANGED <<offered, files, status, written, cut, kills, failing>>

Worked(p) ==
  /\ At(p, "work") /\ proc[p].cmd \in {"extract", "ingest"} /\ proc[p].todo = {}
  /\ Goto(p, "finish")
  /\ UNCHANGED <<offered, files, status, written, cut, kills, failing>>

\* Mutant: a phase completes although a source has failed.
FinishAnyway(p) ==
  /\ At(p, "finish")
  /\ Put(proc[p].cmd, "completed")
  /\ Move(p, NextCmd(proc[p]))
  /\ UNCHANGED <<offered, files, written, cut, kills, failing>>

Finish(p) ==
  /\ At(p, "finish")
  /\ Put(proc[p].cmd, IF proc[p].ok THEN "completed" ELSE "failed")
  /\ Move(p, NextCmd(proc[p]))
  /\ UNCHANGED <<offered, files, written, cut, kills, failing>>

-------------------------------------------------------------------------------
(* The surroundings.                                                       *)

\* NotebookLM finishes an artifact.
Offer ==
  /\ \E s \in Sources \ offered : offered' = offered \cup {s}
  /\ UNCHANGED <<files, status, written, proc, cut, kills, failing>>

\* The failures come to an end.
Recover ==
  /\ failing
  /\ failing' = FALSE
  /\ UNCHANGED <<offered, files, status, written, proc, cut, kills>>

\* An export has opened the extraction again, or is about to, and not yet the ingestion.
Owes(r) == r.at \in {"reopen", "repair", "guard", "renew"} /\ r.phase = "ingest"

Kill(p) ==
  /\ ~At(p, "idle")
  /\ kills < MaxKills
  /\ kills' = kills + 1
  /\ cut' = (cut \/ Owes(proc[p]))
  /\ Move(p, Idle)
  /\ UNCHANGED <<offered, files, status, written, failing>>

OpenStep(p) == Open(p) \/ Reactivate(p) \/ Unlink(p) \/ Validate(p) \/ Attempt(p)
ExportStep(p) ==
  \/ List(p) \/ ListReports(p) \/ Fetch(p)
  \/ Register(p) \/ Exported(p) \/ NoAudio(p) \/ Reconcile(p) \/ Reopen(p) \/ Inventory(p)
  \/ Repair(p) \/ Skip(p) \/ Guard(p) \/ Renew(p)
PhaseStep(p) ==
  \/ Select(p) \/ Load(p) \/ Running(p) \/ Plan(p) \/ Transcribe(p) \/ Extract(p) \/ Flush(p)
  \/ Ingest(p) \/ Write(p) \/ Worked(p) \/ Finish(p)

Next ==
  \/ \E p \in Procs :
       \/ Run(p) \/ \E c \in Commands : Start(p, c) \/ Retry(p, c)
       \/ OpenStep(p) \/ ExportStep(p) \/ PhaseStep(p)
       \/ ExportFails(p) \/ PhaseFails(p) \/ Kill(p)
  \/ Offer \/ Recover

Spec == Init /\ [][Next]_vars

-------------------------------------------------------------------------------
(* Fairness: a process takes its next step, the operator gives the run     *)
(* command again and again, and NotebookLM, the models and the stores stop *)
(* failing.  Kills, other commands and new artifacts owe nothing.          *)

Fairness ==
  /\ \A p \in Procs : WF_vars(OpenStep(p) \/ ExportStep(p) \/ PhaseStep(p))
  /\ \A p \in Procs : SF_vars(Run(p))
  /\ WF_vars(Recover)

FairSpec == Spec /\ Fairness

-------------------------------------------------------------------------------
(* Properties.                                                             *)

TypeOK ==
  /\ offered \subseteq Sources /\ reports \subseteq Reports
  /\ transcript \in File /\ extraction \in [Sources -> File]
  /\ {podcast, legacy, cut, failing} \subseteq BOOLEAN
  /\ status \in [Phases -> Status]
  /\ written \in [Stores -> SUBSET Sources]
  /\ proc \in [Procs -> Proc]
  /\ kills \in 0 .. MaxKills

\* An ingestion that counts as done has put every extraction of the notebook into both
\* stores, whatever failed, was retried, migrated or transcribed meanwhile, unless an
\* export was killed after it had opened the extraction and before the ingestion.
ExtractedIsIngested ==
  status["ingest"] \in Settled /\ ~cut =>
    \A s \in Sources : extraction[s] = "whole" =>
      (legacy /\ s = Transcript) \/ \A x \in Stores : s \in written[x]

\* No source seeps away: "keine versickerten Quellen" (design of the multi-source
\* ingestion, acceptance criterion 8).  Not so for a cut export, nor for commands that overlap.
NoSourceSeepsAway ==
  status["ingest"] \in Settled =>
    \A s \in Sources : extraction[s] = "whole" =>
      (legacy /\ s = Transcript) \/ \A x \in Stores : s \in written[x]

\* What NotebookLM offers ends in both stores.
SourceIngested ==
  \A s \in Sources : s \in offered ~> (cut \/ \A x \in Stores : s \in written[x])

-------------------------------------------------------------------------------
(* The inductive invariant.  The commands that the operator keeps to       *)
(* themselves are alone; whoever opens the extraction again owes the       *)
(* ingestion; and what an ingestion has not written, it still has to do.   *)

\* Which command is at which place, and what it holds there.
PlaceOK(r) ==
  /\ r.at # "idle" => r.cmd \in Commands
  /\ r.chain \/ r.retry => r.cmd \in Phases
  /\ r.at \in {"validate", "attempt"} => r.retry
  /\ r.at \in {"list", "reports", "fetch", "register", "exported", "noaudio", "reconcile",
               "reopen", "inventory", "repair", "skip", "guard", "renew"} => r.cmd = "export"
  /\ r.at \in {"select", "load", "running", "work", "finish"} =>
       r.cmd \in {"transcribe", "extract", "ingest"}
  /\ r.at = "fetch" => r.todo \subseteq Reports
  /\ r.at = "plan" => r.cmd = "extract"
  /\ r.at = "flush" => r.cmd \in {"transcribe", "extract"} /\ r.item \in Sources
  /\ r.at \in Stores => r.cmd = "ingest" /\ r.item \in Sources
  /\ r.at \in {"reopen", "repair", "skip"} => r.phase \in {"transcribe", "extract", "ingest"}
  /\ r.at \in {"guard", "renew"} => r.phase \in {"extract", "ingest"}

AtMostOneBusy == \A p, q \in Procs : Busy(proc[p]) /\ Busy(proc[q]) => p = q

\* Until the old file is deleted no process has got past it.
LegacyInv ==
  legacy =>
    /\ transcript = "whole"
    /\ status["extract"] = "completed" /\ status["ingest"] \in {"pending", "completed"}
    /\ \A p \in Procs :
         /\ proc[p].at \in {"idle", "list", "reports", "fetch", "open", "reactivate", "unlink"}
         /\ At(p, "unlink") => status["ingest"] = "pending"

DebtInv ==
  status["extract"] \notin Settled /\ status["ingest"] \in Settled =>
    cut \/ \E p \in Procs : Owes(proc[p])

ExtractorInv(r) ==
  r.cmd = "extract" /\ r.at \in {"load", "running", "plan", "work", "flush", "finish"} =>
    /\ status["extract"] \notin Settled
    /\ status["ingest"] \notin Settled \/ cut
    /\ r.at \in {"running", "plan", "work", "flush"} => r.todo \subseteq OnDisk
    /\ r.at = "flush" => r.item \in OnDisk

\* Both stores hold the extraction of s, or r is about to write it.
Delivered(s) == \A x \in Stores : s \in written[x]
InHand(r, s) == s = r.item /\ (r.at = "neo4j" \/ (r.at = "qdrant" /\ s \in written["neo4j"]))

IngesterInv(r) ==
  r.cmd = "ingest" /\ r.at \in {"load", "running", "work", "neo4j", "qdrant", "finish"} =>
    /\ status["extract"] \in Settled
    /\ r.at = "finish" => r.todo = {}
    /\ r.at # "load" /\ r.ok => \A s \in Sources : extraction[s] = "whole" =>
                                  s \in r.todo \/ InHand(r, s) \/ Delivered(s)

SkipperInv(r) ==
  r.at = "skip" => /\ \A s \in Sources : extraction[s] = "none"
                   /\ r.phase = "ingest" => status["extract"] \in Settled

NlmInv ==
  /\ TypeOK
  /\ \A p \in Procs : PlaceOK(proc[p])
  /\ AtMostOneBusy
  /\ \A s \in Sources : extraction[s] # "none" => s \in OnDisk
  /\ LegacyInv
  /\ DebtInv
  /\ \A p \in Procs : ExtractorInv(proc[p]) /\ IngesterInv(proc[p]) /\ SkipperInv(proc[p])
  /\ ExtractedIsIngested
===============================================================================
