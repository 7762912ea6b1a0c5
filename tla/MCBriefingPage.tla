----------------------------- MODULE MCBriefingPage -----------------------------
(***************************************************************************)
(* The instance of BriefingPage for TLC: seven stories about who meets     *)
(* whom, instead of everything at once.                                    *)
(***************************************************************************)
EXTENDS BriefingPage

MCCalls == Asks \cup Clients \cup {NewButton, DeleteButton}

Story(faulty, open, acts) ==
  [faults |-> faulty, opened |-> open,
    acts |-> [act \in Acts |-> IF act \in DOMAIN acts THEN acts[act] ELSE 0]]

\* Two analyses while the user looks at other dossiers.
Reading == Story(0, TRUE, [select |-> 1, ask |-> 2])

\* An analysis is cancelled and another one asked for.
Cancelling == Story(0, TRUE, [ask |-> 2, cancel |-> 1])

\* One analysis, and something goes wrong.
Troubled == Story(1, FALSE, [select |-> 1, ask |-> 1, reload |-> 1])

\* Dossiers come and go while an analysis runs.
Editing == Story(0, TRUE, [ask |-> 1, create |-> 1, delete |-> 1])

\* The page edits while another client deletes and a call goes wrong.
Failing == Story(1, TRUE, [create |-> 1, delete |-> 1, reload |-> 1, clientDelete |-> 1])

\* The page and another client write to the same dossier.
Sharing == Story(0, TRUE, [ask |-> 1, clientSave |-> 1, clientStatus |-> 2])

\* Clients race for a country's dossier.
Racing == Story(0, TRUE, [clientSave |-> 2, clientCreate |-> 1, clientDelete |-> 1])

MCBudgets == {Reading, Cancelling, Troubled, Editing, Failing, Sharing, Racing}

===============================================================================
