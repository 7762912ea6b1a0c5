------------------------- MODULE IncidentLifecycle -------------------------
(***************************************************************************)
(* What the auto-promoter promises an analyst, seen from the incident      *)
(* table alone: a burst (a cluster key) is represented by at most one open *)
(* incident, an incident ends once and its end is never rewritten, and no  *)
(* incident is opened for a burst an analyst has silenced while the        *)
(* silence lasts.  ClusterStore implements this specification.             *)
(***************************************************************************)

CONSTANTS
  Keys,    \* cluster keys
  Ids,     \* incident ids
  KeyOf    \* the burst each incident id belongs to

VARIABLES
  status,  \* status of every incident in the database
  cooling  \* cluster keys under a live silence

vars == <<status, cooling>>

Ended == {"promoted", "silenced", "closed"}
DbStatus == Ended \cup {"absent", "open", "deleted"}

OpenIds(k) == {i \in Ids : KeyOf[i] = k /\ status[i] = "open"}

Init ==
  /\ status \in [Ids -> DbStatus]
  /\ \A i, j \in Ids : status[i] = "open" /\ status[j] = "open" /\ KeyOf[i] = KeyOf[j] => i = j
  /\ cooling = {}

Open(i) ==
  /\ status[i] = "absent"
  /\ OpenIds(KeyOf[i]) = {}
  /\ KeyOf[i] \notin cooling
  /\ status' = [status EXCEPT ![i] = "open"]
  /\ UNCHANGED cooling

End(i) ==
  /\ status[i] = "open"
  /\ \E s \in Ended : status' = [status EXCEPT ![i] = s]
  /\ UNCHANGED cooling

Delete(i) ==
  /\ status[i] # "absent"
  /\ status' = [status EXCEPT ![i] = "deleted"]
  /\ UNCHANGED cooling

Silence(k) ==
  /\ OpenIds(k) = {}
  /\ cooling' = cooling \cup {k}
  /\ UNCHANGED status

SilenceEnds(k) ==
  /\ cooling' = cooling \ {k}
  /\ UNCHANGED status

Next ==
  \/ \E i \in Ids : Open(i) \/ End(i) \/ Delete(i)
  \/ \E k \in Keys : Silence(k) \/ SilenceEnds(k)

Spec == Init /\ [][Next]_vars
=============================================================================
