------------------------------- MODULE AuditTrail -------------------------------
(***************************************************************************)
(* What the gateway promises about the requests it refuses                 *)
(* (app/models/threat_event.py:20, app/services/threat_logger.py:1-7): a   *)
(* refusal and the event that is due for it are one step, the event is     *)
(* kept, and it is lost only to a fault, to values no row can hold, to the *)
(* end of the process, or while every connection to the database is in     *)
(* use.  There are no middlewares, tasks, sessions or connections here.    *)
(***************************************************************************)
CONSTANT Requests

VARIABLES
  audited,  \* whether blocked requests are recorded, WAF_LOG_BLOCKED
  sound,    \* the requests whose events nothing prevents from being kept
  up,       \* whether the process serves
  full,     \* whether every connection is in use, which comes and goes
  outcome,  \* what has been decided about each request
  record    \* what has become of its event

\* A step of `full` alone is no step of the audit trail.
vars == <<audited, sound, up, outcome, record>>

Init ==
  /\ audited \in BOOLEAN
  /\ sound \in SUBSET Requests
  /\ up = TRUE
  /\ outcome = [r \in Requests |-> "open"]
  /\ record = [r \in Requests |-> "none"]

Decide(r, decision) ==
  /\ up
  /\ outcome[r] = "open"
  /\ outcome' = [outcome EXCEPT ![r] = decision]
  /\ UNCHANGED <<audited, sound, up>>

\* The request gets an answer that is not a refusal on record.
Serve(r) == Decide(r, "served") /\ UNCHANGED record

Refuse(r) ==
  /\ Decide(r, "limited") \/ Decide(r, "blocked")
  /\ record' = IF outcome'[r] = "limited" \/ audited
               THEN [record EXCEPT ![r] = "due"] ELSE record

Keep(r) ==
  /\ record[r] = "due"
  /\ record' = [record EXCEPT ![r] = "kept"]
  /\ UNCHANGED <<audited, sound, up, outcome>>

Lose(r) ==
  /\ record[r] = "due"
  /\ r \notin sound \/ ~up \/ full
  /\ record' = [record EXCEPT ![r] = "lost"]
  /\ UNCHANGED <<audited, sound, up, outcome>>

\* The process ends; what is due may be lost with it.
End ==
  /\ up
  /\ up' = FALSE
  /\ record' \in {f \in [Requests -> {"none", "kept", "due", "lost"}] :
                   \A r \in Requests :
                     f[r] = record[r] \/ (record[r] = "due" /\ f[r] = "lost")}
  /\ UNCHANGED <<audited, sound, outcome>>

Next ==
  \/ \E r \in Requests : Serve(r) \/ Refuse(r) \/ Keep(r) \/ Lose(r)
  \/ End

\* What is due does not stay due.
Fairness == \A r \in Requests : WF_vars(Keep(r) \/ Lose(r))

Spec == Init /\ [][Next]_vars /\ Fairness
=============================================================================
