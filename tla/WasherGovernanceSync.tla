------------------------ MODULE WasherGovernanceSync ------------------------
(***************************************************************************)
(* Washer decisions projected onto the governance event store (ADR-0015):  *)
(* the decide request's best-effort synchronization, the operator's        *)
(* reconciliation tool, and the rest of the governance API                 *)
(* (src/backend/governance/adapters/washer_resolution_{sync,               *)
(* reconciliation}.py, src/tools/run_washer_governance_reconciliation.py). *)
(*                                                                         *)
(* Recording a decision is one step of WasherLedger, which WasherDecisions *)
(* implements; an event of another client is one step of GovernanceLedger; *)
(* the governance command the projection runs is modelled read by read, as *)
(* in GovernanceService, whose lock makes the final append one step.       *)
(***************************************************************************)
EXTENDS WasherLifecycle

CONSTANTS
  Threads,        \* threads of the server's request pool
  Tool,           \* the process of the reconciliation tool
  OtherCommands,  \* what other clients send to the governance API
  MaxDecisions,   \* bound of the model: no decision is recorded beyond it
  MaxOthers       \* bound of the model: events of other clients

ASSUME ToolAssumption ==
  Tool \notin Threads /\ MaxDecisions \in Nat /\ MaxOthers \in Nat

Processes == Threads \cup {Tool}

VARIABLES
  decisions,   \* the washer decision file
  events,      \* the governance event file
  configured,  \* the server's environment names an event store
  pass,        \* how the tool was started: --apply or not, store or none
  pc,          \* where each process is in sync_washer_decision
  at,          \* the decision a process is projecting (0: none)
  last,        \* the last decision of its scan
  seen,        \* previous_status as the governance command read it
  outcome,     \* the SyncResult of the decision just projected
  clean,       \* every projection of the tool's pass could be attempted
  shared       \* history: decisions two processes projected at once

vars == <<decisions, events, configured, pass, pc, at, last, seen, outcome,
          clean, shared>>

---------------------------------------------------------------------------
(* The projection of decision number i: its id is its place in the file,   *)
(* because decision ids are never used twice.                              *)

Native(k) == <<"native", k>>

SyncKey(k) == <<"washer-sync", k>>

Gov == INSTANCE GovernanceLifecycle
         WITH Commands <- OtherCommands, BlankKey <- Native("blank")

Ledger == INSTANCE GovernanceLedger
            WITH Commands <- OtherCommands, BlankKey <- Native("blank"),
                 log <- events

Washer == INSTANCE WasherLedger WITH log <- decisions

\* Other clients have the HTTP surface; only the projection is internal.
ASSUME OthersAssumption ==
  \A c \in OtherCommands :
    c.via = "http" /\ c.group \in Gov!Groups /\ c.new \in Gov!Statuses

CanonicalStatus ==
  [resolved |-> "resolved", accepted_as_is |-> "waived",
   rejected |-> "rejected"]

Eligible(i) == decisions[i].new \in DOMAIN CanonicalStatus

\* synchronized_at differs between any two attempts that could race.
Metadata(i, stamp) ==
  [source |-> i, key |-> decisions[i].key, stamp |-> stamp]

\* Mutant of CommandFor: the resolution's newest terminal status is
\* projected instead of the decision's own.
CommandForNewest(i, stamp) ==
  [aggregate |-> decisions[i].resolution, type |-> "washer_resolution",
   group |-> "resolution",
   new |-> LET terminal == {j \in History(decisions, decisions[i].resolution) :
                              Eligible(j)}
           IN CanonicalStatus[decisions[Max(terminal)].new],
   decision |-> i, key |-> SyncKey(decisions[i].key),
   body |-> Metadata(i, stamp), complete |-> TRUE, via |-> "internal"]

CommandFor(i, stamp) ==
  [aggregate |-> decisions[i].resolution, type |-> "washer_resolution",
   group |-> "resolution", new |-> CanonicalStatus[decisions[i].new],
   decision |-> i, key |-> SyncKey(decisions[i].key),
   body |-> Metadata(i, stamp), complete |-> TRUE, via |-> "internal"]

\* _existing_event_matches: everything but the stamp.
Matches(e, i) ==
  /\ e.type = "washer_resolution"
  /\ e.aggregate = decisions[i].resolution
  /\ e.decision = i
  /\ e.new = CanonicalStatus[decisions[i].new]
  /\ e.body.source = i /\ e.body.key = decisions[i].key

Mirrors(i) == {n \in DOMAIN events : Matches(events[n], i)}

GovernanceStatus(r) == Gov!EffectiveStatus(events, r, "resolution")

NoOutcome == "none"

NoPass == [apply |-> FALSE, store |-> FALSE]

Configured(p) == IF p = Tool THEN pass.store ELSE configured

DryRun(p) == p = Tool /\ ~pass.apply

Init ==
  /\ decisions = <<>>
  /\ events = <<>>
  /\ configured \in BOOLEAN
  /\ pass = NoPass
  /\ pc = [p \in Processes |-> "idle"]
  /\ at = [p \in Processes |-> 0]
  /\ last = [p \in Processes |-> 0]
  /\ seen = [p \in Processes |-> "none"]
  /\ outcome = [p \in Processes |-> NoOutcome]
  /\ clean = TRUE
  /\ shared = {}

Goto(p, next) == pc' = [pc EXCEPT ![p] = next]

Classified(p, o) ==
  Goto(p, "reported") /\ outcome' = [outcome EXCEPT ![p] = o]

Projecting(q, i) == at[q] = i /\ pc[q] # "reported"

\* Process p calls sync_washer_decision for decisions i .. j.
Begin(p, i, j) ==
  /\ Goto(p, "lookup")
  /\ at' = [at EXCEPT ![p] = i]
  /\ last' = [last EXCEPT ![p] = j]
  /\ shared' = IF \E q \in Processes \ {p} : Projecting(q, i)
                 THEN shared \cup {i} ELSE shared

---------------------------------------------------------------------------
(* What starts a projection. *)

\* A decide request records its decision; the projection follows.
Record(t) ==
  /\ pc[t] = "idle"
  /\ Len(decisions) < MaxDecisions
  /\ \E r \in Requests : Washer!Record(r)
  /\ Begin(t, Len(decisions) + 1, Len(decisions) + 1)
  /\ UNCHANGED <<events, configured, pass, seen, outcome, clean>>

\* A client sends a decide request again and is answered with the recorded
\* decision; that decision is projected again.
Retry(t) ==
  /\ pc[t] = "idle"
  /\ \E i \in DOMAIN decisions : Begin(t, i, i)
  /\ UNCHANGED <<decisions, events, configured, pass, seen, outcome, clean>>

\* The operator runs the tool, which scans the decisions there are.
StartPass ==
  /\ pc[Tool] = "idle"
  /\ decisions # <<>>
  /\ pass' \in [apply : BOOLEAN, store : BOOLEAN]
  /\ clean' = TRUE
  /\ Begin(Tool, 1, Len(decisions))
  /\ UNCHANGED <<decisions, events, configured, seen, outcome>>

---------------------------------------------------------------------------
(* sync_washer_decision: classify, look the key up, run the command. *)

SyncHits(i) == Gov!FindByKey(events, SyncKey(decisions[i].key))

\* Mutant of Lookup: a dry run is not told apart from --apply.
LookupAlwaysApplies(p) ==
  /\ pc[p] = "lookup"
  /\ Eligible(at[p]) /\ Configured(p) /\ SyncHits(at[p]) = {}
  /\ Goto(p, "find_key")
  /\ UNCHANGED <<decisions, events, configured, pass, at, last, seen, outcome,
                 clean, shared>>

\* Mutant of Lookup: any event under the key counts as this decision's.
LookupTrustsKey(p) ==
  /\ pc[p] = "lookup"
  /\ Eligible(at[p]) /\ Configured(p) /\ SyncHits(at[p]) # {}
  /\ Classified(p, "already_synchronized")
  /\ UNCHANGED <<decisions, events, configured, pass, at, last, seen, clean, shared>>

Lookup(p) ==
  LET i == at[p]
      hits == SyncHits(i)
  IN
  /\ pc[p] = "lookup"
  /\ \/ /\ ~Eligible(i)
        /\ Classified(p, IF decisions[i].new = "open"
                           THEN "skipped_open" ELSE "not_representable")
     \/ /\ Eligible(i) /\ ~Configured(p)
        /\ Classified(p, "governance_store_unconfigured")
     \/ /\ Eligible(i) /\ Configured(p) /\ hits # {}
        /\ Classified(p, IF Matches(events[Min(hits)], i)
                           THEN "already_synchronized"
                           ELSE "idempotency_conflict")
     \/ /\ Eligible(i) /\ Configured(p) /\ hits = {} /\ DryRun(p)
        /\ Classified(p, "would_synchronize")
     \/ /\ Eligible(i) /\ Configured(p) /\ hits = {} /\ ~DryRun(p)
        /\ Goto(p, "find_key") /\ UNCHANGED outcome
  /\ clean' = (clean /\ (p = Tool /\ Eligible(i) => Configured(p)))
  /\ UNCHANGED <<decisions, events, configured, pass, at, last, seen, shared>>

FindKey(p) ==
  LET i == at[p]
      hits == SyncHits(i)
  IN
  /\ pc[p] = "find_key"
  /\ \/ hits = {} /\ Goto(p, "find_decision") /\ UNCHANGED outcome
     \/ /\ hits # {}
        /\ Classified(p, IF Gov!Normalized(events[Min(hits)])
                              = Gov!Normalized(CommandFor(i, p))
                           THEN "already_synchronized"
                           ELSE "idempotency_conflict")
  /\ UNCHANGED <<decisions, events, configured, pass, at, last, seen, clean, shared>>

FindDecision(p) ==
  /\ pc[p] = "find_decision"
  /\ IF Gov!FindByDecision(events, at[p]) = {}
       THEN Goto(p, "validate") /\ UNCHANGED outcome
       ELSE Classified(p, "decision_id_collision")
  /\ UNCHANGED <<decisions, events, configured, pass, at, last, seen, clean, shared>>

Validate(p) ==
  LET c == CommandFor(at[p], p)
      previous == GovernanceStatus(c.aggregate)
  IN
  /\ pc[p] = "validate"
  /\ \/ /\ Gov!Legal("resolution", previous, c.new)
        /\ Goto(p, "append")
        /\ seen' = [seen EXCEPT ![p] = previous]
        /\ UNCHANGED outcome
     \/ /\ ~Gov!Legal("resolution", previous, c.new)
        /\ Classified(p, "invalid_transition")
        /\ UNCHANGED seen
  /\ UNCHANGED <<decisions, events, configured, pass, at, last, clean, shared>>

\* Mutant of AppendEvent: an append that raised after the replacement of the
\* file is tried again in place.
AppendEventRetried(p) ==
  /\ pc[p] = "append"
  /\ Len(events) < MaxDecisions + MaxOthers + 1
  /\ events' = Append(events, Gov!EventOf(CommandFor(at[p], p), seen[p]))
  /\ \/ UNCHANGED <<pc, outcome>>
     \/ Classified(p, "synchronized")
  /\ UNCHANGED <<decisions, configured, pass, at, last, seen, clean, shared>>

AppendEvent(p) ==
  /\ pc[p] = "append"
  /\ events' = Append(events, Gov!EventOf(CommandFor(at[p], p), seen[p]))
  /\ Classified(p, "synchronized")
  /\ UNCHANGED <<decisions, configured, pass, at, last, seen, clean, shared>>

\* The event file cannot be read or replaced: failed, but worth a retry.
StoreFails(p) ==
  /\ \/ pc[p] = "lookup" /\ Eligible(at[p]) /\ Configured(p)
     \/ pc[p] \in {"find_key", "find_decision", "validate", "append"}
  /\ Classified(p, "store_io_error")
  /\ clean' = (clean /\ p # Tool)
  /\ UNCHANGED <<decisions, events, configured, pass, at, last, seen, shared>>

\* The request is answered, whatever the outcome.
Respond(t) ==
  /\ t \in Threads
  /\ pc[t] = "reported"
  /\ Goto(t, "idle")
  /\ at' = [at EXCEPT ![t] = 0]
  /\ last' = [last EXCEPT ![t] = 0]
  /\ seen' = [seen EXCEPT ![t] = "none"]
  /\ outcome' = [outcome EXCEPT ![t] = NoOutcome]
  /\ UNCHANGED <<decisions, events, configured, pass, clean, shared>>

\* The tool goes on to the next decision of its scan, whatever the outcome.
NextDecision ==
  /\ pc[Tool] = "reported"
  /\ at[Tool] < last[Tool]
  /\ Begin(Tool, at[Tool] + 1, last[Tool])
  /\ outcome' = [outcome EXCEPT ![Tool] = NoOutcome]
  /\ seen' = [seen EXCEPT ![Tool] = "none"]
  /\ UNCHANGED <<decisions, events, configured, pass, clean>>

\* Mutant of EndScan: the tool gives up at the first refusal.
EndScanAtRefusal ==
  /\ pc[Tool] = "reported"
  /\ at[Tool] = last[Tool] \/ outcome[Tool] = "invalid_transition"
                         \/ outcome[Tool] = "idempotency_conflict"
  /\ Goto(Tool, "finished")
  /\ UNCHANGED <<decisions, events, configured, pass, at, last, seen, outcome,
                 clean, shared>>

EndScan ==
  /\ pc[Tool] = "reported"
  /\ at[Tool] = last[Tool]
  /\ Goto(Tool, "finished")
  /\ UNCHANGED <<decisions, events, configured, pass, at, last, seen, outcome,
                 clean, shared>>

ToolIdle ==
  /\ Goto(Tool, "idle")
  /\ at' = [at EXCEPT ![Tool] = 0]
  /\ last' = [last EXCEPT ![Tool] = 0]
  /\ seen' = [seen EXCEPT ![Tool] = "none"]
  /\ outcome' = [outcome EXCEPT ![Tool] = NoOutcome]
  /\ pass' = NoPass
  /\ clean' = TRUE
  /\ UNCHANGED <<decisions, events, configured, shared>>

\* The report is printed and the tool exits.
PrintReport == pc[Tool] = "finished" /\ ToolIdle

---------------------------------------------------------------------------
(* The environment: other governance clients, restarts, a killed tool. *)

Others == {n \in DOMAIN events : events[n].type # "washer_resolution"}

OtherClient ==
  /\ Cardinality(Others) < MaxOthers
  /\ Ledger!Next
  /\ UNCHANGED <<decisions, configured, pass, pc, at, last, seen, outcome,
                 clean, shared>>

\* The server dies and comes back, perhaps with another environment.
Restart ==
  /\ configured' \in BOOLEAN
  /\ pc' = [p \in Processes |-> IF p = Tool THEN pc[p] ELSE "idle"]
  /\ at' = [p \in Processes |-> IF p = Tool THEN at[p] ELSE 0]
  /\ last' = [p \in Processes |-> IF p = Tool THEN last[p] ELSE 0]
  /\ seen' = [p \in Processes |-> IF p = Tool THEN seen[p] ELSE "none"]
  /\ outcome' = [p \in Processes |-> IF p = Tool THEN outcome[p] ELSE NoOutcome]
  /\ UNCHANGED <<decisions, events, pass, clean, shared>>

ToolKilled == pc[Tool] # "idle" /\ ToolIdle

Project(p) ==
  \/ Lookup(p) \/ FindKey(p) \/ FindDecision(p) \/ Validate(p)
  \/ AppendEvent(p) \/ StoreFails(p) \/ Respond(p)

Scan == Project(Tool) \/ NextDecision \/ EndScan \/ PrintReport

Next ==
  \/ \E t \in Threads : Record(t) \/ Retry(t)
  \/ \E t \in Threads : Project(t)
  \/ StartPass \/ Scan
  \/ OtherClient \/ Restart \/ ToolKilled

Spec == Init /\ [][Next]_vars

\* A process that runs takes its next step.  Nothing obliges clients to
\* retry or the operator to run the tool.
FairSpec ==
  /\ Spec
  /\ \A t \in Threads : WF_vars(Project(t))
  /\ WF_vars(Scan)

---------------------------------------------------------------------------
Outcomes ==
  {NoOutcome, "synchronized", "already_synchronized", "would_synchronize",
   "skipped_open", "not_representable", "governance_store_unconfigured",
   "idempotency_conflict", "decision_id_collision", "invalid_transition",
   "store_io_error"}

\* Type correctness: a process that is not idle projects a decision that is
\* in the file, and the command runs only for a decision with a canonical
\* status, in a process that has a store and may write to it.
TypeOK ==
  /\ configured \in BOOLEAN
  /\ pass \in [apply : BOOLEAN, store : BOOLEAN]
  /\ clean \in BOOLEAN
  /\ shared \subseteq DOMAIN decisions
  /\ pc \in [Processes -> {"idle", "lookup", "find_key", "find_decision",
                           "validate", "append", "reported", "finished"}]
  /\ at \in [Processes -> Nat] /\ last \in [Processes -> Nat]
  /\ seen \in [Processes -> Gov!Statuses \cup {"none"}]
  /\ outcome \in [Processes -> Outcomes]
  /\ \A p \in Processes :
       /\ pc[p] # "idle" => at[p] \in 1 .. last[p] /\ last[p] <= Len(decisions)
       /\ pc[p] \in {"find_key", "find_decision", "validate", "append"} =>
            Eligible(at[p]) /\ Configured(p) /\ ~DryRun(p)

\* ADR-0015 sections 2-5: the projection never runs ahead of the decision
\* file and never invents anything.  Every event of the washer type, also
\* after crashes and in overlapping projections, mirrors one durable
\* terminal decision and leaves the initial status.
EventsMirrorDecisions ==
  \A n \in DOMAIN events :
    events[n].type = "washer_resolution" =>
      /\ events[n].decision \in DOMAIN decisions
      /\ Eligible(events[n].decision)
      /\ Matches(events[n], events[n].decision)
      /\ events[n].previous = "open"

\* The projection is idempotent: however often a decide request is retried
\* and the tool is run, killed and run again, a decision has at most one
\* event, unless two processes projected it at the same time.
MirroredOnce ==
  \A i \in DOMAIN decisions \ shared : Cardinality(Mirrors(i)) <= 1

\* Every outcome reported is true of the two files when it is reported: a
\* success names an event that is there, a refusal an obstacle that is.
OutcomesTrue ==
  \A p \in Processes :
    pc[p] = "reported" =>
      LET i == at[p]
          o == outcome[p]
      IN
      /\ o \in {"synchronized", "already_synchronized"} => Mirrors(i) # {}
      /\ o = "idempotency_conflict" => SyncHits(i) # {}
      /\ o = "decision_id_collision" => Gov!FindByDecision(events, i) # {}
      /\ o = "invalid_transition" =>
           GovernanceStatus(decisions[i].resolution) # "open"
      /\ o \in {"skipped_open", "not_representable"} <=>
           decisions[i].new \in {"open", "under_review"}
      /\ o = "would_synchronize" => p = Tool /\ ~pass.apply

Mirrored(i) == i \in DOMAIN decisions /\ Mirrors(i) # {}

CleanPass == pc[Tool] = "finished" /\ pass.apply /\ clean

Refused(i) ==
  \E p \in Processes :
    /\ at[p] = i
    /\ outcome[p] \in {"idempotency_conflict", "decision_id_collision",
                       "invalid_transition"}

\* ADR-0015 section 8: if the operator keeps running the tool until passes
\* get through, every recorded terminal decision is mirrored or reported as
\* refused for a reason; none is silently left behind by a crash, an
\* unconfigured store or an I/O error.
DecisionsSurface ==
  []<>CleanPass =>
    \A i \in 1 .. MaxDecisions :
      (i \in DOMAIN decisions /\ Eligible(i)) ~> (Mirrored(i) \/ Refused(i))

\* ADR-0015 section 9: every decision that is ever recorded is synchronized
\* inline or recoverable by a run of the reconciliation.
DecisionsRecoverable ==
  []<>CleanPass =>
    \A i \in 1 .. MaxDecisions :
      (i \in DOMAIN decisions /\ Eligible(i)) ~> Mirrored(i)
=============================================================================
