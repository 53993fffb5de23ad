-------------------- MODULE WasherGovernanceSync_proofs --------------------
(***************************************************************************)
(* Safety of the washer-governance synchronization for any requests,       *)
(* resolutions, threads, other clients and bounds: the projection mirrors  *)
(* decisions that are in the file, once unless two processes overlap, and  *)
(* what it reports is true.  The inductive invariant adds to the checked   *)
(* properties what a process knows at each step of its projection, and     *)
(* that a status once left is never "open" again.                          *)
(***************************************************************************)
EXTENDS WasherGovernanceSync, LogLemmas, FiniteSetTheorems

(* ---- The inductive invariant. ---- *)

Recorded == Statuses \ {"blocked_authoritative_source"}

DecisionRows ==
  [resolution : Resolutions, previous : Active, new : Recorded,
   key : {r.key : r \in Requests}, body : {r.body : r \in Requests}]

Bodies == [source : Nat, key : {r.key : r \in Requests}, stamp : Processes]

EventRows ==
  [aggregate : Resolutions \cup {c.aggregate : c \in OtherCommands},
   type : {"washer_resolution"} \cup {c.type : c \in OtherCommands},
   group : Gov!Groups, previous : Gov!Statuses, new : Gov!Statuses,
   decision : Nat \cup {c.decision : c \in OtherCommands},
   key : {SyncKey(r.key) : r \in Requests} \cup {c.key : c \in OtherCommands},
   body : Bodies \cup {c.body : c \in OtherCommands}]

FilesTypeOK == decisions \in Seq(DecisionRows) /\ events \in Seq(EventRows)

\* Nothing moves an aggregate back to the initial status of its resolution.
ResolutionsFinal ==
  \A n \in DOMAIN events : events[n].group = "resolution" => events[n].new # "open"

Steps == {"idle", "lookup", "find_key", "find_decision", "validate", "append",
          "reported", "finished"}

CommandSteps == {"find_key", "find_decision", "validate", "append"}

ActiveSteps == {"lookup"} \cup CommandSteps

ProcessesTypeOK ==
  /\ configured \in BOOLEAN
  /\ pass \in [apply : BOOLEAN, store : BOOLEAN]
  /\ clean \in BOOLEAN
  /\ shared \subseteq DOMAIN decisions
  /\ pc \in [Processes -> Steps]
  /\ at \in [Processes -> Nat] /\ last \in [Processes -> Nat]
  /\ seen \in [Processes -> Gov!Statuses \cup {"none"}]
  /\ outcome \in [Processes -> Outcomes]

Skipped == {"skipped_open", "not_representable"}

\* An outcome that process p may report of the decision it projects.
Holds(p, o) ==
  LET i == at[p] IN
  /\ o \in {"synchronized", "already_synchronized"} => Mirrors(i) # {}
  /\ o = "idempotency_conflict" => SyncHits(i) # {}
  /\ o = "decision_id_collision" => Gov!FindByDecision(events, i) # {}
  /\ o = "invalid_transition" =>
       Gov!EventHistory(events, decisions[i].resolution, "resolution") # {}
  /\ o \in Skipped <=> decisions[i].new \in {"open", "under_review"}
  /\ o = "would_synchronize" => p = Tool /\ ~pass.apply

TrueOutcome(p) == Holds(p, outcome[p])

\* What a process knows at each step.
Knows(p) ==
  /\ pc[p] # "idle" => at[p] \in 1 .. last[p] /\ last[p] <= Len(decisions)
  /\ pc[p] \in CommandSteps => Eligible(at[p]) /\ Configured(p) /\ ~DryRun(p)
  /\ pc[p] = "append" => seen[p] = "open"
  /\ pc[p] \in {"validate", "append"} /\ at[p] \notin shared => Mirrors(at[p]) = {}
  /\ pc[p] = "reported" => TrueOutcome(p)

Alone ==
  \A p, q \in Processes :
    /\ p # q /\ at[p] = at[q]
    /\ pc[p] \in ActiveSteps /\ pc[q] \in ActiveSteps
    => at[p] \in shared

OneMirror ==
  \A i \in DOMAIN decisions \ shared : \A m, n \in Mirrors(i) : m = n

EventsInv == EventsMirrorDecisions /\ ResolutionsFinal /\ OneMirror

SyncInv ==
  /\ FilesTypeOK /\ ProcessesTypeOK /\ EventsInv /\ Alone
  /\ \A p \in Processes : Knows(p)

(* ---- The files only grow. ---- *)

FilesGrow ==
  /\ Len(decisions) <= Len(decisions')
  /\ \A i \in DOMAIN decisions : i \in DOMAIN decisions' /\ decisions'[i] = decisions[i]
  /\ \A n \in DOMAIN events : n \in DOMAIN events' /\ events'[n] = events[n]

\* Any mirror that is new is one of another decision.
NoNewMirrors(i) ==
  \A n \in DOMAIN events' \ DOMAIN events :
    events'[n].type = "washer_resolution" => events'[n].decision # i

LEMMA DecisionLength ==
  ASSUME FilesTypeOK
  PROVE  Len(decisions) \in Nat /\ DOMAIN decisions = 1 .. Len(decisions)
BY LenProperties DEF FilesTypeOK

\* What is true of a decision's two files stays true.
LEMMA Persists ==
  ASSUME FilesGrow, NEW i \in DOMAIN decisions
  PROVE  /\ decisions'[i] = decisions[i]
         /\ Eligible(i)' <=> Eligible(i)
         /\ Mirrors(i) \subseteq Mirrors(i)'
         /\ SyncHits(i) \subseteq SyncHits(i)'
         /\ Gov!FindByDecision(events, i) \subseteq Gov!FindByDecision(events, i)'
         /\ Gov!EventHistory(events, decisions[i].resolution, "resolution")
              \subseteq Gov!EventHistory(events, decisions[i].resolution, "resolution")'
         /\ NoNewMirrors(i) => Mirrors(i)' = Mirrors(i)
<1>1. decisions'[i] = decisions[i]
  BY DEF FilesGrow
<1>2. Mirrors(i) \subseteq Mirrors(i)'
  BY <1>1 DEF FilesGrow, Mirrors, Matches
<1>3. ASSUME NoNewMirrors(i), NEW n \in Mirrors(i)'
      PROVE  n \in Mirrors(i)
  BY <1>1, <1>3 DEF FilesGrow, Mirrors, Matches, NoNewMirrors
<1>4. SyncHits(i) \subseteq SyncHits(i)'
  BY <1>1 DEF FilesGrow, SyncHits, Gov!FindByKey
<1>5. Gov!FindByDecision(events, i) \subseteq Gov!FindByDecision(events, i)'
  BY DEF FilesGrow, Gov!FindByDecision
<1>6. Gov!EventHistory(events, decisions[i].resolution, "resolution")
        \subseteq Gov!EventHistory(events, decisions[i].resolution, "resolution")'
  BY <1>1 DEF FilesGrow, Gov!EventHistory
<1>. QED
  BY <1>1, <1>2, <1>3, <1>4, <1>5, <1>6 DEF Eligible

(* ---- What a step must keep for the processes that do not take it. ---- *)

Still(q) ==
  /\ pc'[q] = pc[q] /\ at'[q] = at[q] /\ last'[q] = last[q]
  /\ seen'[q] = seen[q] /\ outcome'[q] = outcome[q]
  /\ IF q = Tool THEN pass' = pass ELSE configured' = configured

LEMMA OthersStay ==
  ASSUME SyncInv, FilesTypeOK', FilesGrow, shared \subseteq shared', NEW q \in Processes,
         Still(q), NoNewMirrors(at[q]) \/ at[q] \in shared' \/ pc[q] \notin {"validate", "append"}
  PROVE  Knows(q)'
<1>1. PICK i : i = at[q]
  OBVIOUS
<1>2. Knows(q) /\ at'[q] = i /\ pc'[q] = pc[q]
  BY <1>1 DEF SyncInv, Still
<1>3. pc[q] # "idle" => i \in DOMAIN decisions
  BY <1>1, <1>2, DecisionLength DEF SyncInv, ProcessesTypeOK, Knows
<1>4. (pc[q] # "idle" => at[q] \in 1 .. last[q] /\ last[q] <= Len(decisions))'
  <2>1. Len(decisions) \in Nat /\ Len(decisions)' \in Nat /\ Len(decisions) <= Len(decisions)'
    BY DecisionLength, LenProperties DEF SyncInv, FilesTypeOK, FilesGrow
  <2>2. last[q] \in Nat
    BY DEF SyncInv, ProcessesTypeOK
  <2>. QED
    BY <1>1, <1>2, <2>1, <2>2 DEF Knows, Still
<1>5. (pc[q] \in CommandSteps => Eligible(at[q]) /\ Configured(q) /\ ~DryRun(q))'
  <2>1. Configured(q)' = Configured(q) /\ (DryRun(q)' <=> DryRun(q))
    BY DEF Still, Configured, DryRun
  <2>2. pc[q] \in CommandSteps => decisions'[i].new \in DOMAIN CanonicalStatus
    BY <1>1, <1>2, <1>3, Persists DEF Knows, CommandSteps, Eligible
  <2>. QED
    BY <1>1, <1>2, <2>1, <2>2 DEF Knows, Eligible
<1>6. (pc[q] = "append" => seen[q] = "open")'
  BY <1>2 DEF Knows, Still
<1>7. (pc[q] \in {"validate", "append"} /\ at[q] \notin shared => Mirrors(at[q]) = {})'
  <2>1. pc[q] \in {"validate", "append"} /\ i \notin shared' => Mirrors(i)' = {}
    BY <1>1, <1>2, <1>3, Persists DEF Knows
  <2>. QED
    BY <1>2, <2>1 DEF Mirrors, Matches
<1>8. (pc[q] = "reported" => TrueOutcome(q))'
  <2>. SUFFICES ASSUME pc[q] = "reported"
                PROVE  TrueOutcome(q)'
    BY <1>2
  <2>. DEFINE o == outcome[q]
  <2>1. TrueOutcome(q) /\ i \in DOMAIN decisions /\ outcome'[q] = o
    BY <1>2, <1>3 DEF Knows, Still
  <2>2. o \in {"synchronized", "already_synchronized"} => Mirrors(i)' # {}
    BY <1>1, <2>1, Persists DEF TrueOutcome, Holds
  <2>3. o = "idempotency_conflict" => SyncHits(i)' # {}
    BY <1>1, <2>1, Persists DEF TrueOutcome, Holds
  <2>4. o = "decision_id_collision" => Gov!FindByDecision(events, i)' # {}
    BY <1>1, <2>1, Persists DEF TrueOutcome, Holds
  <2>5. o = "invalid_transition" =>
          Gov!EventHistory(events, decisions[i].resolution, "resolution")' # {}
    BY <1>1, <2>1, Persists DEF TrueOutcome, Holds
  <2>6. o \in Skipped <=> decisions'[i].new \in {"open", "under_review"}
    BY <1>1, <2>1, Persists DEF TrueOutcome, Holds
  <2>7. o = "would_synchronize" => q = Tool /\ ~pass'.apply
    BY <2>1 DEF TrueOutcome, Holds, Still
  <2>. HIDE DEF o
  <2>8. outcome'[q] = o /\ at'[q] = i
    BY <1>2, <2>1
  <2>. QED
    BY <2>2, <2>3, <2>4, <2>5, <2>6, <2>7, <2>8
       DEF TrueOutcome, Holds, Mirrors, Matches, SyncHits, Gov!FindByKey, Gov!FindByDecision,
           Gov!EventHistory
<1>. QED
  BY <1>4, <1>5, <1>6, <1>7, <1>8 DEF Knows

\* The step of one process, with what it may write to the files.
LEMMA OneMoves ==
  ASSUME SyncInv, FilesTypeOK', ProcessesTypeOK', EventsInv',
         FilesGrow, shared \subseteq shared',
         NEW p \in Processes, Knows(p)',
         \A q \in Processes \ {p} :
           /\ Still(q)
           /\ NoNewMirrors(at[q]) \/ at[q] \in shared' \/ pc[q] \notin {"validate", "append"},
         pc'[p] \in ActiveSteps =>
           \/ pc[p] \in ActiveSteps /\ at'[p] = at[p]
           \/ \A q \in Processes \ {p} :
                pc[q] \in ActiveSteps /\ at[q] = at'[p] => at'[p] \in shared'
  PROVE  SyncInv'
<1>1. \A q \in Processes : Knows(q)'
  BY OthersStay
<1>2. Alone'
  <2>. SUFFICES ASSUME NEW q \in Processes, NEW r \in Processes,
                       q # r, at'[q] = at'[r], pc'[q] \in ActiveSteps, pc'[r] \in ActiveSteps
                PROVE  at'[q] \in shared'
    BY DEF Alone
  <2>1. CASE q # p /\ r # p
    BY <2>1 DEF Still, SyncInv, Alone
  <2>2. CASE q = p
    BY <2>2 DEF Still, SyncInv, Alone
  <2>3. CASE r = p
    BY <2>3 DEF Still, SyncInv, Alone
  <2>. QED
    BY <2>1, <2>2, <2>3
<1>. QED
  BY <1>1, <1>2 DEF SyncInv

LEMMA FilesStay ==
  ASSUME SyncInv, decisions' = decisions, events' = events, shared \subseteq shared'
  PROVE  FilesTypeOK' /\ EventsInv' /\ FilesGrow /\ \A i : NoNewMirrors(i)
<1>1. FilesTypeOK' /\ \A i : NoNewMirrors(i)
  BY DEF SyncInv, FilesTypeOK, NoNewMirrors
<1>2. FilesGrow
  BY DecisionLength DEF SyncInv, FilesGrow
<1>3. EventsInv'
  BY DEF SyncInv, EventsInv, EventsMirrorDecisions, ResolutionsFinal, OneMirror, Eligible,
         Matches, Mirrors
<1>. QED
  BY <1>1, <1>2, <1>3

(* ---- Steps of a projection that only read. ---- *)

\* The decision a process projects, and what its row says.
LEMMA ProjectedRow ==
  ASSUME SyncInv, NEW p \in Processes, pc[p] # "idle"
  PROVE  /\ at[p] \in DOMAIN decisions /\ at[p] \in 1 .. Len(decisions) /\ at[p] \in Nat
         /\ decisions[at[p]] \in DecisionRows
         /\ decisions[at[p]].new \in Recorded /\ decisions[at[p]].resolution \in Resolutions
         /\ decisions[at[p]].key \in {r.key : r \in Requests}
         /\ ~Eligible(at[p]) <=> decisions[at[p]].new \in {"open", "under_review"}
<1>1. at[p] \in 1 .. last[p] /\ last[p] <= Len(decisions) /\ last[p] \in Nat
  BY DEF SyncInv, Knows, ProcessesTypeOK
<1>2. at[p] \in DOMAIN decisions /\ at[p] \in 1 .. Len(decisions) /\ at[p] \in Nat
  BY <1>1, DecisionLength DEF SyncInv
<1>3. decisions[at[p]] \in DecisionRows
  BY <1>2 DEF SyncInv, FilesTypeOK
<1>4. DOMAIN CanonicalStatus = {"resolved", "accepted_as_is", "rejected"}
  BY DEF CanonicalStatus
<1>. QED
  BY <1>2, <1>3, <1>4 DEF DecisionRows, Recorded, Statuses, Eligible

LEMMA ReadingStep ==
  ASSUME SyncInv, NEW p \in Processes, pc[p] \in ActiveSteps,
         UNCHANGED <<decisions, events, configured, pass, at, last, shared>>,
         NEW next \in CommandSteps \cup {"reported"},
         NEW s \in Gov!Statuses \cup {"none"}, NEW o \in Outcomes,
         pc' = [pc EXCEPT ![p] = next], seen' = [seen EXCEPT ![p] = s],
         outcome' = [outcome EXCEPT ![p] = o], clean' \in BOOLEAN,
         next \in CommandSteps => Eligible(at[p]) /\ Configured(p) /\ ~DryRun(p),
         next = "append" => s = "open",
         next \in {"validate", "append"} /\ at[p] \notin shared => Mirrors(at[p]) = {},
         next = "reported" => Holds(p, o)
  PROVE  SyncInv'
<1>1. /\ decisions' = decisions /\ events' = events /\ configured' = configured
      /\ pass' = pass /\ at' = at /\ last' = last /\ shared' = shared
  OBVIOUS
<1>2. FilesTypeOK' /\ EventsInv' /\ FilesGrow /\ \A i : NoNewMirrors(i)
  BY <1>1, FilesStay
<1>3. ProcessesTypeOK'
  BY <1>1 DEF SyncInv, ProcessesTypeOK, Steps, CommandSteps
<1>4. /\ pc'[p] = next /\ seen'[p] = s /\ outcome'[p] = o
      /\ \A q \in Processes \ {p} :
           pc'[q] = pc[q] /\ seen'[q] = seen[q] /\ outcome'[q] = outcome[q]
  BY DEF SyncInv, ProcessesTypeOK
<1>5. \A q \in Processes \ {p} : Still(q)
  BY <1>1, <1>4 DEF Still
<1>6. Knows(p)'
  <2>1. next \in {"validate", "append"} /\ at[p] \notin shared => Mirrors(at[p])' = {}
    BY <1>1 DEF Mirrors, Matches
  <2>2. next = "reported" => TrueOutcome(p)'
    BY <1>1, <1>4 DEF TrueOutcome, Holds, Mirrors, Matches, SyncHits, Gov!FindByKey,
                      Gov!FindByDecision, Gov!EventHistory
  <2>3. at[p] \in 1 .. last[p] /\ last[p] <= Len(decisions)
    BY DEF SyncInv, Knows, ActiveSteps, CommandSteps
  <2>. QED
    BY <1>1, <1>4, <2>1, <2>2, <2>3 DEF Knows, Eligible, Configured, DryRun
<1>. QED
  BY <1>1, <1>2, <1>3, <1>5, <1>6, OneMoves

\* A read that ends the projection with an outcome that is true.
LEMMA ReportingStep ==
  ASSUME SyncInv, NEW p \in Processes, pc[p] \in ActiveSteps,
         UNCHANGED <<decisions, events, configured, pass, at, last, seen, shared>>,
         NEW o \in Outcomes, Classified(p, o), clean' \in BOOLEAN, Holds(p, o)
  PROVE  SyncInv'
<1>1. seen' = [seen EXCEPT ![p] = seen[p]] /\ seen[p] \in Gov!Statuses \cup {"none"}
  BY DEF SyncInv, ProcessesTypeOK
<1>2. pc' = [pc EXCEPT ![p] = "reported"] /\ outcome' = [outcome EXCEPT ![p] = o]
  BY DEF Classified, Goto
<1>. QED
  BY <1>1, <1>2, ReadingStep DEF CommandSteps

\* A read after which the projection goes on.
LEMMA GoingOn ==
  ASSUME SyncInv, NEW p \in Processes, pc[p] \in ActiveSteps,
         UNCHANGED <<decisions, events, configured, pass, at, last, seen, outcome, shared>>,
         NEW next \in CommandSteps \ {"append"}, Goto(p, next), clean' \in BOOLEAN,
         Eligible(at[p]) /\ Configured(p) /\ ~DryRun(p),
         next = "validate" => Mirrors(at[p]) = {}
  PROVE  SyncInv'
<1>1. /\ seen' = [seen EXCEPT ![p] = seen[p]] /\ seen[p] \in Gov!Statuses \cup {"none"}
      /\ outcome' = [outcome EXCEPT ![p] = outcome[p]] /\ outcome[p] \in Outcomes
  BY DEF SyncInv, ProcessesTypeOK
<1>2. PICK s \in Gov!Statuses \cup {"none"}, o \in Outcomes :
        seen' = [seen EXCEPT ![p] = s] /\ outcome' = [outcome EXCEPT ![p] = o]
  BY <1>1
<1>3. /\ pc' = [pc EXCEPT ![p] = next] /\ next \in CommandSteps
      /\ next # "append" /\ next # "reported"
  BY DEF Goto, CommandSteps
<1>. QED
  BY <1>2, <1>3, ReadingStep

LEMMA HitsAreEvents ==
  ASSUME SyncInv, NEW i, SyncHits(i) # {}
  PROVE  Min(SyncHits(i)) \in SyncHits(i) /\ Min(SyncHits(i)) \in DOMAIN events
<1>1. SyncHits(i) \in SUBSET Nat
  BY LenProperties DEF SyncHits, Gov!FindByKey, SyncInv, FilesTypeOK
<1>. QED
  BY <1>1, MinMember DEF SyncHits, Gov!FindByKey

LEMMA LookupStep ==
  ASSUME SyncInv, NEW p \in Processes, Lookup(p)
  PROVE  SyncInv'
<1>. DEFINE i == at[p]
<1>1. /\ pc[p] \in ActiveSteps /\ pc[p] # "idle"
      /\ UNCHANGED <<decisions, events, configured, pass, at, last, seen, shared>>
  BY DEF Lookup, ActiveSteps
<1>2. clean' \in BOOLEAN
  BY Zenon DEF Lookup
<1>3. ~Eligible(i) <=> decisions[i].new \in {"open", "under_review"}
  BY <1>1, ProjectedRow
<1>4. CASE ~Eligible(i) /\ Classified(p, IF decisions[i].new = "open"
                                           THEN "skipped_open" ELSE "not_representable")
  <2>1. PICK o \in Skipped : Classified(p, o)
    BY <1>4 DEF Skipped
  <2>2. Holds(p, o)
    BY <1>3, <1>4 DEF Holds, Skipped
  <2>. QED
    BY <1>1, <1>2, <2>1, <2>2, ReportingStep DEF Outcomes, Skipped
<1>5. CASE Eligible(i) /\ ~Configured(p) /\ Classified(p, "governance_store_unconfigured")
  <2>1. Holds(p, "governance_store_unconfigured")
    BY <1>3, <1>5 DEF Holds, Skipped
  <2>. QED
    BY <1>1, <1>2, <1>5, <2>1, ReportingStep DEF Outcomes
<1>6. CASE /\ Eligible(i) /\ SyncHits(i) # {}
           /\ Classified(p, IF Matches(events[Min(SyncHits(i))], i)
                              THEN "already_synchronized" ELSE "idempotency_conflict")
  <2>1. Matches(events[Min(SyncHits(i))], i) => Mirrors(i) # {}
    BY <1>6, HitsAreEvents DEF Mirrors
  <2>2. PICK o \in {"already_synchronized", "idempotency_conflict"} :
          Classified(p, o) /\ (o = "already_synchronized" => Mirrors(i) # {})
    BY <1>6, <2>1
  <2>3. Holds(p, o)
    BY <1>3, <1>6, <2>2 DEF Holds, Skipped
  <2>. QED
    BY <1>1, <1>2, <2>2, <2>3, ReportingStep DEF Outcomes
<1>7. CASE Eligible(i) /\ DryRun(p) /\ Classified(p, "would_synchronize")
  <2>1. Holds(p, "would_synchronize")
    BY <1>3, <1>7 DEF Holds, Skipped, DryRun
  <2>. QED
    BY <1>1, <1>2, <1>7, <2>1, ReportingStep DEF Outcomes
<1>8. CASE /\ Eligible(i) /\ Configured(p) /\ ~DryRun(p)
           /\ Goto(p, "find_key") /\ UNCHANGED outcome
  BY <1>1, <1>2, <1>8, GoingOn DEF CommandSteps
<1>. QED
  BY <1>4, <1>5, <1>6, <1>7, <1>8 DEF Lookup

LEMMA FindKeyStep ==
  ASSUME SyncInv, NEW p \in Processes, FindKey(p)
  PROVE  SyncInv'
<1>. DEFINE i == at[p]
<1>1. /\ pc[p] \in ActiveSteps /\ pc[p] \in CommandSteps /\ pc[p] # "idle"
      /\ UNCHANGED <<decisions, events, configured, pass, at, last, seen, clean, shared>>
  BY DEF FindKey, ActiveSteps, CommandSteps
<1>2. clean' \in BOOLEAN
  BY <1>1 DEF SyncInv, ProcessesTypeOK
<1>3. /\ Eligible(i) /\ Configured(p) /\ ~DryRun(p)
      /\ decisions[i].new \notin {"open", "under_review"}
  BY <1>1, ProjectedRow DEF SyncInv, Knows
<1>4. CASE Goto(p, "find_decision") /\ UNCHANGED outcome
  BY <1>1, <1>2, <1>3, <1>4, GoingOn DEF CommandSteps
<1>5. CASE /\ SyncHits(i) # {}
           /\ Classified(p, IF Gov!Normalized(events[Min(SyncHits(i))])
                                 = Gov!Normalized(CommandFor(i, p))
                              THEN "already_synchronized" ELSE "idempotency_conflict")
  <2>1. Gov!Normalized(events[Min(SyncHits(i))]) = Gov!Normalized(CommandFor(i, p))
          => Mirrors(i) # {}
    BY <1>5, HitsAreEvents DEF Mirrors, Matches, Gov!Normalized, CommandFor, Metadata
  <2>2. PICK o \in {"already_synchronized", "idempotency_conflict"} :
          Classified(p, o) /\ (o = "already_synchronized" => Mirrors(i) # {})
    BY <1>5, <2>1
  <2>3. Holds(p, o)
    BY <1>3, <1>5, <2>2 DEF Holds, Skipped
  <2>. QED
    BY <1>1, <1>2, <2>2, <2>3, ReportingStep DEF Outcomes
<1>. QED
  BY <1>4, <1>5 DEF FindKey

LEMMA FindDecisionStep ==
  ASSUME SyncInv, NEW p \in Processes, FindDecision(p)
  PROVE  SyncInv'
<1>. DEFINE i == at[p]
<1>1. /\ pc[p] \in ActiveSteps /\ pc[p] \in CommandSteps /\ pc[p] # "idle"
      /\ UNCHANGED <<decisions, events, configured, pass, at, last, seen, clean, shared>>
  BY DEF FindDecision, ActiveSteps, CommandSteps
<1>2. clean' \in BOOLEAN
  BY <1>1 DEF SyncInv, ProcessesTypeOK
<1>3. /\ Eligible(i) /\ Configured(p) /\ ~DryRun(p)
      /\ decisions[i].new \notin {"open", "under_review"}
  BY <1>1, ProjectedRow DEF SyncInv, Knows
<1>4. CASE /\ Gov!FindByDecision(events, i) = {}
           /\ Goto(p, "validate") /\ UNCHANGED outcome
  <2>1. Mirrors(i) = {}
    BY <1>4 DEF Mirrors, Matches, Gov!FindByDecision
  <2>. QED
    BY <1>1, <1>2, <1>3, <1>4, <2>1, GoingOn DEF CommandSteps
<1>5. CASE Gov!FindByDecision(events, i) # {} /\ Classified(p, "decision_id_collision")
  <2>1. Holds(p, "decision_id_collision")
    BY <1>3, <1>5 DEF Holds, Skipped
  <2>. QED
    BY <1>1, <1>2, <1>5, <2>1, ReportingStep DEF Outcomes
<1>. QED
  BY <1>4, <1>5 DEF FindDecision

\* A terminal status is reached from "open" and from nothing else.
LEMMA LegalFromOpen ==
  ASSUME NEW previous, NEW new \in {"resolved", "rejected", "waived"}
  PROVE  Gov!Legal("resolution", previous, new) <=> previous = "open"
BY DEF Gov!Legal, Gov!Transitions

LEMMA ValidateStep ==
  ASSUME SyncInv, NEW p \in Processes, Validate(p)
  PROVE  SyncInv'
<1>. DEFINE i == at[p]
            r == decisions[i].resolution
            previous == GovernanceStatus(r)
            new == CanonicalStatus[decisions[i].new]
<1>1. /\ pc[p] \in ActiveSteps /\ pc[p] \in CommandSteps /\ pc[p] # "idle"
      /\ UNCHANGED <<decisions, events, configured, pass, at, last, clean, shared>>
  BY DEF Validate, ActiveSteps, CommandSteps
<1>2. clean' \in BOOLEAN
  BY <1>1 DEF SyncInv, ProcessesTypeOK
<1>3. /\ Eligible(i) /\ Configured(p) /\ ~DryRun(p)
      /\ decisions[i].new \notin {"open", "under_review"}
      /\ i \notin shared => Mirrors(i) = {}
  BY <1>1, ProjectedRow DEF SyncInv, Knows, Validate
<1>4. new \in {"resolved", "rejected", "waived"}
  BY <1>3 DEF Eligible, CanonicalStatus
<1>5. Gov!Legal("resolution", previous, new) <=> previous = "open"
  BY <1>4, LegalFromOpen
<1>6. CommandFor(i, p).new = new /\ CommandFor(i, p).aggregate = r
  BY DEF CommandFor
<1>7. CASE /\ previous = "open" /\ Goto(p, "append")
           /\ seen' = [seen EXCEPT ![p] = "open"] /\ UNCHANGED outcome
  <2>1. /\ pc' = [pc EXCEPT ![p] = "append"]
        /\ outcome' = [outcome EXCEPT ![p] = outcome[p]] /\ outcome[p] \in Outcomes
    BY <1>7 DEF Goto, SyncInv, ProcessesTypeOK
  <2>2. "open" \in Gov!Statuses \cup {"none"} /\ "append" \in CommandSteps
    BY DEF Gov!Statuses, CommandSteps
  <2>. QED
    BY <1>1, <1>2, <1>3, <1>7, <2>1, <2>2, ReadingStep
<1>8. CASE /\ previous # "open" /\ Classified(p, "invalid_transition") /\ UNCHANGED seen
  <2>1. Gov!EventHistory(events, r, "resolution") # {}
    BY <1>8 DEF GovernanceStatus, Gov!EffectiveStatus, Gov!InitialStatus
  <2>2. Holds(p, "invalid_transition")
    BY <1>3, <2>1 DEF Holds, Skipped
  <2>. QED
    BY <1>1, <1>2, <1>8, <2>2, ReportingStep DEF Outcomes
<1>9. \/ /\ Gov!Legal("resolution", previous, new)
         /\ Goto(p, "append") /\ seen' = [seen EXCEPT ![p] = previous] /\ UNCHANGED outcome
      \/ /\ ~Gov!Legal("resolution", previous, new)
         /\ Classified(p, "invalid_transition") /\ UNCHANGED seen
  BY <1>6 DEF Validate
<1>. QED
  BY <1>5, <1>7, <1>8, <1>9

LEMMA StoreFailsStep ==
  ASSUME SyncInv, NEW p \in Processes, StoreFails(p)
  PROVE  SyncInv'
<1>1. /\ pc[p] \in ActiveSteps /\ pc[p] # "idle"
      /\ UNCHANGED <<decisions, events, configured, pass, at, last, seen, shared>>
      /\ Classified(p, "store_io_error")
  BY DEF StoreFails, ActiveSteps, CommandSteps
<1>2. clean' \in BOOLEAN
  BY Zenon DEF StoreFails
<1>3. Eligible(at[p])
  BY DEF StoreFails, SyncInv, Knows, CommandSteps
<1>4. Holds(p, "store_io_error")
  BY <1>1, <1>3, ProjectedRow DEF Holds, Skipped
<1>. QED
  BY <1>1, <1>2, <1>4, ReportingStep DEF Outcomes

(* ---- The step that writes the event. ---- *)

LEMMA AppendEventStep ==
  ASSUME SyncInv, NEW p \in Processes, AppendEvent(p)
  PROVE  SyncInv'
<1>. DEFINE e == Gov!EventOf(CommandFor(at[p], p), "open")
<1>1. /\ pc[p] \in ActiveSteps /\ pc[p] \in CommandSteps /\ pc[p] # "idle"
      /\ pc[p] \in {"validate", "append"}
      /\ decisions' = decisions /\ configured' = configured /\ pass' = pass /\ at' = at
      /\ last' = last /\ seen' = seen /\ clean' = clean /\ shared' = shared
      /\ pc' = [pc EXCEPT ![p] = "reported"]
      /\ outcome' = [outcome EXCEPT ![p] = "synchronized"]
  BY DEF AppendEvent, ActiveSteps, CommandSteps, Classified, Goto
<1>2. events' = Append(events, e)
  BY DEF AppendEvent, SyncInv, Knows
<1>3. PICK i \in DOMAIN decisions : i = at[p]
  BY <1>1, ProjectedRow
<1>4. /\ Eligible(i) /\ i \in Nat
      /\ decisions[i].new \notin {"open", "under_review"}
      /\ decisions[i].resolution \in Resolutions
      /\ decisions[i].key \in {r.key : r \in Requests}
      /\ i \notin shared => Mirrors(i) = {}
  BY <1>1, <1>3, ProjectedRow DEF SyncInv, Knows
<1>5. CanonicalStatus[decisions[i].new] \in {"resolved", "rejected", "waived"}
  BY <1>4 DEF Eligible, CanonicalStatus
<1>6. /\ e.type = "washer_resolution" /\ e.group = "resolution" /\ e.previous = "open"
      /\ e.decision = i /\ e.new # "open" /\ Matches(e, i)
  BY <1>3, <1>5 DEF Gov!EventOf, CommandFor, Matches, Metadata
<1>7. e \in EventRows
  <2>1. Metadata(i, p) \in Bodies
    BY <1>4 DEF Metadata, Bodies
  <2>2. SyncKey(decisions[i].key) \in {SyncKey(r.key) : r \in Requests}
    BY <1>4
  <2>3. CanonicalStatus[decisions[i].new] \in Gov!Statuses
    BY <1>5 DEF Gov!Statuses
  <2>4. "open" \in Gov!Statuses /\ "resolution" \in Gov!Groups
    BY DEF Gov!Statuses, Gov!Groups
  <2>. HIDE DEF e
  <2>5. e = [aggregate |-> decisions[i].resolution, type |-> "washer_resolution",
             group |-> "resolution", previous |-> "open",
             new |-> CanonicalStatus[decisions[i].new], decision |-> i,
             key |-> SyncKey(decisions[i].key), body |-> Metadata(i, p)]
    BY <1>3 DEF e, Gov!EventOf, CommandFor
  <2>. QED
    BY <1>4, <2>1, <2>2, <2>3, <2>4, <2>5 DEF EventRows
<1>. HIDE DEF e
<1>8. /\ events \in Seq(EventRows) /\ events' \in Seq(EventRows)
      /\ Len(events) \in Nat /\ DOMAIN events = 1 .. Len(events)
      /\ DOMAIN events' = 1 .. Len(events) + 1 /\ events'[Len(events) + 1] = e
      /\ \A n \in DOMAIN events : n \in DOMAIN events' /\ events'[n] = events[n]
  BY <1>2, <1>7, AppendedEntry DEF SyncInv, FilesTypeOK
<1>9. DOMAIN events' \ DOMAIN events = {Len(events) + 1}
  BY <1>8
<1>10. FilesGrow /\ FilesTypeOK'
  BY <1>1, <1>8, DecisionLength DEF FilesGrow, SyncInv, FilesTypeOK
<1>11. \A j : j # i => NoNewMirrors(j)
  BY <1>6, <1>8, <1>9 DEF NoNewMirrors
<1>12. ProcessesTypeOK'
  BY <1>1 DEF SyncInv, ProcessesTypeOK, Steps, Outcomes
<1>13. Len(events) + 1 \in Mirrors(i)'
  BY <1>1, <1>6, <1>8 DEF Mirrors, Matches
<1>14. EventsInv'
  <2>1. EventsMirrorDecisions' /\ ResolutionsFinal'
    <3>. SUFFICES ASSUME NEW n \in DOMAIN events'
                  PROVE  /\ events'[n].type = "washer_resolution" =>
                              /\ events'[n].decision \in DOMAIN decisions
                              /\ Eligible(events'[n].decision)
                              /\ Matches(events'[n], events'[n].decision)
                              /\ events'[n].previous = "open"
                         /\ events'[n].group = "resolution" => events'[n].new # "open"
      BY <1>1 DEF EventsMirrorDecisions, ResolutionsFinal, Eligible, Matches
    <3>1. CASE n \in DOMAIN events
      <4>1. events'[n] = events[n]
        BY <1>8, <3>1
      <4>. QED
        BY <3>1, <4>1 DEF SyncInv, EventsInv, EventsMirrorDecisions, ResolutionsFinal
    <3>2. CASE n \notin DOMAIN events
      <4>1. events'[n] = e
        BY <1>8, <1>9, <3>2
      <4>. QED
        BY <1>4, <1>6, <4>1
    <3>. QED
      BY <3>1, <3>2
  <2>2. OneMirror'
    <3>. SUFFICES ASSUME NEW j \in DOMAIN decisions, j \notin shared,
                         NEW m \in Mirrors(j)', NEW n \in Mirrors(j)'
                  PROVE  m = n
      BY <1>1 DEF OneMirror
    <3>1. CASE j # i
      <4>1. Mirrors(j)' = Mirrors(j)
        BY <1>10, <1>11, <3>1, Persists
      <4>. QED
        BY <4>1 DEF SyncInv, EventsInv, OneMirror
    <3>2. CASE j = i
      <4>1. Mirrors(i) = {}
        BY <1>4, <3>2
      <4>2. ASSUME NEW k \in Mirrors(i)'
            PROVE  k = Len(events) + 1
        <5>1. k \in DOMAIN events' /\ (k \in DOMAIN events => k \in Mirrors(i))
          BY <1>1, <1>8 DEF Mirrors, Matches
        <5>. QED
          BY <1>9, <4>1, <5>1
      <4>. QED
        BY <3>2, <4>2
    <3>. QED
      BY <3>1, <3>2
  <2>. QED
    BY <2>1, <2>2 DEF EventsInv
<1>15. ASSUME NEW q \in Processes \ {p}
       PROVE  /\ Still(q)
              /\ NoNewMirrors(at[q]) \/ at[q] \in shared' \/ pc[q] \notin {"validate", "append"}
  <2>1. Still(q)
    BY <1>1 DEF Still, SyncInv, ProcessesTypeOK
  <2>2. at[q] = i /\ pc[q] \in {"validate", "append"} => at[q] \in shared
    BY <1>1, <1>3 DEF SyncInv, Alone, ActiveSteps, CommandSteps
  <2>3. at[q] # i => NoNewMirrors(at[q])
    BY <1>11
  <2>. QED
    BY <1>1, <2>1, <2>2, <2>3
<1>16. Knows(p)'
  <2>1. pc'[p] = "reported" /\ outcome'[p] = "synchronized"
    BY <1>1 DEF SyncInv, ProcessesTypeOK
  <2>2. Mirrors(i)' # {}
    BY <1>13
  <2>3. TrueOutcome(p)'
    BY <1>1, <1>3, <1>4, <2>1, <2>2 DEF TrueOutcome, Holds, Skipped, Mirrors, Matches
  <2>4. at[p] \in 1 .. last[p] /\ last[p] <= Len(decisions)
    BY <1>1 DEF SyncInv, Knows
  <2>. QED
    BY <1>1, <2>1, <2>3, <2>4 DEF Knows, CommandSteps
<1>17. pc'[p] \notin ActiveSteps
  BY <1>1 DEF SyncInv, ProcessesTypeOK, ActiveSteps, CommandSteps
<1>. QED
  BY <1>1, <1>10, <1>12, <1>14, <1>15, <1>16, <1>17, OneMoves

(* ---- Steps that begin or end a projection. ---- *)

LEMMA BeginStep ==
  ASSUME SyncInv, FilesTypeOK', EventsInv', FilesGrow, \A i : NoNewMirrors(i),
         DOMAIN decisions \subseteq DOMAIN decisions',
         NEW p \in Processes, NEW i \in Nat, NEW j \in Nat, Begin(p, i, j),
         i \in 1 .. j, j <= Len(decisions'), i \in DOMAIN decisions',
         pass' \in [apply : BOOLEAN, store : BOOLEAN], clean' \in BOOLEAN,
         configured' = configured, p # Tool => pass' = pass,
         NEW s \in Gov!Statuses \cup {"none"}, NEW o \in Outcomes,
         seen' = [seen EXCEPT ![p] = s], outcome' = [outcome EXCEPT ![p] = o]
  PROVE  SyncInv'
<1>1. /\ pc' = [pc EXCEPT ![p] = "lookup"] /\ at' = [at EXCEPT ![p] = i]
      /\ last' = [last EXCEPT ![p] = j]
      /\ shared' = IF \E q \in Processes \ {p} : Projecting(q, i)
                     THEN shared \cup {i} ELSE shared
  BY DEF Begin, Goto
<1>2. ProcessesTypeOK'
  BY <1>1 DEF SyncInv, ProcessesTypeOK, Steps
<1>3. \A q \in Processes \ {p} : Still(q)
  BY <1>1 DEF SyncInv, ProcessesTypeOK, Still
<1>4. pc'[p] = "lookup" /\ at'[p] = i /\ last'[p] = j
  BY <1>1 DEF SyncInv, ProcessesTypeOK
<1>5. Knows(p)'
  BY <1>4 DEF Knows, CommandSteps
<1>6. \A q \in Processes \ {p} : pc[q] \in ActiveSteps /\ at[q] = i => i \in shared'
  BY <1>1 DEF Projecting, ActiveSteps, CommandSteps
<1>7. shared \subseteq shared'
  BY <1>1
<1>. QED
  BY <1>2, <1>3, <1>4, <1>5, <1>6, <1>7, OneMoves

\* A projection that begins without anything being recorded.
LEMMA BeginAgain ==
  ASSUME SyncInv, decisions' = decisions, events' = events,
         NEW p \in Processes, NEW i \in DOMAIN decisions, NEW j \in i .. Len(decisions),
         Begin(p, i, j),
         pass' \in [apply : BOOLEAN, store : BOOLEAN], clean' \in BOOLEAN,
         configured' = configured, p # Tool => pass' = pass,
         NEW s \in Gov!Statuses \cup {"none"}, NEW o \in Outcomes,
         seen' = [seen EXCEPT ![p] = s], outcome' = [outcome EXCEPT ![p] = o]
  PROVE  SyncInv'
<1>1. shared \subseteq shared'
  BY DEF Begin
<1>2. FilesTypeOK' /\ EventsInv' /\ FilesGrow /\ \A k : NoNewMirrors(k)
  BY <1>1, FilesStay
<1>3. /\ Len(decisions) \in Nat /\ DOMAIN decisions = 1 .. Len(decisions)
  BY DecisionLength DEF SyncInv
<1>4. i \in Nat /\ j \in Nat /\ i \in 1 .. j /\ j <= Len(decisions')
  BY <1>3
<1>. QED
  BY <1>2, <1>4, BeginStep

LEMMA RetryStep ==
  ASSUME SyncInv, NEW t \in Threads, Retry(t)
  PROVE  SyncInv'
<1>1. /\ decisions' = decisions /\ events' = events /\ configured' = configured
      /\ pass' = pass /\ seen' = seen /\ outcome' = outcome /\ clean' = clean
  BY DEF Retry
<1>2. PICK i \in DOMAIN decisions : Begin(t, i, i)
  BY DEF Retry
<1>3. i \in i .. Len(decisions) /\ t \in Processes
  BY DecisionLength DEF SyncInv, Processes
<1>4. PICK s \in Gov!Statuses \cup {"none"}, o \in Outcomes :
        seen' = [seen EXCEPT ![t] = s] /\ outcome' = [outcome EXCEPT ![t] = o]
  BY <1>1, <1>3 DEF SyncInv, ProcessesTypeOK
<1>5. pass' \in [apply : BOOLEAN, store : BOOLEAN] /\ clean' \in BOOLEAN
  BY <1>1 DEF SyncInv, ProcessesTypeOK
<1>. QED
  BY <1>1, <1>2, <1>3, <1>4, <1>5, BeginAgain

LEMMA StartPassStep ==
  ASSUME SyncInv, StartPass
  PROVE  SyncInv'
<1>1. /\ decisions' = decisions /\ events' = events /\ configured' = configured
      /\ seen' = seen /\ outcome' = outcome
      /\ pass' \in [apply : BOOLEAN, store : BOOLEAN] /\ clean' \in BOOLEAN
      /\ Begin(Tool, 1, Len(decisions)) /\ decisions # <<>>
  BY DEF StartPass
<1>2. 1 \in DOMAIN decisions /\ Len(decisions) \in 1 .. Len(decisions)
  BY <1>1, DecisionLength, EmptySeq, LenProperties DEF SyncInv, FilesTypeOK
<1>3. Tool \in Processes
  BY DEF Processes
<1>4. PICK s \in Gov!Statuses \cup {"none"}, o \in Outcomes :
        seen' = [seen EXCEPT ![Tool] = s] /\ outcome' = [outcome EXCEPT ![Tool] = o]
  BY <1>1, <1>3 DEF SyncInv, ProcessesTypeOK
<1>. QED
  BY <1>1, <1>2, <1>3, <1>4, BeginAgain

LEMMA NextDecisionStep ==
  ASSUME SyncInv, NextDecision
  PROVE  SyncInv'
<1>1. /\ decisions' = decisions /\ events' = events /\ configured' = configured
      /\ pass' = pass /\ clean' = clean
      /\ seen' = [seen EXCEPT ![Tool] = "none"]
      /\ outcome' = [outcome EXCEPT ![Tool] = NoOutcome]
      /\ pc[Tool] # "idle" /\ at[Tool] < last[Tool]
  BY DEF NextDecision
<1>2. Tool \in Processes
  BY DEF Processes
<1>3. PICK i \in Nat, j \in Nat : i = at[Tool] + 1 /\ j = last[Tool]
  BY <1>2 DEF SyncInv, ProcessesTypeOK
<1>4. Begin(Tool, i, j)
  BY <1>3 DEF NextDecision
<1>5. j <= Len(decisions) /\ at[Tool] \in 1 .. j
  BY <1>1, <1>2, <1>3 DEF SyncInv, Knows
<1>6. i \in DOMAIN decisions /\ j \in i .. Len(decisions)
  BY <1>1, <1>3, <1>5, DecisionLength DEF SyncInv
<1>7. pass' \in [apply : BOOLEAN, store : BOOLEAN] /\ clean' \in BOOLEAN
  BY <1>1 DEF SyncInv, ProcessesTypeOK
<1>8. NoOutcome \in Outcomes
  BY DEF Outcomes
<1>. QED
  BY <1>1, <1>2, <1>4, <1>6, <1>7, <1>8, BeginAgain

\* A decision that is recorded is projected next; no event mirrors it yet.
LEMMA DecisionAppended ==
  ASSUME NEW r \in Requests, Washer!Record(r)
  PROVE  \E d \in DecisionRows : decisions' = Append(decisions, d)
<1>1. PICK k : /\ Washer!Legal(Washer!StatusAt(k, r), r.new)
               /\ decisions' = Append(decisions, Washer!DecisionOf(r, Washer!StatusAt(k, r)))
  BY DEF Washer!Record
<1>2. PICK s : s = Washer!StatusAt(k, r)
  OBVIOUS
<1>3. s \in Active /\ r.new \in Recorded
  BY <1>1, <1>2, RequestsAssumption
     DEF Washer!Legal, Washer!AllowedTransitions, Washer!Active, Washer!Statuses,
         Active, Recorded, Statuses
<1>4. r.resolution \in Resolutions
  BY DEF Washer!Record
<1>5. [resolution |-> r.resolution, previous |-> s, new |-> r.new,
       key |-> r.key, body |-> r.body] \in DecisionRows
  BY <1>3, <1>4 DEF DecisionRows
<1>. QED
  BY <1>1, <1>2, <1>5 DEF Washer!DecisionOf

LEMMA RecordStep ==
  ASSUME SyncInv, NEW t \in Threads, Record(t)
  PROVE  SyncInv'
<1>1. /\ events' = events /\ configured' = configured /\ pass' = pass
      /\ seen' = seen /\ outcome' = outcome /\ clean' = clean
      /\ Begin(t, Len(decisions) + 1, Len(decisions) + 1)
  BY DEF Record
<1>2. PICK d \in DecisionRows : decisions' = Append(decisions, d)
  BY DecisionAppended DEF Record
<1>3. /\ decisions' \in Seq(DecisionRows) /\ Len(decisions) \in Nat
      /\ DOMAIN decisions = 1 .. Len(decisions)
      /\ Len(decisions') = Len(decisions) + 1
      /\ DOMAIN decisions' = 1 .. Len(decisions) + 1
      /\ \A i \in DOMAIN decisions : i \in DOMAIN decisions' /\ decisions'[i] = decisions[i]
  BY <1>2, AppendedEntry DEF SyncInv, FilesTypeOK
<1>4. FilesTypeOK' /\ FilesGrow /\ \A i : NoNewMirrors(i)
  BY <1>1, <1>3 DEF SyncInv, FilesTypeOK, FilesGrow, NoNewMirrors
<1>5. \A n \in DOMAIN events : events[n].type = "washer_resolution" =>
        events[n].decision \in DOMAIN decisions
  BY DEF SyncInv, EventsInv, EventsMirrorDecisions
<1>6. shared \subseteq shared'
  BY <1>1 DEF Begin
<1>7. EventsInv'
  <2>1. EventsMirrorDecisions'
    BY <1>1, <1>3 DEF SyncInv, EventsInv, EventsMirrorDecisions, Eligible, Matches
  <2>2. ResolutionsFinal'
    BY <1>1 DEF SyncInv, EventsInv, ResolutionsFinal
  <2>3. OneMirror'
    <3>. SUFFICES ASSUME NEW i \in DOMAIN decisions', i \notin shared,
                         NEW m \in Mirrors(i)', NEW n \in Mirrors(i)'
                  PROVE  m = n
      BY <1>6 DEF OneMirror
    <3>1. CASE i \in DOMAIN decisions
      <4>1. Mirrors(i)' = Mirrors(i)
        BY <1>4, <3>1, Persists
      <4>. QED
        BY <3>1, <4>1 DEF SyncInv, EventsInv, OneMirror
    <3>2. CASE i \notin DOMAIN decisions
      BY <1>1, <1>5, <3>2 DEF Mirrors, Matches
    <3>. QED
      BY <3>1, <3>2
  <2>. QED
    BY <2>1, <2>2, <2>3 DEF EventsInv
<1>8. PICK i \in Nat : i = Len(decisions) + 1
  BY <1>3
<1>9. /\ i \in 1 .. i /\ i <= Len(decisions') /\ i \in DOMAIN decisions' /\ Begin(t, i, i)
      /\ DOMAIN decisions \subseteq DOMAIN decisions'
  BY <1>1, <1>3, <1>8
<1>10. t \in Processes
  BY DEF Processes
<1>11. PICK s \in Gov!Statuses \cup {"none"}, o \in Outcomes :
         seen' = [seen EXCEPT ![t] = s] /\ outcome' = [outcome EXCEPT ![t] = o]
  BY <1>1, <1>10 DEF SyncInv, ProcessesTypeOK
<1>12. pass' \in [apply : BOOLEAN, store : BOOLEAN] /\ clean' \in BOOLEAN
  BY <1>1 DEF SyncInv, ProcessesTypeOK
<1>. QED
  BY <1>1, <1>4, <1>7, <1>9, <1>10, <1>11, <1>12, BeginStep

\* A process that is done leaves the files, and the other processes, alone.
LEMMA EndStep ==
  ASSUME SyncInv, UNCHANGED <<decisions, events, configured, shared>>,
         NEW p \in Processes, NEW next \in {"idle", "finished"},
         NEW a \in Nat, NEW l \in Nat, NEW s \in Gov!Statuses \cup {"none"}, NEW o \in Outcomes,
         pc' = [pc EXCEPT ![p] = next], at' = [at EXCEPT ![p] = a],
         last' = [last EXCEPT ![p] = l], seen' = [seen EXCEPT ![p] = s],
         outcome' = [outcome EXCEPT ![p] = o],
         next = "finished" => pc[p] # "idle" /\ a = at[p] /\ l = last[p],
         pass' \in [apply : BOOLEAN, store : BOOLEAN], clean' \in BOOLEAN,
         p # Tool => pass' = pass
  PROVE  SyncInv'
<1>1. decisions' = decisions /\ events' = events /\ configured' = configured /\ shared' = shared
  OBVIOUS
<1>2. FilesTypeOK' /\ EventsInv' /\ FilesGrow /\ \A i : NoNewMirrors(i)
  BY <1>1, FilesStay
<1>3. ProcessesTypeOK'
  BY <1>1 DEF SyncInv, ProcessesTypeOK, Steps
<1>4. \A q \in Processes \ {p} : Still(q)
  BY <1>1 DEF SyncInv, ProcessesTypeOK, Still
<1>5. pc'[p] = next /\ at'[p] = a /\ last'[p] = l
  BY DEF SyncInv, ProcessesTypeOK
<1>6. Knows(p)'
  <2>1. CASE next = "idle"
    BY <1>5, <2>1 DEF Knows, CommandSteps
  <2>2. CASE next = "finished"
    <3>1. at[p] \in 1 .. last[p] /\ last[p] <= Len(decisions)
      BY <2>2 DEF SyncInv, Knows
    <3>. QED
      BY <1>1, <1>5, <2>2, <3>1 DEF Knows, CommandSteps
  <2>. QED
    BY <2>1, <2>2
<1>7. pc'[p] \notin ActiveSteps
  BY <1>5 DEF ActiveSteps, CommandSteps
<1>. QED
  BY <1>1, <1>2, <1>3, <1>4, <1>6, <1>7, OneMoves

LEMMA RespondStep ==
  ASSUME SyncInv, NEW t \in Processes, Respond(t)
  PROVE  SyncInv'
<1>1. /\ UNCHANGED <<decisions, events, configured, shared>> /\ pass' = pass /\ clean' = clean
      /\ pc' = [pc EXCEPT ![t] = "idle"] /\ at' = [at EXCEPT ![t] = 0]
      /\ last' = [last EXCEPT ![t] = 0] /\ seen' = [seen EXCEPT ![t] = "none"]
      /\ outcome' = [outcome EXCEPT ![t] = NoOutcome]
  BY DEF Respond, Goto
<1>2. pass' \in [apply : BOOLEAN, store : BOOLEAN] /\ clean' \in BOOLEAN /\ NoOutcome \in Outcomes
  BY <1>1 DEF SyncInv, ProcessesTypeOK, Outcomes
<1>. QED
  BY <1>1, <1>2, EndStep

LEMMA EndScanStep ==
  ASSUME SyncInv, EndScan
  PROVE  SyncInv'
<1>1. /\ UNCHANGED <<decisions, events, configured, shared>> /\ pass' = pass /\ clean' = clean
      /\ pc' = [pc EXCEPT ![Tool] = "finished"] /\ pc[Tool] # "idle"
      /\ at' = at /\ last' = last /\ seen' = seen /\ outcome' = outcome
  BY DEF EndScan, Goto
<1>2. Tool \in Processes
  BY DEF Processes
<1>3. PICK a \in Nat, l \in Nat, s \in Gov!Statuses \cup {"none"}, o \in Outcomes :
        /\ a = at[Tool] /\ l = last[Tool] /\ s = seen[Tool] /\ o = outcome[Tool]
        /\ at' = [at EXCEPT ![Tool] = a] /\ last' = [last EXCEPT ![Tool] = l]
        /\ seen' = [seen EXCEPT ![Tool] = s] /\ outcome' = [outcome EXCEPT ![Tool] = o]
  BY <1>1, <1>2 DEF SyncInv, ProcessesTypeOK
<1>4. pass' \in [apply : BOOLEAN, store : BOOLEAN] /\ clean' \in BOOLEAN
  BY <1>1 DEF SyncInv, ProcessesTypeOK
<1>5. PICK next \in {"idle", "finished"} :
        /\ next = "finished" /\ pc' = [pc EXCEPT ![Tool] = next]
        /\ pc[Tool] # "idle" /\ a = at[Tool] /\ l = last[Tool]
  BY <1>1, <1>3
<1>6. /\ at' = [at EXCEPT ![Tool] = a] /\ last' = [last EXCEPT ![Tool] = l]
      /\ seen' = [seen EXCEPT ![Tool] = s] /\ outcome' = [outcome EXCEPT ![Tool] = o]
      /\ UNCHANGED <<decisions, events, configured, shared>>
  BY <1>1, <1>3
<1>. QED
  BY <1>2, <1>4, <1>5, <1>6, EndStep

LEMMA ToolStops ==
  ASSUME SyncInv, ToolIdle
  PROVE  SyncInv'
<1>1. /\ UNCHANGED <<decisions, events, configured, shared>> /\ pass' = NoPass /\ clean' = TRUE
      /\ pc' = [pc EXCEPT ![Tool] = "idle"] /\ at' = [at EXCEPT ![Tool] = 0]
      /\ last' = [last EXCEPT ![Tool] = 0] /\ seen' = [seen EXCEPT ![Tool] = "none"]
      /\ outcome' = [outcome EXCEPT ![Tool] = NoOutcome]
  BY DEF ToolIdle, Goto
<1>2. /\ pass' \in [apply : BOOLEAN, store : BOOLEAN] /\ clean' \in BOOLEAN
      /\ NoOutcome \in Outcomes /\ Tool \in Processes
  BY <1>1 DEF NoPass, Outcomes, Processes
<1>. QED
  BY <1>1, <1>2, EndStep

(* ---- The environment. ---- *)

\* An event of another client is of another type, so it mirrors nothing.
LEMMA OtherEvent ==
  ASSUME Ledger!Next
  PROVE  \E e \in EventRows : /\ events' = Append(events, e)
                              /\ e.type # "washer_resolution"
                              /\ e.group = "resolution" => e.new # "open"
<1>0. PICK c \in OtherCommands : Ledger!Record(c)
  BY DEF Ledger!Next
<1>1. PICK previous :
        /\ Ledger!Legal(c.group, previous, c.new) /\ ~Ledger!ExternallyOwned(c)
        /\ events' = Append(events, Ledger!EventOf(c, previous))
  BY <1>0 DEF Ledger!Record
<1>2. c.via = "http" /\ c.group \in Gov!Groups /\ c.new \in Gov!Statuses
  BY OthersAssumption
<1>3. c.type # "washer_resolution"
  BY <1>1, <1>2 DEF Ledger!ExternallyOwned, Ledger!RestrictedTypes
<1>4. previous \in Gov!Statuses /\ (c.group = "resolution" => c.new # "open")
  BY <1>1, <1>2 DEF Ledger!Legal, Ledger!Transitions, Gov!Groups, Gov!Statuses
<1>. DEFINE e == [aggregate |-> c.aggregate, type |-> c.type, group |-> c.group,
                  previous |-> previous, new |-> c.new, decision |-> c.decision,
                  key |-> c.key, body |-> c.body]
<1>5. e \in EventRows
  BY <1>2, <1>4 DEF EventRows
<1>6. Ledger!EventOf(c, previous) = e
  BY DEF Ledger!EventOf
<1>. QED
  BY <1>1, <1>3, <1>4, <1>5, <1>6

LEMMA OtherClientStep ==
  ASSUME SyncInv, OtherClient
  PROVE  SyncInv'
<1>1. /\ decisions' = decisions /\ configured' = configured /\ pass' = pass /\ pc' = pc
      /\ at' = at /\ last' = last /\ seen' = seen /\ outcome' = outcome
      /\ clean' = clean /\ shared' = shared
  BY DEF OtherClient
<1>2. PICK e \in EventRows : /\ events' = Append(events, e)
                             /\ e.type # "washer_resolution"
                             /\ e.group = "resolution" => e.new # "open"
  BY OtherEvent DEF OtherClient
<1>3. /\ events' \in Seq(EventRows) /\ Len(events) \in Nat
      /\ DOMAIN events = 1 .. Len(events)
      /\ DOMAIN events' = 1 .. Len(events) + 1 /\ events'[Len(events) + 1] = e
      /\ \A n \in DOMAIN events : n \in DOMAIN events' /\ events'[n] = events[n]
  BY <1>2, AppendedEntry DEF SyncInv, FilesTypeOK
<1>4. DOMAIN events' \ DOMAIN events = {Len(events) + 1}
  BY <1>3
<1>5. FilesTypeOK' /\ FilesGrow /\ \A i : NoNewMirrors(i)
  <2>1. \A i : NoNewMirrors(i)
    BY <1>2, <1>3, <1>4 DEF NoNewMirrors
  <2>. QED
    BY <1>1, <1>3, <2>1, DecisionLength DEF SyncInv, FilesTypeOK, FilesGrow
<1>6. \A n \in DOMAIN events' : events'[n] = IF n \in DOMAIN events THEN events[n] ELSE e
  BY <1>3, <1>4
<1>7. EventsInv'
  <2>1. EventsMirrorDecisions'
    BY <1>1, <1>2, <1>6 DEF SyncInv, EventsInv, EventsMirrorDecisions, Eligible, Matches
  <2>2. ResolutionsFinal'
    BY <1>2, <1>6 DEF SyncInv, EventsInv, ResolutionsFinal
  <2>3. OneMirror'
    <3>1. \A i \in DOMAIN decisions : Mirrors(i)' = Mirrors(i)
      BY <1>5, Persists
    <3>. QED
      BY <1>1, <3>1 DEF SyncInv, EventsInv, OneMirror
  <2>. QED
    BY <2>1, <2>2, <2>3 DEF EventsInv
<1>8. ProcessesTypeOK'
  BY <1>1 DEF SyncInv, ProcessesTypeOK
<1>9. \A q \in Processes : Still(q)
  BY <1>1 DEF Still
<1>10. \A q \in Processes : Knows(q)'
  BY <1>1, <1>5, <1>9, OthersStay
<1>11. Alone'
  BY <1>1 DEF SyncInv, Alone
<1>. QED
  BY <1>5, <1>7, <1>8, <1>10, <1>11 DEF SyncInv

LEMMA RestartStep ==
  ASSUME SyncInv, Restart
  PROVE  SyncInv'
<1>1. /\ decisions' = decisions /\ events' = events /\ pass' = pass /\ clean' = clean
      /\ shared' = shared /\ configured' \in BOOLEAN
      /\ pc' = [p \in Processes |-> IF p = Tool THEN pc[p] ELSE "idle"]
      /\ at' = [p \in Processes |-> IF p = Tool THEN at[p] ELSE 0]
      /\ last' = [p \in Processes |-> IF p = Tool THEN last[p] ELSE 0]
      /\ seen' = [p \in Processes |-> IF p = Tool THEN seen[p] ELSE "none"]
      /\ outcome' = [p \in Processes |-> IF p = Tool THEN outcome[p] ELSE NoOutcome]
  BY DEF Restart
<1>2. FilesTypeOK' /\ EventsInv' /\ FilesGrow /\ \A i : NoNewMirrors(i)
  BY <1>1, FilesStay
<1>3. ProcessesTypeOK'
  BY <1>1 DEF SyncInv, ProcessesTypeOK, Steps, Outcomes
<1>4. \A q \in Processes \ {Tool} : pc'[q] = "idle"
  BY <1>1
<1>5. Tool \in Processes
  BY DEF Processes
<1>6. Still(Tool)
  BY <1>1, <1>5 DEF Still
<1>7. \A q \in Processes : Knows(q)'
  <2>1. Knows(Tool)'
    BY <1>1, <1>2, <1>5, <1>6, OthersStay
  <2>2. ASSUME NEW q \in Processes \ {Tool}
        PROVE  Knows(q)'
    BY <1>4 DEF Knows, CommandSteps
  <2>. QED
    BY <2>1, <2>2
<1>8. Alone'
  BY <1>4 DEF Alone, ActiveSteps, CommandSteps
<1>. QED
  BY <1>2, <1>3, <1>7, <1>8 DEF SyncInv

(* ---- The invariant. ---- *)

LEMMA SyncInvInit ==
  ASSUME Init
  PROVE  SyncInv
<1>1. decisions = <<>> /\ events = <<>>
  BY DEF Init
<1>2. FilesTypeOK /\ DOMAIN decisions = {} /\ DOMAIN events = {}
  BY <1>1, EmptySeq DEF FilesTypeOK
<1>3. ProcessesTypeOK
  BY DEF Init, ProcessesTypeOK, Steps, Outcomes, NoPass, NoOutcome
<1>4. EventsInv
  BY <1>2 DEF EventsInv, EventsMirrorDecisions, ResolutionsFinal, OneMirror
<1>5. Alone /\ \A p \in Processes : Knows(p)
  BY DEF Init, Alone, Knows, ActiveSteps, CommandSteps
<1>. QED
  BY <1>2, <1>3, <1>4, <1>5 DEF SyncInv

LEMMA StutterKeepsSyncInv ==
  ASSUME SyncInv, UNCHANGED vars
  PROVE  SyncInv'
<1>1. /\ decisions' = decisions /\ events' = events /\ shared' = shared
      /\ configured' = configured /\ pass' = pass /\ clean' = clean
      /\ pc' = pc /\ at' = at /\ last' = last /\ seen' = seen /\ outcome' = outcome
  BY DEF vars
<1>2. FilesTypeOK' /\ EventsInv' /\ FilesGrow /\ \A i : NoNewMirrors(i)
  BY <1>1, FilesStay
<1>3. \A q \in Processes : Still(q)
  BY <1>1 DEF Still
<1>4. \A q \in Processes : Knows(q)'
  BY <1>1, <1>2, <1>3, OthersStay
<1>5. ProcessesTypeOK' /\ Alone'
  BY <1>1 DEF SyncInv, ProcessesTypeOK, Alone
<1>. QED
  BY <1>2, <1>4, <1>5 DEF SyncInv

LEMMA NextKeepsSyncInv ==
  ASSUME SyncInv, [Next]_vars
  PROVE  SyncInv'
<1>1. ASSUME NEW p \in Processes, Project(p)
      PROVE  SyncInv'
  BY <1>1, LookupStep, FindKeyStep, FindDecisionStep, ValidateStep, AppendEventStep,
     StoreFailsStep, RespondStep DEF Project
<1>2. ASSUME NEW t \in Threads, Record(t) \/ Retry(t)
      PROVE  SyncInv'
  BY <1>2, RecordStep, RetryStep
<1>3. CASE StartPass
  BY <1>3, StartPassStep
<1>4. CASE Scan
  BY <1>1, <1>4, NextDecisionStep, EndScanStep, ToolStops DEF Scan, PrintReport, Processes
<1>5. CASE OtherClient
  BY <1>5, OtherClientStep
<1>6. CASE Restart
  BY <1>6, RestartStep
<1>7. CASE ToolKilled
  BY <1>7, ToolStops DEF ToolKilled
<1>8. CASE UNCHANGED vars
  BY <1>8, StutterKeepsSyncInv
<1>. QED
  BY <1>1, <1>2, <1>3, <1>4, <1>5, <1>6, <1>7, <1>8 DEF Next, Processes

\* Type correctness: a process that is not idle projects a decision that is in
\* the file, and the governance command runs only where it may.
THEOREM SyncTypeCorrect == Spec => []TypeOK
<1>1. Init => SyncInv
  BY SyncInvInit
<1>2. SyncInv /\ [Next]_vars => SyncInv'
  BY NextKeepsSyncInv
<1>3. SyncInv => TypeOK
  BY DEF SyncInv, ProcessesTypeOK, Knows, TypeOK, Steps, CommandSteps
<1>. QED
  BY <1>1, <1>2, <1>3, PTL DEF Spec

\* However many requests, passes of the tool and other clients overlap, and
\* after crashes: every event of the washer type mirrors one recorded terminal
\* decision and leaves the initial status (ADR-0015 sections 2-5,
\* sync_washer_decision).
THEOREM EventsAlwaysMirror == Spec => []EventsMirrorDecisions
<1>1. Init => SyncInv
  BY SyncInvInit
<1>2. SyncInv /\ [Next]_vars => SyncInv'
  BY NextKeepsSyncInv
<1>3. SyncInv => EventsMirrorDecisions
  BY DEF SyncInv, EventsInv
<1>. QED
  BY <1>1, <1>2, <1>3, PTL DEF Spec

LEMMA AtMostOne ==
  ASSUME NEW S, \A m, n \in S : m = n
  PROVE  Cardinality(S) <= 1
<1>1. CASE S = {}
  BY <1>1, FS_EmptySet
<1>2. CASE S # {}
  <2>1. PICK n : S = {n}
    BY <1>2
  <2>2. Cardinality({n}) = 1
    BY FS_Singleton
  <2>. QED
    BY <2>1, <2>2
<1>. QED
  BY <1>1, <1>2

\* The projection is idempotent: retried, restarted and repeated, it writes one
\* event for a decision, unless two processes were at that decision at once.
THEOREM MirroredAtMostOnce == Spec => []MirroredOnce
<1>1. Init => SyncInv
  BY SyncInvInit
<1>2. SyncInv /\ [Next]_vars => SyncInv'
  BY NextKeepsSyncInv
<1>3. SyncInv => MirroredOnce
  BY AtMostOne DEF SyncInv, EventsInv, OneMirror, MirroredOnce
<1>. QED
  BY <1>1, <1>2, <1>3, PTL DEF Spec

\* An aggregate that has a resolution event is not open any more.
LEMMA NotOpen ==
  ASSUME SyncInv, NEW r, Gov!EventHistory(events, r, "resolution") # {}
  PROVE  GovernanceStatus(r) # "open"
<1>. DEFINE H == Gov!EventHistory(events, r, "resolution")
<1>1. Len(events) \in Nat /\ DOMAIN events = 1 .. Len(events)
  BY LenProperties DEF SyncInv, FilesTypeOK
<1>2. H \in SUBSET (0 .. Len(events))
  BY <1>1 DEF Gov!EventHistory
<1>3. Max(H) \in H
  BY <1>1, <1>2, MaxMember
<1>4. Max(H) \in DOMAIN events /\ events[Max(H)].group = "resolution"
  BY <1>3 DEF Gov!EventHistory
<1>5. events[Max(H)].new # "open"
  BY <1>4 DEF SyncInv, EventsInv, ResolutionsFinal
<1>6. Gov!Max(H) = Max(H)
  BY DEF Max, Gov!Max
<1>. HIDE DEF H
<1>7. GovernanceStatus(r) = events[Gov!Max(H)].new
  BY DEF H, GovernanceStatus, Gov!EffectiveStatus
<1>. QED
  BY <1>5, <1>6, <1>7

\* What a request or the tool reports of a decision is true of the two files
\* when it is reported, whatever others wrote since it was found out.
THEOREM OutcomesAlwaysTrue == Spec => []OutcomesTrue
<1>1. Init => SyncInv
  BY SyncInvInit
<1>2. SyncInv /\ [Next]_vars => SyncInv'
  BY NextKeepsSyncInv
<1>3. SyncInv => OutcomesTrue
  <2>. SUFFICES ASSUME SyncInv, NEW p \in Processes, pc[p] = "reported"
                PROVE  /\ Holds(p, outcome[p])
                       /\ outcome[p] = "invalid_transition" =>
                            GovernanceStatus(decisions[at[p]].resolution) # "open"
    BY DEF OutcomesTrue, Holds, Skipped
  <2>1. Holds(p, outcome[p])
    BY DEF SyncInv, Knows, TrueOutcome
  <2>2. outcome[p] = "invalid_transition" =>
          GovernanceStatus(decisions[at[p]].resolution) # "open"
    BY <2>1, NotOpen DEF Holds
  <2>. QED
    BY <2>1, <2>2
<1>. QED
  BY <1>1, <1>2, <1>3, PTL DEF Spec
=============================================================================
