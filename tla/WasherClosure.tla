---------------------------- MODULE WasherClosure ----------------------------
(***************************************************************************)
(* Evidence and controlled closure of washer resolutions                   *)
(* (src/backend/library/washer_resolution_service.py, the evidence and the *)
(* closure store, src/backend/api/routes/washer_resolution_closure.py).    *)
(*                                                                         *)
(* Three append-only files stand behind three module-global caches of one  *)
(* shape.  A close request reads the caches five times, without a lock and *)
(* at different moments, and then appends to the closure file under that   *)
(* file's lock.  Recording a decision is one step of WasherLedger, which   *)
(* WasherDecisions implements; its reload() of the cache is a step apart.  *)
(***************************************************************************)
EXTENDS WasherEvidence

CONSTANTS
  Threads,       \* threads of the server's request pool
  NoThread,      \* nobody holds a lock
  NotLoaded,     \* a cache that is None
  Calls,         \* the evidence and closure requests clients may send
  NoCall,        \* what an idle thread is handling
  MaxDecisions,  \* bound of the model: no decision is recorded beyond it
  MaxEvidence    \* bound of the model: no evidence is appended beyond it

Operations == {"evidence", "readiness", "close", "look_decisions",
               "look_evidence", "look_closures"}

ASSUME CallsAssumption ==
  /\ \A c \in Calls : DOMAIN c = {"op", "resolution"} /\ c.op \in Operations
  /\ \A r \in Resolutions : NewEvidence(r) \in Evidence
  /\ NoThread \notin Threads
  /\ NoCall \notin Calls
  /\ MaxDecisions \in Nat /\ MaxEvidence \in Nat

VARIABLES
  decisions,  \* the decision file
  evidence,   \* the evidence file
  closures,   \* the closure file
  cache,   \* the three _CACHE globals
  lock,    \* holders of the evidence and the closure lock
  pc,      \* where each thread is in its request
  load,    \* where each thread is in a _load()
  call,    \* the request each thread is handling
  parsed,  \* the list a thread has read from a file
  found,   \* what a thread has found out for its ClosureReadiness
  reply    \* the answer the thread is about to return

files == <<decisions, evidence, closures>>

threadVars == <<pc, load, call, parsed, found, reply>>

vars == <<decisions, evidence, closures, cache, lock, pc, load, call, parsed,
          found, reply>>

Stores == {"decisions", "evidence", "closures"}

File ==
  [decisions |-> decisions, evidence |-> evidence, closures |-> closures]

\* Which store the read at a program counter goes to.
StoreAt ==
  [look_decisions |-> "decisions", look_evidence |-> "evidence",
   look_closures |-> "closures", precheck |-> "closures",
   status |-> "decisions", history |-> "decisions",
   records |-> "evidence", existing |-> "closures"]

Reading == DOMAIN StoreAt

Nothing ==
  [status |-> "none", decision |-> 0, verified |-> {}, corrupted |-> FALSE]

Answer(kind, at) == [kind |-> kind, at |-> at]

Silent == Answer("none", 0)

Ledger == INSTANCE WasherClosureLedger

Init ==
  /\ Ledger!Init
  /\ cache = [s \in Stores |-> NotLoaded]
  /\ lock = [s \in {"evidence", "closures"} |-> NoThread]
  /\ pc = [t \in Threads |-> "idle"]
  /\ load = [t \in Threads |-> "check"]
  /\ call = [t \in Threads |-> NoCall]
  /\ parsed = [t \in Threads |-> <<>>]
  /\ found = [t \in Threads |-> Nothing]
  /\ reply = [t \in Threads |-> Silent]

Goto(t, next) == pc' = [pc EXCEPT ![t] = next]

Loading(t, phase) == load' = [load EXCEPT ![t] = phase]

Reply(t, kind, at) ==
  Goto(t, "done") /\ reply' = [reply EXCEPT ![t] = Answer(kind, at)]

\* An exception ends the request: what it had gathered is dropped.
Raise(t, kind) ==
  /\ Reply(t, kind, 0)
  /\ parsed' = [parsed EXCEPT ![t] = <<>>]
  /\ found' = [found EXCEPT ![t] = Nothing]

Dropped(s) == cache' = [cache EXCEPT ![s] = NotLoaded]

Unlocked(t) == [s \in DOMAIN lock |-> IF lock[s] = t THEN NoThread ELSE lock[s]]

Resolution(t) == call[t].resolution

---------------------------------------------------------------------------
(* Requests arrive. *)

FirstStep(c) ==
  CASE c.op = "evidence" -> "lock"
    [] c.op = "readiness" -> "status"
    [] c.op = "close" -> "precheck"
    [] OTHER -> c.op

\* Mutant of Accept: the resolution is not looked up in the source ledger.
AcceptUnknown(t) ==
  /\ pc[t] = "idle"
  /\ \E c \in Calls :
       /\ call' = [call EXCEPT ![t] = c]
       /\ Goto(t, FirstStep(c))
  /\ UNCHANGED <<files, cache, lock, load, parsed, found, reply>>

\* An unknown resolution is refused, and so is closing a blocked record.
Accept(t) ==
  /\ pc[t] = "idle"
  /\ \E c \in Calls :
       /\ call' = [call EXCEPT ![t] = c]
       /\ \/ /\ c.resolution \notin Resolutions
             /\ Reply(t, "not_found", 0)
          \/ /\ c.resolution \in Resolutions
             /\ c.op = "close" /\ Blocked(c.resolution)
             /\ Reply(t, "blocked", 0)
          \/ /\ c.resolution \in Resolutions
             /\ ~(c.op = "close" /\ Blocked(c.resolution))
             /\ Goto(t, FirstStep(c))
             /\ UNCHANGED reply
  /\ UNCHANGED <<files, cache, lock, load, parsed, found>>

\* A decide request replaces the decision file and then drops the cache.
RecordDecision(t) ==
  /\ pc[t] = "idle"
  /\ Len(decisions) < MaxDecisions
  /\ Ledger!Decide
  /\ Goto(t, "decided")
  /\ UNCHANGED <<cache, lock, load, call, parsed, found, reply>>

ReloadDecisions(t) ==
  /\ pc[t] = "decided"
  /\ Dropped("decisions")
  /\ Reply(t, "decided", 0)
  /\ UNCHANGED <<files, lock, load, call, parsed, found>>

\* Verified, rejected and damaged evidence comes from outside: the server
\* only ever creates unverified records.  It is appended by another process
\* under the store's lock; the server's cache does not learn of it.
Curate ==
  /\ lock["evidence"] = NoThread
  /\ Len(evidence) < MaxEvidence
  /\ \E e \in Evidence :
       e # NewEvidence(e.resolution) /\ evidence' = Append(evidence, e)
  /\ UNCHANGED <<decisions, closures, cache, lock, threadVars>>

---------------------------------------------------------------------------
(* _load() of each store: test the cache, parse the file, assign the cache *)
(* and return whatever it is by now.                                       *)

LoadCheck(t) ==
  /\ pc[t] \in Reading /\ load[t] = "check"
  /\ Loading(t, IF cache[StoreAt[pc[t]]] = NotLoaded THEN "read" ELSE "return")
  /\ UNCHANGED <<files, cache, lock, pc, call, parsed, found, reply>>

LoadRead(t) ==
  /\ pc[t] \in Reading /\ load[t] = "read"
  /\ parsed' = [parsed EXCEPT ![t] = File[StoreAt[pc[t]]]]
  /\ Loading(t, "fill")
  /\ UNCHANGED <<files, cache, lock, pc, call, found, reply>>

LoadFill(t) ==
  /\ pc[t] \in Reading /\ load[t] = "fill"
  /\ cache' = [cache EXCEPT ![StoreAt[pc[t]]] = parsed[t]]
  /\ parsed' = [parsed EXCEPT ![t] = <<>>]
  /\ Loading(t, "return")
  /\ UNCHANGED <<files, lock, pc, call, found, reply>>

\* A reload() came before the return: None is iterated and the answer is 500.
LoadedNone(t) ==
  /\ pc[t] \in Reading /\ load[t] = "return"
  /\ cache[StoreAt[pc[t]]] = NotLoaded
  /\ Loading(t, "check")
  /\ Raise(t, "error")
  /\ UNCHANGED <<files, cache, lock, call>>

\* The list the read at `where` hands out.
Loaded(t, where) ==
  /\ pc[t] = where /\ load[t] = "return"
  /\ cache[StoreAt[where]] # NotLoaded
  /\ Loading(t, "check")
  /\ UNCHANGED <<files, cache, lock, call, parsed>>

List(where) == cache[StoreAt[where]]

Learn(t, field, value) == found' = [found EXCEPT ![t][field] = value]

---------------------------------------------------------------------------
(* The reads of the evidence and closure requests. *)

Looking == {"look_decisions", "look_evidence", "look_closures"}

\* A read-only route; the evidence list is refused if a record is damaged.
Look(t) ==
  \E where \in Looking :
    /\ Loaded(t, where)
    /\ IF where = "look_evidence" /\ Corrupted(List(where), Resolution(t)) # {}
         THEN Reply(t, "integrity", 0)
         ELSE Reply(t, "shown", Len(List(where)))
    /\ UNCHANGED found

\* close_resolution: the fast check for an existing closure.
Precheck(t) ==
  /\ Loaded(t, "precheck")
  /\ IF OfResolution(List("precheck"), Resolution(t)) = {}
       THEN Goto(t, "status") /\ UNCHANGED reply
       ELSE Reply(t, "duplicate", 0)
  /\ UNCHANGED found

\* evaluate_closure_readiness: the effective status; only a terminal one
\* makes it look for the decision.
EvaluateStatus(t) ==
  /\ Loaded(t, "status")
  /\ LET status == EffectiveStatus(List("status"), Resolution(t)) IN
       /\ Learn(t, "status", status)
       /\ Goto(t, IF status \in Terminal THEN "history" ELSE "records")
  /\ UNCHANGED reply

\* The newest decision, from a second read of the cache.
EvaluateHistory(t) ==
  /\ Loaded(t, "history")
  /\ Learn(t, "decision", NewestDecision(List("history"), Resolution(t)))
  /\ Goto(t, "records")
  /\ UNCHANGED reply

\* Mutant of EvaluateRecords: any intact evidence counts.
EvaluateRecordsUnread(t) ==
  /\ Loaded(t, "records")
  /\ LET shown == List("records") IN
       found' = [found EXCEPT
                   ![t].verified = OfResolution(shown, Resolution(t))
                                     \ Corrupted(shown, Resolution(t)),
                   ![t].corrupted = Corrupted(shown, Resolution(t)) # {}]
  /\ Goto(t, "existing")
  /\ UNCHANGED reply

\* Verified evidence counts, damaged evidence is noted, the rest ignored.
EvaluateRecords(t) ==
  /\ Loaded(t, "records")
  /\ LET shown == List("records") IN
       found' = [found EXCEPT
                   ![t].verified = Verified(shown, Resolution(t)),
                   ![t].corrupted = Corrupted(shown, Resolution(t)) # {}]
  /\ Goto(t, "existing")
  /\ UNCHANGED reply

\* No blocking reason: `closed` says that a closure was found, the last of
\* the reasons.
Ready(r, f, closed) ==
  /\ ~Blocked(r)
  /\ f.status \in Terminal
  /\ f.decision # 0
  /\ f.verified # {}
  /\ ~f.corrupted
  /\ ~closed

Verdict(t, ready) ==
  \/ /\ ~ready
     /\ Reply(t, "not_ready", 0)
     /\ found' = [found EXCEPT ![t] = Nothing]
  \/ /\ ready
     /\ call[t].op = "readiness"
     /\ Reply(t, "ready", found[t].decision)
     /\ UNCHANGED found
  \/ /\ ready
     /\ call[t].op = "close"
     /\ Goto(t, "lock")
     /\ UNCHANGED <<found, reply>>

Closed(t) == OfResolution(List("existing"), Resolution(t)) # {}

\* Mutant of EvaluateExisting: damaged evidence does not block the closure.
EvaluateExistingLenient(t) ==
  /\ Loaded(t, "existing")
  /\ Verdict(t, Ready(Resolution(t), [found[t] EXCEPT !.corrupted = FALSE],
                      Closed(t)))

\* The existing closure, then the verdict.
EvaluateExisting(t) ==
  /\ Loaded(t, "existing")
  /\ Verdict(t, Ready(Resolution(t), found[t], Closed(t)))

---------------------------------------------------------------------------
(* append_evidence and append_closure: under the store's lock read, check  *)
(* and replace the file; after the lock, drop the cache.                   *)

Target(t) == IF call[t].op = "evidence" THEN "evidence" ELSE "closures"

\* Mutant of AppendLock: no lock around the read-check-write cycle.
AppendUnlocked(t) ==
  /\ pc[t] = "lock"
  /\ Goto(t, "locked")
  /\ UNCHANGED <<files, cache, lock, load, call, parsed, found, reply>>

AppendLock(t) ==
  /\ pc[t] = "lock"
  /\ lock[Target(t)] = NoThread
  /\ lock' = [lock EXCEPT ![Target(t)] = t]
  /\ Goto(t, "locked")
  /\ UNCHANGED <<files, cache, load, call, parsed, found, reply>>

\* Mutant of AppendRead: the closure store trusts the service's check.
AppendReadTrusting(t) ==
  /\ pc[t] = "locked"
  /\ parsed' = [parsed EXCEPT ![t] = File[Target(t)]]
  /\ Goto(t, "write")
  /\ UNCHANGED <<files, cache, lock, load, call, found, reply>>

\* Only closures are checked: evidence ids are generated.
AppendRead(t) ==
  /\ pc[t] = "locked"
  /\ \/ /\ Target(t) = "evidence" \/ OfResolution(closures, Resolution(t)) = {}
        /\ parsed' = [parsed EXCEPT ![t] = File[Target(t)]]
        /\ Goto(t, "write")
        /\ UNCHANGED <<lock, found, reply>>
     \/ /\ Target(t) = "closures"
        /\ OfResolution(closures, Resolution(t)) # {}
        /\ lock' = Unlocked(t)
        /\ Raise(t, "duplicate")
  /\ UNCHANGED <<files, cache, load, call>>

WriteEvidence(t) ==
  /\ pc[t] = "write" /\ Target(t) = "evidence"
  /\ Len(parsed[t]) < MaxEvidence     \* the bound: beyond it only Fails
  /\ evidence' = Append(parsed[t], NewEvidence(Resolution(t)))
  /\ lock' = Unlocked(t)
  /\ Goto(t, "reload")
  /\ UNCHANGED <<decisions, closures, cache, load, call, parsed, found, reply>>

WriteClosure(t) ==
  /\ pc[t] = "write" /\ Target(t) = "closures"
  /\ closures' = Append(parsed[t], Closure(Resolution(t), found[t].decision,
                                           found[t].verified))
  /\ lock' = Unlocked(t)
  /\ Goto(t, "reload")
  /\ UNCHANGED <<decisions, evidence, cache, load, call, parsed, found, reply>>

Reload(t) ==
  /\ pc[t] = "reload"
  /\ Dropped(Target(t))
  /\ Reply(t, "appended", Len(parsed[t]) + 1)
  /\ parsed' = [parsed EXCEPT ![t] = <<>>]
  /\ UNCHANGED <<files, lock, load, call, found>>

\* An OSError while reading or replacing a file: 500, nothing written.
Fails(t) ==
  /\ \/ pc[t] \in Reading /\ load[t] = "read"
     \/ pc[t] \in {"locked", "write"}
  /\ lock' = Unlocked(t)
  /\ Loading(t, "check")
  /\ Raise(t, "error")
  /\ UNCHANGED <<files, cache, call>>

Deliver(t) ==
  /\ pc[t] = "done"
  /\ Goto(t, "idle")
  /\ call' = [call EXCEPT ![t] = NoCall]
  /\ parsed' = [parsed EXCEPT ![t] = <<>>]
  /\ found' = [found EXCEPT ![t] = Nothing]
  /\ reply' = [reply EXCEPT ![t] = Silent]
  /\ UNCHANGED <<files, cache, lock, load>>

\* The process dies: threads, locks and caches are gone, the files stay.
Crash ==
  /\ \E t \in Threads : pc[t] # "idle"
  /\ cache' = [s \in Stores |-> NotLoaded]
  /\ lock' = [s \in DOMAIN lock |-> NoThread]
  /\ pc' = [t \in Threads |-> "idle"]
  /\ load' = [t \in Threads |-> "check"]
  /\ call' = [t \in Threads |-> NoCall]
  /\ parsed' = [t \in Threads |-> <<>>]
  /\ found' = [t \in Threads |-> Nothing]
  /\ reply' = [t \in Threads |-> Silent]
  /\ UNCHANGED files

Load(t) == LoadCheck(t) \/ LoadRead(t) \/ LoadFill(t) \/ LoadedNone(t)

Evaluate(t) ==
  \/ Precheck(t) \/ EvaluateStatus(t) \/ EvaluateHistory(t)
  \/ EvaluateRecords(t) \/ EvaluateExisting(t)

AppendTo(t) ==
  \/ AppendLock(t) \/ AppendRead(t) \/ WriteEvidence(t) \/ WriteClosure(t)
  \/ Reload(t)

Handle(t) ==
  \/ Load(t) \/ Look(t) \/ Evaluate(t) \/ AppendTo(t)
  \/ ReloadDecisions(t) \/ Fails(t) \/ Deliver(t)

Next ==
  \/ \E t \in Threads : Accept(t) \/ RecordDecision(t) \/ Handle(t)
  \/ Curate \/ Crash

Spec == Init /\ [][Next]_vars
---------------------------------------------------------------------------
\* Type correctness: the files, the caches and per-thread state have the
\* shapes the Pydantic models and the service give them.
DecisionType ==
  [resolution : Resolutions, previous : Statuses, new : Statuses,
   key : {r.key : r \in Requests}, body : {r.body : r \in Requests}]

ClosureType ==
  [resolution : Resolutions, decision : Nat \ {0}, evidence : SUBSET Nat]

Lists == [decisions |-> Seq(DecisionType), evidence |-> Seq(Evidence),
          closures |-> Seq(ClosureType)]

FoundType ==
  [status : Statuses \cup {"none"}, decision : Nat, verified : SUBSET Nat,
   corrupted : BOOLEAN]

ReplyKinds ==
  {"none", "not_found", "blocked", "decided", "error", "integrity", "shown",
   "duplicate", "not_ready", "ready", "appended"}

TypeOK ==
  /\ decisions \in Seq(DecisionType)
  /\ evidence \in Seq(Evidence)
  /\ closures \in Seq(ClosureType)
  /\ DOMAIN cache = Stores
  /\ \A s \in Stores : cache[s] = NotLoaded \/ cache[s] \in Lists[s]
  /\ lock \in [{"evidence", "closures"} -> Threads \cup {NoThread}]
  /\ pc \in [Threads -> Reading \cup {"idle", "decided", "lock", "locked",
                                      "write", "reload", "done"}]
  /\ load \in [Threads -> {"check", "read", "fill", "return"}]
  /\ call \in [Threads -> Calls \cup {NoCall}]
  /\ DOMAIN parsed = Threads
  /\ found \in [Threads -> FoundType]
  /\ reply \in [Threads -> [kind : ReplyKinds, at : Nat]]
  /\ \A t \in Threads :
       /\ pc[t] \notin Reading => load[t] = "check"
       /\ pc[t] \notin {"idle", "decided", "done"} =>
            call[t] \in Calls /\ Resolution(t) \in Resolutions
       /\ load[t] = "fill" => parsed[t] \in Lists[StoreAt[pc[t]]]
       /\ pc[t] \in {"write", "reload"} => parsed[t] \in Lists[Target(t)]

\* Task rule 6 quoted in washer_resolution_closure_store.py:20-27: one
\* closure per resolution, although every close request that overlaps
\* another passes the service's own check, and caches lag.
OneClosure ==
  \A i, j \in DOMAIN closures :
    closures[i].resolution = closures[j].resolution => i = j

Prefix(s, t) == Len(s) <= Len(t) /\ SubSeq(t, 1, Len(s)) = s

\* No store's cache ever shows a record that is not durable, however the
\* fills and reloads of the three caches, decide requests and writers in
\* other processes interleave.
CachesArePrefixes ==
  \A s \in Stores : cache[s] # NotLoaded => Prefix(cache[s], File[s])

\* Each answer is backed by the files: an appended record is there, a
\* duplicate was closed before, a resolution called ready has a decision
\* and verified evidence, and a list shown is a state of the file.
AnswerJustified(t) ==
  LET r == Resolution(t)
      kind == reply[t].kind
      at == reply[t].at
  IN
  /\ kind = "appended" =>
       at \in DOMAIN File[Target(t)] /\ File[Target(t)][at].resolution = r
  /\ kind = "appended" /\ Target(t) = "closures" =>
       closures[at] = Closure(r, found[t].decision, found[t].verified)
  /\ kind = "duplicate" => OfResolution(closures, r) # {}
  /\ kind = "ready" =>
       /\ at \in History(decisions, r)
       /\ found[t].verified \cap Verified(evidence, r) # {}
  /\ kind = "integrity" => Corrupted(evidence, r) # {}

AnswersJustified ==
  \A t \in Threads : pc[t] = "done" /\ call[t] # NoCall => AnswerJustified(t)

\* For its callers the workflow is the ledger of WasherClosureLedger:
\* whatever caches, locks, failures and restarts do, each closure rests on
\* a terminal status, a decision and undamaged verified evidence that were
\* on record.
ImplementsLedger == Ledger!Spec

\* washer_resolution_service.py:495-498: the decision a closure cites is the
\* one that made the resolution's status terminal.
CitesTerminalDecision ==
  \A i \in DOMAIN closures :
    decisions[closures[i].decision].new \in Terminal
=============================================================================
