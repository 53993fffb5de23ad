--------------------------- MODULE WasherDecisions ---------------------------
(***************************************************************************)
(* The washer resolution decision workflow: the append-only decision file, *)
(* its module-global read cache and the decide request that uses both      *)
(* (src/backend/library/washer_resolution_{service,decisions,              *)
(* decisions_store}.py).                                                   *)
(*                                                                         *)
(* A request looks up its idempotency key and the resolution's effective   *)
(* status through the cache, which _load() fills without a lock, and then  *)
(* appends under a lock that guards the file but not the cache.            *)
(***************************************************************************)
EXTENDS WasherLifecycle

CONSTANTS
  Threads,       \* threads of the server's request pool
  NoThread,      \* nobody holds the lock
  NoRequest,     \* what an idle thread is handling
  View,          \* a read-only request (queue, history, report)
  NotLoaded,     \* _CACHE is None
  MaxDecisions   \* bound of the model: a file this long is never extended

ASSUME SentinelAssumption ==
  /\ NoThread \notin Threads
  /\ NoRequest # View /\ NoRequest \notin Requests /\ View \notin Requests
  /\ MaxDecisions \in Nat

VARIABLES
  file,      \* the decision file: every decision, oldest first
  cache,     \* _CACHE: NotLoaded or a list of decisions
  lock,      \* holder of the advisory lock
  pc,        \* where each thread is in its request
  load,      \* where each thread is in _load()
  req,       \* the request each thread is handling
  parsed,    \* the list a thread has read from the file
  seen,      \* previous_status as computed and validated by the thread
  reply,     \* the answer the thread is about to return
  arrived    \* history: length of the file when the request arrived

vars == <<file, cache, lock, pc, load, req, parsed, seen, reply, arrived>>

---------------------------------------------------------------------------
NoStatus == "none"

Answer(kind, at) == [kind |-> kind, at |-> at]

Silent == Answer("none", 0)

Init ==
  /\ file = <<>>
  /\ cache = NotLoaded
  /\ lock = NoThread
  /\ pc = [t \in Threads |-> "idle"]
  /\ load = [t \in Threads |-> "check"]
  /\ req = [t \in Threads |-> NoRequest]
  /\ parsed = [t \in Threads |-> <<>>]
  /\ seen = [t \in Threads |-> NoStatus]
  /\ reply = [t \in Threads |-> Silent]
  /\ arrived = [t \in Threads |-> 0]

Goto(t, next) == pc' = [pc EXCEPT ![t] = next]

Loading(t, phase) == load' = [load EXCEPT ![t] = phase]

Reply(t, kind, at) ==
  Goto(t, "done") /\ reply' = [reply EXCEPT ![t] = Answer(kind, at)]

\* A decide request arrives; a blank key is refused outright.
Decide(t) ==
  /\ pc[t] = "idle"
  /\ \E r \in Requests :
       /\ req' = [req EXCEPT ![t] = r]
       /\ \/ r.key = BlankKey /\ Reply(t, "missing_key", 0)
          \/ r.key # BlankKey /\ Goto(t, "by_key") /\ UNCHANGED reply
  /\ arrived' = [arrived EXCEPT ![t] = Len(file)]
  /\ UNCHANGED <<file, cache, lock, load, parsed, seen>>

\* A read-only request arrives: the queue, the history, a report.
Look(t) ==
  /\ pc[t] = "idle"
  /\ req' = [req EXCEPT ![t] = View]
  /\ Goto(t, "view")
  /\ arrived' = [arrived EXCEPT ![t] = Len(file)]
  /\ UNCHANGED <<file, cache, lock, load, parsed, seen, reply>>

---------------------------------------------------------------------------
(* _load(): test _CACHE, read and parse the file, assign _CACHE, and then  *)
(* return whatever _CACHE is by now.                                       *)

Reading == {"by_key", "status", "view"}

LoadCheck(t) ==
  /\ pc[t] \in Reading /\ load[t] = "check"
  /\ Loading(t, IF cache = NotLoaded THEN "read" ELSE "return")
  /\ UNCHANGED <<file, cache, lock, pc, req, parsed, seen, reply, arrived>>

LoadRead(t) ==
  /\ pc[t] \in Reading /\ load[t] = "read"
  /\ parsed' = [parsed EXCEPT ![t] = file]
  /\ Loading(t, "fill")
  /\ UNCHANGED <<file, cache, lock, pc, req, seen, reply, arrived>>

LoadFill(t) ==
  /\ pc[t] \in Reading /\ load[t] = "fill"
  /\ cache' = parsed[t]
  /\ Loading(t, "return")
  /\ UNCHANGED <<file, lock, pc, req, parsed, seen, reply, arrived>>

Loaded(t, where) == pc[t] = where /\ load[t] = "return" /\ Loading(t, "check")

\* reload() ran between the assignment and the return: _load() hands out
\* None, iterating it raises TypeError and the route answers 500.
LoadedNone(t) ==
  /\ \E where \in Reading : Loaded(t, where)
  /\ cache = NotLoaded
  /\ Reply(t, "error", 0)
  /\ UNCHANGED <<file, cache, lock, req, parsed, seen, arrived>>

ShowView(t) ==
  /\ Loaded(t, "view")
  /\ cache # NotLoaded
  /\ Reply(t, "view", Len(cache))
  /\ UNCHANGED <<file, cache, lock, req, parsed, seen, arrived>>

\* Mutant of ByKey: a retried request is refused like a reused key.
ByKeyWithoutReplay(t) ==
  /\ Loaded(t, "by_key")
  /\ cache # NotLoaded
  /\ LET hits == FindByKey(cache, req[t].key) IN
       \/ hits # {} /\ Reply(t, "idempotency_conflict", Min(hits))
       \/ /\ hits = {} /\ req[t].resolution \in Resolutions
          /\ Goto(t, "status") /\ UNCHANGED reply
  /\ UNCHANGED <<file, cache, lock, req, parsed, seen, arrived>>

\* find_by_idempotency_key, the replay comparison, and the 404 check.
ByKey(t) ==
  /\ Loaded(t, "by_key")
  /\ cache # NotLoaded
  /\ LET hits == FindByKey(cache, req[t].key) IN
       \/ /\ hits # {}
          /\ Reply(t, IF SameRequest(cache[Min(hits)], req[t])
                        THEN "existing" ELSE "idempotency_conflict",
                   Min(hits))
       \/ /\ hits = {}
          /\ req[t].resolution \notin Resolutions
          /\ Reply(t, "not_found", 0)
       \/ /\ hits = {}
          /\ req[t].resolution \in Resolutions
          /\ Goto(t, "status")
          /\ UNCHANGED reply
  /\ UNCHANGED <<file, cache, lock, req, parsed, seen, arrived>>

\* Mutant of Status: only the fields are validated, not the transition.
StatusUnchecked(t) ==
  /\ Loaded(t, "status")
  /\ cache # NotLoaded
  /\ req[t].complete
  /\ Goto(t, "record")
  /\ seen' = [seen EXCEPT ![t] = EffectiveStatus(cache, req[t].resolution)]
  /\ UNCHANGED <<file, cache, lock, req, parsed, reply, arrived>>

\* The effective status according to the cache, the transition table and
\* the required fields.
Status(t) ==
  /\ Loaded(t, "status")
  /\ cache # NotLoaded
  /\ LET previous == EffectiveStatus(cache, req[t].resolution) IN
       \/ /\ previous = "blocked_authoritative_source"
          /\ Reply(t, "blocked", Len(cache))
          /\ UNCHANGED seen
       \/ /\ previous # "blocked_authoritative_source"
          /\ ~Legal(previous, req[t].new)
          /\ Reply(t, "invalid_transition", Len(cache))
          /\ UNCHANGED seen
       \/ /\ Legal(previous, req[t].new)
          /\ ~req[t].complete
          /\ Reply(t, "missing_evidence", Len(cache))
          /\ UNCHANGED seen
       \/ /\ Legal(previous, req[t].new)
          /\ req[t].complete
          /\ Goto(t, "record")
          /\ seen' = [seen EXCEPT ![t] = previous]
          /\ UNCHANGED reply
  /\ UNCHANGED <<file, cache, lock, req, parsed, arrived>>

---------------------------------------------------------------------------
(* record_decision(): under the lock, look the key up in the file itself   *)
(* and append; after the lock, drop the cache.                             *)

\* Mutant of RecordLock: no advisory lock around read-check-write.
RecordUnlocked(t) ==
  /\ pc[t] = "record"
  /\ lock' = t
  /\ Goto(t, "locked")
  /\ UNCHANGED <<file, cache, load, req, parsed, seen, reply, arrived>>

RecordLock(t) ==
  /\ pc[t] = "record"
  /\ lock = NoThread
  /\ lock' = t
  /\ Goto(t, "locked")
  /\ UNCHANGED <<file, cache, load, req, parsed, seen, reply, arrived>>

\* Mutant of RecordRead: the lookup made before the lock is trusted.
RecordReadUnchecked(t) ==
  /\ pc[t] = "locked"
  /\ parsed' = [parsed EXCEPT ![t] = file]
  /\ Goto(t, "write")
  /\ UNCHANGED <<file, cache, lock, load, req, seen, reply, arrived>>

\* Mutant of RecordRead: the cache is updated before the file is.
RecordReadThrough(t) ==
  /\ pc[t] = "locked"
  /\ FindByKey(file, req[t].key) = {}
  /\ parsed' = [parsed EXCEPT ![t] = file]
  /\ cache' = Append(file, DecisionOf(req[t], seen[t]))
  /\ Goto(t, "write")
  /\ UNCHANGED <<file, lock, load, req, seen, reply, arrived>>

RecordRead(t) ==
  /\ pc[t] = "locked"
  /\ LET hits == FindByKey(file, req[t].key) IN
       \/ /\ hits = {}
          /\ parsed' = [parsed EXCEPT ![t] = file]
          /\ Goto(t, "write")
          /\ UNCHANGED <<cache, lock, reply>>
       \/ /\ hits # {}
          /\ cache' = NotLoaded
          /\ lock' = NoThread
          /\ Reply(t, "existing", Min(hits))
          /\ UNCHANGED parsed
  /\ UNCHANGED <<file, load, req, seen, arrived>>

RecordWrite(t) ==
  /\ pc[t] = "write"
  /\ Len(parsed[t]) < MaxDecisions   \* the bound: beyond it only Fails
  /\ file' = Append(parsed[t], DecisionOf(req[t], seen[t]))
  /\ lock' = NoThread
  /\ Goto(t, "reload")
  /\ UNCHANGED <<cache, load, req, parsed, seen, reply, arrived>>

Reload(t) ==
  /\ pc[t] = "reload"
  /\ cache' = NotLoaded
  /\ Reply(t, "created", Len(parsed[t]) + 1)
  /\ UNCHANGED <<file, lock, load, req, parsed, seen, arrived>>

\* An OSError while reading or replacing the file: 500, nothing written.
Fails(t) ==
  /\ \/ pc[t] \in Reading /\ load[t] = "read"
     \/ pc[t] \in {"locked", "write"}
  /\ lock' = IF lock = t THEN NoThread ELSE lock
  /\ Reply(t, "error", 0)
  /\ Loading(t, "check")
  /\ UNCHANGED <<file, cache, req, parsed, seen, arrived>>

\* Mutant of Deliver: a pooled thread keeps its last request.
DeliverKeepsRequest(t) ==
  /\ pc[t] = "done"
  /\ Goto(t, "idle")
  /\ parsed' = [parsed EXCEPT ![t] = <<>>]
  /\ seen' = [seen EXCEPT ![t] = NoStatus]
  /\ reply' = [reply EXCEPT ![t] = Silent]
  /\ arrived' = [arrived EXCEPT ![t] = 0]
  /\ UNCHANGED <<file, cache, lock, load, req>>

Deliver(t) ==
  /\ pc[t] = "done"
  /\ Goto(t, "idle")
  /\ req' = [req EXCEPT ![t] = NoRequest]
  /\ parsed' = [parsed EXCEPT ![t] = <<>>]
  /\ seen' = [seen EXCEPT ![t] = NoStatus]
  /\ reply' = [reply EXCEPT ![t] = Silent]
  /\ arrived' = [arrived EXCEPT ![t] = 0]
  /\ UNCHANGED <<file, cache, lock, load>>

\* The process dies: threads, lock and cache are gone, the file stays.
Crash ==
  /\ \E t \in Threads : pc[t] # "idle"
  /\ cache' = NotLoaded
  /\ lock' = NoThread
  /\ pc' = [t \in Threads |-> "idle"]
  /\ load' = [t \in Threads |-> "check"]
  /\ req' = [t \in Threads |-> NoRequest]
  /\ parsed' = [t \in Threads |-> <<>>]
  /\ seen' = [t \in Threads |-> NoStatus]
  /\ reply' = [t \in Threads |-> Silent]
  /\ arrived' = [t \in Threads |-> 0]
  /\ UNCHANGED file

Load(t) == LoadCheck(t) \/ LoadRead(t) \/ LoadFill(t) \/ LoadedNone(t)

Handle(t) ==
  \/ Load(t) \/ ShowView(t) \/ ByKey(t) \/ Status(t)
  \/ RecordLock(t) \/ RecordRead(t) \/ RecordWrite(t) \/ Reload(t)
  \/ Fails(t) \/ Deliver(t)

Next == (\E t \in Threads : Decide(t) \/ Look(t) \/ Handle(t)) \/ Crash

Spec == Init /\ [][Next]_vars
---------------------------------------------------------------------------
\* Type correctness: decisions, the cache and per-thread state have the
\* shapes the Pydantic model and the two modules give them.
DecisionType ==
  [resolution : Resolutions, previous : Statuses, new : Statuses,
   key : {r.key : r \in Requests}, body : {r.body : r \in Requests}]

ReplyKinds ==
  {"none", "created", "existing", "idempotency_conflict", "missing_key",
   "not_found", "blocked", "invalid_transition", "missing_evidence", "view",
   "error"}

TypeOK ==
  /\ file \in Seq(DecisionType)
  /\ cache = NotLoaded \/ cache \in Seq(DecisionType)
  /\ lock \in Threads \cup {NoThread}
  /\ pc \in [Threads -> {"idle", "by_key", "status", "view", "record",
                         "locked", "write", "reload", "done"}]
  /\ load \in [Threads -> {"check", "read", "fill", "return"}]
  /\ req \in [Threads -> Requests \cup {NoRequest, View}]
  /\ \A t \in Threads : pc[t] = "idle" => req[t] = NoRequest
  /\ \A t \in Threads : pc[t] \notin {"idle", "view", "done"} =>
       req[t] \in Requests
  /\ parsed \in [Threads -> Seq(DecisionType)]
  /\ seen \in [Threads -> Statuses \cup {NoStatus}]
  /\ reply \in [Threads -> [kind : ReplyKinds, at : Nat]]
  /\ arrived \in [Threads -> Nat]

Prefix(s, t) == Len(s) <= Len(t) /\ SubSeq(t, 1, Len(s)) = s

\* The lock makes the copy a thread is about to replace the file from equal
\* to the file.
LockedCopyIsCurrent ==
  \A t \in Threads :
    /\ pc[t] \in {"locked", "write"} => lock = t
    /\ pc[t] = "write" => parsed[t] = file

\* No decision that was ever in the file is lost or changed, whatever
\* threads overlap, fail or die inside record_decision.
AppendOnly == [][Prefix(file, file')]_vars

\* washer_resolution_decisions_store.py:326-328: a race between requests
\* with one idempotency key leaves one decision, also when the cache that
\* answered the first lookup was stale and after any retry or restart.
UniqueKeys ==
  \A i, j \in DOMAIN file : file[i].key = file[j].key => i = j

\* However fills and reloads interleave, the cache (and what a thread is
\* about to put there) is an old or current state of the file: it may lag
\* behind, it never shows a decision that is not durable.
CacheIsPrefix ==
  /\ cache # NotLoaded => Prefix(cache, file)
  /\ \A t \in Threads : Prefix(parsed[t], file)

\* Every decision's previous_status was the effective status at some moment
\* before it was written, and its transition is in the table; in particular
\* the blocked records of the source ledger are never decided.
HonestPrevious ==
  \A j \in DOMAIN file :
    /\ Legal(file[j].previous, file[j].new)
    /\ \E k \in 0 .. (j - 1) :
         file[j].previous = EffectiveStatus(SubSeq(file, 1, k), file[j].resolution)

\* Each answer tells the truth about the file: "created" names this
\* request's decision, "existing" a decision under its key, and each refusal
\* a reason that held in some state of the file.
AnswerJustified(t) ==
  LET r == req[t]
      kind == reply[t].kind
      at == reply[t].at
      was == SubSeq(file, 1, at)
  IN
  /\ kind \in {"created", "existing", "idempotency_conflict"} =>
       at \in DOMAIN file /\ file[at].key = r.key
  /\ kind = "created" =>
       at > arrived[t] /\ file[at] = DecisionOf(r, seen[t])
  /\ kind = "idempotency_conflict" => ~SameRequest(file[at], r)
  /\ kind \in {"view", "blocked", "invalid_transition", "missing_evidence"} =>
       at \in 0 .. Len(file)
  /\ kind = "blocked" =>
       EffectiveStatus(was, r.resolution) = "blocked_authoritative_source"
  /\ kind = "invalid_transition" =>
       ~Legal(EffectiveStatus(was, r.resolution), r.new)

AnswersJustified == \A t \in Threads : pc[t] = "done" => AnswerJustified(t)

Ledger == INSTANCE WasherLedger WITH log <- file

\* For its callers the workflow is the ledger that WasherLedger describes,
\* whatever the cache, the lock, failures and restarts do.
ImplementsLedger == Ledger!Spec

\* ADR-0013 section 3: a terminal status has no outgoing transition.
TerminalIsFinal ==
  \A i, j \in DOMAIN file :
    (i < j /\ file[i].resolution = file[j].resolution) =>
      file[i].new \in {"open", "under_review"}

\* washer_resolution_decisions_store.py:240-243: after reload() the next
\* read re-parses the file, so with no request under way the cache is either
\* dropped or what the file holds.
QuietCacheIsCurrent ==
  (\A t \in Threads : pc[t] = "idle") => cache \in {NotLoaded, file}
=============================================================================
