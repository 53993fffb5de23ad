------------------------- MODULE GovernanceService -------------------------
(***************************************************************************)
(* The governance event store and the command engine all nine governance   *)
(* commands share (src/backend/governance/{store,service,api}.py).         *)
(*                                                                         *)
(* Each HTTP request is handled by a thread of the server's pool.  The     *)
(* engine reads the event file three times without a lock (the event with  *)
(* this idempotency key, the event with this decision id, the effective    *)
(* status) and then appends under an exclusive file lock.  Every read is   *)
(* one atomic action, because the file is only ever replaced as a whole;   *)
(* nothing makes the reads and the append together atomic.                 *)
(***************************************************************************)
EXTENDS GovernanceLifecycle

CONSTANTS
  Threads,      \* threads of the server's request pool
  NoThread,     \* nobody holds the file lock
  NoCommand,    \* what an idle thread is handling
  MaxEvents     \* bound of the model: a log this long is never extended

ASSUME SentinelAssumption ==
  /\ NoThread \notin Threads
  /\ NoCommand \notin Commands
  /\ MaxEvents \in Nat

VARIABLES
  events,    \* the event file: every event, oldest first
  lock,      \* holder of the exclusive lock on the side-car lock file
  pc,        \* where each thread is in _execute_transition
  cmd,       \* the command each thread is handling
  seen,      \* previous_status, as read and validated by the thread
  payload,   \* the thread's copy of the file inside append()
  reply,     \* the answer the thread is about to return
  arrived,   \* history: length of the log when the thread's request arrived
  born       \* history: for each event, the arrival of the request behind it

vars == <<events, lock, pc, cmd, seen, payload, reply, arrived, born>>

NoStatus == "none"

Answer(kind, at) == [kind |-> kind, at |-> at]

Silent == Answer("none", 0)

--------------------------------------------------------------------------
Init ==
  /\ events = <<>>
  /\ lock = NoThread
  /\ pc = [t \in Threads |-> "idle"]
  /\ cmd = [t \in Threads |-> NoCommand]
  /\ seen = [t \in Threads |-> NoStatus]
  /\ payload = [t \in Threads |-> <<>>]
  /\ reply = [t \in Threads |-> Silent]
  /\ arrived = [t \in Threads |-> 0]
  /\ born = <<>>

Goto(t, next) == pc' = [pc EXCEPT ![t] = next]

Reply(t, kind, at) ==
  /\ Goto(t, "done")
  /\ reply' = [reply EXCEPT ![t] = Answer(kind, at)]

InFlight == {t \in Threads : pc[t] # "idle"}

\* A request arrives.  The generic HTTP surface refuses an externally owned
\* aggregate type before the command runs; in-process callers are not asked.
Accept(t) ==
  /\ pc[t] = "idle"
  /\ \E c \in Commands :
       /\ cmd' = [cmd EXCEPT ![t] = c]
       /\ \/ ExternallyOwned(c) /\ Reply(t, "owned", 0)
          \/ ~ExternallyOwned(c) /\ Goto(t, "find_key") /\ UNCHANGED reply
  /\ arrived' = [arrived EXCEPT ![t] = Len(events)]
  /\ UNCHANGED <<events, lock, seen, payload, born>>

\* Mutant of FindKey: retries are not recognised.
FindNoKey(t) ==
  /\ pc[t] = "find_key"
  /\ Goto(t, "find_decision")
  /\ UNCHANGED <<events, lock, cmd, seen, payload, reply, arrived, born>>

\* Mutant of FindKey: the event found is not compared with the request.
FindKeyUncompared(t) ==
  /\ pc[t] = "find_key"
  /\ LET hits == FindByKey(events, cmd[t].key) IN
       \/ hits = {} /\ Goto(t, "find_decision") /\ UNCHANGED reply
       \/ hits # {} /\ Reply(t, "existing", Min(hits))
  /\ UNCHANGED <<events, lock, cmd, seen, payload, arrived, born>>

\* Lookup by idempotency key: an equal request is a replay, any other one a
\* conflict.
FindKey(t) ==
  /\ pc[t] = "find_key"
  /\ LET hits == FindByKey(events, cmd[t].key) IN
       \/ hits = {} /\ Goto(t, "find_decision") /\ UNCHANGED reply
       \/ /\ hits # {}
          /\ Reply(t, IF Normalized(events[Min(hits)]) = Normalized(cmd[t])
                        THEN "existing" ELSE "idempotency_conflict",
                   Min(hits))
  /\ UNCHANGED <<events, lock, cmd, seen, payload, arrived, born>>

\* Mutant of FindDecision: the decision id is never looked up.
FindNoDecision(t) ==
  /\ pc[t] = "find_decision"
  /\ Goto(t, "validate")
  /\ UNCHANGED <<events, lock, cmd, seen, payload, reply, arrived, born>>

\* Lookup by decision id: any hit belongs to a different request.
FindDecision(t) ==
  /\ pc[t] = "find_decision"
  /\ LET hits == FindByDecision(events, cmd[t].decision) IN
       \/ hits = {} /\ Goto(t, "validate") /\ UNCHANGED reply
       \/ hits # {} /\ Reply(t, "duplicate_decision", Min(hits))
  /\ UNCHANGED <<events, lock, cmd, seen, payload, arrived, born>>

Current(c) == EffectiveStatus(events, c.aggregate, c.group)

\* Mutant of Validate: the transition table is not consulted.
ValidateAnyTransition(t) ==
  /\ pc[t] = "validate"
  /\ cmd[t].complete
  /\ Goto(t, "lock")
  /\ seen' = [seen EXCEPT ![t] = Current(cmd[t])]
  /\ UNCHANGED <<events, lock, cmd, payload, reply, arrived, born>>

\* Mutant of Validate: the required fields are not checked.
ValidateAnyFields(t) ==
  /\ pc[t] = "validate"
  /\ Legal(cmd[t].group, Current(cmd[t]), cmd[t].new)
  /\ Goto(t, "lock")
  /\ seen' = [seen EXCEPT ![t] = Current(cmd[t])]
  /\ UNCHANGED <<events, lock, cmd, payload, reply, arrived, born>>

\* Effective status, then the transition table, then the required fields.
Validate(t) ==
  /\ pc[t] = "validate"
  /\ \/ /\ Legal(cmd[t].group, Current(cmd[t]), cmd[t].new)
        /\ cmd[t].complete
        /\ Goto(t, "lock")
        /\ seen' = [seen EXCEPT ![t] = Current(cmd[t])]
        /\ UNCHANGED reply
     \/ /\ Legal(cmd[t].group, Current(cmd[t]), cmd[t].new)
        /\ ~cmd[t].complete
        /\ Reply(t, "missing_field", Len(events))
        /\ UNCHANGED seen
     \/ /\ ~Legal(cmd[t].group, Current(cmd[t]), cmd[t].new)
        /\ Reply(t, "invalid_transition", Len(events))
        /\ UNCHANGED seen
  /\ UNCHANGED <<events, lock, cmd, payload, arrived, born>>

\* Mutant of AppendLock: no file lock around append().
AppendUnlocked(t) ==
  /\ pc[t] = "lock"
  /\ lock' = t
  /\ Goto(t, "read")
  /\ UNCHANGED <<events, cmd, seen, payload, reply, arrived, born>>

\* append(): take the lock, read the whole file, replace it.
AppendLock(t) ==
  /\ pc[t] = "lock"
  /\ lock = NoThread
  /\ lock' = t
  /\ Goto(t, "read")
  /\ UNCHANGED <<events, cmd, seen, payload, reply, arrived, born>>

AppendRead(t) ==
  /\ pc[t] = "read"
  /\ payload' = [payload EXCEPT ![t] = events]
  /\ Goto(t, "write")
  /\ UNCHANGED <<events, lock, cmd, seen, reply, arrived, born>>

AppendWrite(t) ==
  /\ pc[t] = "write"
  /\ Len(payload[t]) < MaxEvents    \* the bound: beyond it only StoreFails
  /\ events' = Append(payload[t], EventOf(cmd[t], seen[t]))
  /\ born' = Append(SubSeq(born, 1, Len(payload[t])), arrived[t])
  /\ lock' = NoThread
  /\ Reply(t, "created", Len(payload[t]) + 1)
  /\ UNCHANGED <<cmd, seen, payload, arrived>>

\* Mutant of StoreFails: an OSError leaves the lock held.
StoreFailsLocked(t) ==
  /\ pc[t] \in {"find_key", "find_decision", "validate", "read", "write"}
  /\ Reply(t, "unavailable", 0)
  /\ UNCHANGED <<events, lock, cmd, seen, payload, arrived, born>>

\* An OSError while reading or replacing the file: nothing is written, the
\* lock is released and the route answers 503.
StoreFails(t) ==
  /\ pc[t] \in {"find_key", "find_decision", "validate", "read", "write"}
  /\ Reply(t, "unavailable", 0)
  /\ lock' = IF lock = t THEN NoThread ELSE lock
  /\ UNCHANGED <<events, cmd, seen, payload, arrived, born>>

\* Mutant of Deliver: a pooled thread keeps its last command.
DeliverKeepsCommand(t) ==
  /\ pc[t] = "done"
  /\ Goto(t, "idle")
  /\ seen' = [seen EXCEPT ![t] = NoStatus]
  /\ payload' = [payload EXCEPT ![t] = <<>>]
  /\ reply' = [reply EXCEPT ![t] = Silent]
  /\ arrived' = [arrived EXCEPT ![t] = 0]
  /\ UNCHANGED <<events, lock, cmd, born>>

\* The answer leaves and the thread returns to the pool.
Deliver(t) ==
  /\ pc[t] = "done"
  /\ Goto(t, "idle")
  /\ cmd' = [cmd EXCEPT ![t] = NoCommand]
  /\ seen' = [seen EXCEPT ![t] = NoStatus]
  /\ payload' = [payload EXCEPT ![t] = <<>>]
  /\ reply' = [reply EXCEPT ![t] = Silent]
  /\ arrived' = [arrived EXCEPT ![t] = 0]
  /\ UNCHANGED <<events, lock, born>>

\* The server process dies: every thread and the lock are gone, the file
\* stays.  Clients may send the same commands again to the next process.
Crash ==
  /\ InFlight # {}
  /\ lock' = NoThread
  /\ pc' = [t \in Threads |-> "idle"]
  /\ cmd' = [t \in Threads |-> NoCommand]
  /\ seen' = [t \in Threads |-> NoStatus]
  /\ payload' = [t \in Threads |-> <<>>]
  /\ reply' = [t \in Threads |-> Silent]
  /\ arrived' = [t \in Threads |-> 0]
  /\ UNCHANGED <<events, born>>

Handle(t) ==
  \/ FindKey(t) \/ FindDecision(t) \/ Validate(t)
  \/ AppendLock(t) \/ AppendRead(t) \/ AppendWrite(t)
  \/ StoreFails(t) \/ Deliver(t)

Next == (\E t \in Threads : Accept(t) \/ Handle(t)) \/ Crash

\* A thread that has a request runs; the process may die but the operating
\* system keeps scheduling its threads.  AppendLock is strongly fair: the
\* kernel hands a released flock to some waiter and the critical section
\* is finite.
Fairness ==
  \A t \in Threads : WF_vars(Handle(t)) /\ SF_vars(AppendLock(t))

Spec == Init /\ [][Next]_vars

FairSpec == Spec /\ Fairness
--------------------------------------------------------------------------
\* Type correctness: events, answers and per-thread state have the shapes
\* the Pydantic models and _execute_transition give them.
EventType ==
  [aggregate : {c.aggregate : c \in Commands}, type : {c.type : c \in Commands},
   group : Groups, previous : Statuses, new : Statuses,
   decision : {c.decision : c \in Commands}, key : {c.key : c \in Commands},
   body : {c.body : c \in Commands}]

ReplyKinds ==
  {"none", "created", "existing", "owned", "idempotency_conflict",
   "duplicate_decision", "invalid_transition", "missing_field", "unavailable"}

TypeOK ==
  /\ events \in Seq(EventType)
  /\ born \in Seq(Nat)
  /\ Len(born) = Len(events)
  /\ lock \in Threads \cup {NoThread}
  /\ pc \in [Threads -> {"idle", "find_key", "find_decision", "validate",
                         "lock", "read", "write", "done"}]
  /\ cmd \in [Threads -> Commands \cup {NoCommand}]
  /\ \A t \in Threads : pc[t] = "idle" <=> cmd[t] = NoCommand
  /\ seen \in [Threads -> Statuses \cup {NoStatus}]
  /\ payload \in [Threads -> Seq(EventType)]
  /\ reply \in [Threads -> [kind : ReplyKinds, at : Nat]]
  /\ arrived \in [Threads -> Nat]

\* The log is append-only: whatever threads overlap, fail or crash inside
\* append(), no event that was ever in the file is lost or changed.  This
\* is what the lock around the read-modify-write cycle is for.
AppendOnly ==
  [][Len(events) <= Len(events') /\ SubSeq(events', 1, Len(events)) = events]_vars

\* Mutual exclusion: at most one thread is between reading the file and
\* replacing it, and what it read is still the file's content.
LockedCopyIsCurrent ==
  \A t \in Threads :
    /\ pc[t] \in {"read", "write"} => lock = t
    /\ pc[t] = "write" => payload[t] = events

\* What a thread's searches said about the log its request arrived at.
KeyUnused(t) ==
  \A i \in 1 .. arrived[t] :
    events[i].key = cmd[t].key => cmd[t].key = BlankKey

DecisionUnused(t) ==
  \A i \in 1 .. arrived[t] : events[i].decision # cmd[t].decision

StatusWasSeen(t) ==
  \E k \in arrived[t] .. Len(events) :
    seen[t] = EffectiveStatus(SubSeq(events, 1, k), cmd[t].aggregate, cmd[t].group)

\* What the three unlocked reads established is about the log as it was
\* when the request arrived, and stays true of that part of it however many
\* other requests append in between: it is all a thread may rely on when it
\* appends.
ThreadKnowledge ==
  \A t \in Threads :
    /\ arrived[t] <= Len(events)
    /\ pc[t] \in {"find_decision", "validate", "lock", "read", "write"} =>
         KeyUnused(t)
    /\ pc[t] \in {"validate", "lock", "read", "write"} => DecisionUnused(t)
    /\ pc[t] \in {"lock", "read", "write"} =>
         Legal(cmd[t].group, seen[t], cmd[t].new) /\ StatusWasSeen(t)

SameKey(i, j) == events[i].key = events[j].key /\ events[i].key # BlankKey

SameDecision(i, j) == events[i].decision = events[j].decision

\* A second event under one idempotency key, or one decision id, can only
\* come from a request that was already being handled when the first was
\* written.  In particular a retry sent after an answer, after a 503 or
\* after a restart of the server never takes effect twice.
DuplicatesOverlap ==
  \A i, j \in DOMAIN events :
    (i < j /\ (SameKey(i, j) \/ SameDecision(i, j))) => born[j] < i

\* The previous_status an event records was the aggregate's effective
\* status at some moment after its request arrived and before the event was
\* written, and the transition from it is in the lifecycle's table.
HonestPrevious ==
  \A j \in DOMAIN events :
    LET e == events[j] IN
    /\ Legal(e.group, e.previous, e.new)
    /\ \E k \in born[j] .. (j - 1) :
         e.previous = EffectiveStatus(SubSeq(events, 1, k), e.aggregate, e.group)

\* Each answer tells the truth about the log: "created" points to this
\* request's own event, "existing" to an equal request under the same key,
\* and each refusal to a reason that was in the log while it was handled.
AnswerJustified(t) ==
  LET c == cmd[t]
      kind == reply[t].kind
      at == reply[t].at
      was == SubSeq(events, 1, at)
  IN
  /\ kind \in {"created", "existing", "idempotency_conflict",
               "duplicate_decision"} => at \in DOMAIN events
  /\ kind = "created" =>
       at > arrived[t] /\ events[at] = EventOf(c, seen[t])
  /\ kind = "existing" =>
       events[at].key = c.key /\ Normalized(events[at]) = Normalized(c)
  /\ kind = "idempotency_conflict" =>
       events[at].key = c.key /\ Normalized(events[at]) # Normalized(c)
  /\ kind = "duplicate_decision" =>
       /\ events[at].decision = c.decision
       /\ KeyUnused(t)
  /\ kind \in {"invalid_transition", "missing_field"} =>
       at \in arrived[t] .. Len(events)
  /\ kind = "invalid_transition" =>
       ~Legal(c.group, EffectiveStatus(was, c.aggregate, c.group), c.new)

AnswersJustified == \A t \in Threads : pc[t] = "done" => AnswerJustified(t)

\* exceptions.py:97-102 and service.py:214-236: a decision id is unique
\* across the store's whole history.
UniqueDecisions ==
  \A i, j \in DOMAIN events : SameDecision(i, j) => i = j

\* service.py:214-236: one event per idempotency key.
UniqueKeys ==
  \A i, j \in DOMAIN events : SameKey(i, j) => i = j

\* ADR-0014: a request that was accepted is eventually answered (or its
\* process dies): nobody waits on the file lock for ever.
EveryRequestEnds ==
  \A t \in Threads : pc[t] # "idle" ~> pc[t] = "idle"

Ledger == INSTANCE GovernanceLedger WITH log <- events

\* Without overlapping requests the service is the atomic ledger.
ImplementsLedger == Ledger!Spec
=============================================================================
