----------------------- MODULE GovernanceService_proofs -----------------------
(***************************************************************************)
(* Safety of the governance command engine for any number of threads, any  *)
(* set of commands and any bound.  The inductive invariant IInv adds to    *)
(* the properties what a thread knows between its unlocked reads and its   *)
(* append: which prefix of the log it has searched, and at which prefix    *)
(* its previous_status was the effective one.                              *)
(***************************************************************************)
EXTENDS GovernanceService, LogLemmas

(* ---- Lemmas about the operators the model is built from (see also ---- *)
(* ---- LogLemmas).                                                  ---- *)

\* Both lookups return positions of the log.
LEMMA HitsArePositions ==
  ASSUME NEW T, NEW log \in Seq(T), NEW x
  PROVE  /\ FindByKey(log, x) \in SUBSET Nat
         /\ FindByDecision(log, x) \in SUBSET Nat
         /\ DOMAIN log = 1 .. Len(log)
         /\ Len(log) \in Nat
BY LenProperties DEF FindByKey, FindByDecision

\* A legal move starts in a status of the vocabulary.
LEMMA LegalStatus ==
  ASSUME NEW g \in Groups, NEW p, NEW n, Legal(g, p, n)
  PROVE  p \in Statuses
BY DEF Legal, Groups, Transitions, Statuses

(* ---- Type correctness. ---- *)

LEMMA CommandFields ==
  ASSUME NEW c \in Commands
  PROVE  c.group \in Groups /\ c.new \in Statuses
BY CommandsAssumption

LEMMA EventOfType ==
  ASSUME NEW c \in Commands, NEW p \in Statuses
  PROVE  EventOf(c, p) \in EventType
BY CommandFields DEF EventOf, EventType

(* ---- Type correctness rests on the lock: it keeps the copy a thread ---- *)
(* ---- replaces the file from equal to the file.                      ---- *)

\* What a thread that passed Validate still knows when it appends.
Checked ==
  \A t \in Threads : pc[t] \in {"lock", "read", "write"} =>
     Legal(cmd[t].group, seen[t], cmd[t].new)

LockInv == TypeOK /\ LockedCopyIsCurrent /\ Checked

LEMMA LockInit == Init => LockInv
BY EmptySeq, SentinelAssumption DEF Init, LockInv, TypeOK, LockedCopyIsCurrent, Checked,
   NoStatus, Silent, Answer, ReplyKinds

LEMMA LockStep == LockInv /\ [Next]_vars => LockInv'
<1>. SUFFICES ASSUME LockInv, [Next]_vars
              PROVE  LockInv'
  OBVIOUS
<1>. USE SentinelAssumption DEF LockInv, Goto, Reply, Answer, ReplyKinds, NoStatus
<1>1. ASSUME NEW t \in Threads, Accept(t)
      PROVE  LockInv'
  <2>. PICK c \in Commands :
         /\ cmd' = [cmd EXCEPT ![t] = c]
         /\ \/ Reply(t, "owned", 0)
            \/ Goto(t, "find_key") /\ UNCHANGED reply
    BY <1>1 DEF Accept
  <2>. UNCHANGED <<events, lock, seen, payload, born>>
    BY <1>1 DEF Accept
  <2>1. TypeOK'
    <3>1. arrived' \in [Threads -> Nat]
      BY <1>1, HitsArePositions DEF Accept, TypeOK
    <3>2. CASE Reply(t, "owned", 0)
      BY <1>1, <3>1, <3>2 DEF TypeOK
    <3>3. CASE Goto(t, "find_key") /\ UNCHANGED reply
      BY <1>1, <3>1, <3>3 DEF TypeOK
    <3>. QED
      BY <3>2, <3>3
  <2>2. LockedCopyIsCurrent'
    BY <1>1 DEF Accept, TypeOK, LockedCopyIsCurrent
  <2>3. Checked'
    BY <1>1 DEF Accept, TypeOK, Checked
  <2>. QED
    BY <2>1, <2>2, <2>3
<1>2. ASSUME NEW t \in Threads, FindKey(t)
      PROVE  LockInv'
  <2>. DEFINE hits == FindByKey(events, cmd[t].key)
  <2>1. hits # {} => Min(hits) \in Nat
    <3>1. hits \in SUBSET Nat
      BY HitsArePositions DEF TypeOK
    <3>. HIDE DEF hits
    <3>. QED
      BY <3>1, MinMember
  <2>2. TypeOK'
    <3>. UNCHANGED <<events, lock, cmd, seen, payload, arrived, born>>
      BY <1>2 DEF FindKey
    <3>. pc[t] = "find_key"
      BY <1>2 DEF FindKey
    <3>1. CASE Goto(t, "find_decision") /\ UNCHANGED reply
      BY <3>1 DEF TypeOK
    <3>2. ASSUME NEW k \in ReplyKinds, hits # {}, Reply(t, k, Min(hits))
          PROVE  TypeOK'
      BY <3>2, <2>1 DEF TypeOK
    <3>. QED
      BY <1>2, <3>1, <3>2 DEF FindKey
  <2>3. LockedCopyIsCurrent'
    BY <1>2 DEF FindKey, TypeOK, LockedCopyIsCurrent
  <2>4. Checked'
    BY <1>2 DEF FindKey, TypeOK, Checked
  <2>. QED
    BY <2>2, <2>3, <2>4
<1>3. ASSUME NEW t \in Threads, FindDecision(t)
      PROVE  LockInv'
  <2>. DEFINE hits == FindByDecision(events, cmd[t].decision)
  <2>1. hits # {} => Min(hits) \in Nat
    <3>1. hits \in SUBSET Nat
      BY HitsArePositions DEF TypeOK
    <3>. HIDE DEF hits
    <3>. QED
      BY <3>1, MinMember
  <2>2. TypeOK'
    <3>. UNCHANGED <<events, lock, cmd, seen, payload, arrived, born>>
      BY <1>3 DEF FindDecision
    <3>. pc[t] = "find_decision"
      BY <1>3 DEF FindDecision
    <3>1. CASE Goto(t, "validate") /\ UNCHANGED reply
      BY <3>1 DEF TypeOK
    <3>2. ASSUME NEW k \in ReplyKinds, hits # {}, Reply(t, k, Min(hits))
          PROVE  TypeOK'
      BY <3>2, <2>1 DEF TypeOK
    <3>. QED
      BY <1>3, <3>1, <3>2 DEF FindDecision
  <2>3. LockedCopyIsCurrent'
    BY <1>3 DEF FindDecision, TypeOK, LockedCopyIsCurrent
  <2>4. Checked'
    BY <1>3 DEF FindDecision, TypeOK, Checked
  <2>. QED
    BY <2>2, <2>3, <2>4
<1>4. ASSUME NEW t \in Threads, Validate(t)
      PROVE  LockInv'
  <2>1. cmd[t] \in Commands /\ cmd[t].group \in Groups
    BY <1>4, CommandFields DEF Validate, TypeOK
  <2>2. /\ Legal(cmd[t].group, Current(cmd[t]), cmd[t].new)
           => Current(cmd[t]) \in Statuses
        /\ Len(events) \in Nat
    BY <2>1, LegalStatus, HitsArePositions DEF TypeOK
  <2>3. TypeOK'
    <3>. UNCHANGED <<events, lock, cmd, payload, arrived, born>> /\ pc[t] = "validate"
      BY <1>4 DEF Validate
    <3>1. ASSUME NEW k \in ReplyKinds, Reply(t, k, Len(events)), UNCHANGED seen
          PROVE  TypeOK'
      BY <3>1, <2>2 DEF TypeOK
    <3>2. CASE /\ Legal(cmd[t].group, Current(cmd[t]), cmd[t].new)
               /\ Goto(t, "lock")
               /\ seen' = [seen EXCEPT ![t] = Current(cmd[t])]
               /\ UNCHANGED reply
      BY <2>2, <3>2 DEF TypeOK
    <3>. QED
      BY <1>4, <3>1, <3>2 DEF Validate
  <2>4. LockedCopyIsCurrent'
    BY <1>4 DEF Validate, TypeOK, LockedCopyIsCurrent
  <2>5. Checked'
    BY <1>4 DEF Validate, TypeOK, Checked
  <2>. QED
    BY <2>3, <2>4, <2>5
<1>5. ASSUME NEW t \in Threads, AppendLock(t)
      PROVE  LockInv'
  <2>1. TypeOK'
    BY <1>5 DEF AppendLock, TypeOK
  <2>2. LockedCopyIsCurrent'
    BY <1>5 DEF AppendLock, TypeOK, LockedCopyIsCurrent
  <2>3. Checked'
    BY <1>5 DEF AppendLock, TypeOK, Checked
  <2>. QED
    BY <2>1, <2>2, <2>3
<1>6. ASSUME NEW t \in Threads, AppendRead(t)
      PROVE  LockInv'
  <2>1. TypeOK'
    BY <1>6 DEF AppendRead, TypeOK
  <2>2. LockedCopyIsCurrent'
    BY <1>6 DEF AppendRead, TypeOK, LockedCopyIsCurrent
  <2>3. Checked'
    BY <1>6 DEF AppendRead, TypeOK, Checked
  <2>. QED
    BY <2>1, <2>2, <2>3
<1>7. ASSUME NEW t \in Threads, AppendWrite(t)
      PROVE  LockInv'
  <2>. DEFINE e == EventOf(cmd[t], seen[t])
              n == Len(payload[t])
  <2>1. /\ payload[t] = events
        /\ lock = t
        /\ \A s \in Threads : s # t => pc[s] \notin {"read", "write"}
    BY <1>7 DEF AppendWrite, LockedCopyIsCurrent
  <2>2. cmd[t] \in Commands /\ seen[t] \in Statuses
    BY <1>7, CommandFields, LegalStatus DEF AppendWrite, TypeOK, Checked
  <2>3. e \in EventType
    BY <2>2, EventOfType
  <2>4. events' \in Seq(EventType) /\ Len(events') = n + 1 /\ n \in Nat
    BY <1>7, <2>1, <2>3, AppendProperties, LenProperties DEF AppendWrite, TypeOK
  <2>5. SubSeq(born, 1, n) = born
    BY <2>1, SubSeqFull DEF TypeOK
  <2>6. born' \in Seq(Nat) /\ Len(born') = n + 1
    BY <1>7, <2>1, <2>5, AppendProperties DEF AppendWrite, TypeOK
  <2>. HIDE DEF e, n
  <2>7. TypeOK'
    BY <1>7, <2>4, <2>6 DEF AppendWrite, TypeOK, n
  <2>8. LockedCopyIsCurrent'
    BY <1>7, <2>1 DEF AppendWrite, TypeOK, LockedCopyIsCurrent
  <2>9. Checked'
    BY <1>7 DEF AppendWrite, TypeOK, Checked
  <2>. QED
    BY <2>7, <2>8, <2>9
<1>8. ASSUME NEW t \in Threads, StoreFails(t)
      PROVE  LockInv'
  <2>1. TypeOK'
    BY <1>8 DEF StoreFails, TypeOK
  <2>2. LockedCopyIsCurrent'
    BY <1>8 DEF StoreFails, TypeOK, LockedCopyIsCurrent
  <2>3. Checked'
    BY <1>8 DEF StoreFails, TypeOK, Checked
  <2>. QED
    BY <2>1, <2>2, <2>3
<1>9. ASSUME NEW t \in Threads, Deliver(t)
      PROVE  LockInv'
  <2>1. TypeOK'
    BY <1>9, EmptySeq DEF Deliver, TypeOK, Silent
  <2>2. LockedCopyIsCurrent'
    BY <1>9 DEF Deliver, TypeOK, LockedCopyIsCurrent
  <2>3. Checked'
    BY <1>9 DEF Deliver, TypeOK, Checked
  <2>. QED
    BY <2>1, <2>2, <2>3
<1>10. CASE Crash
  <2>1. TypeOK'
    BY <1>10, EmptySeq DEF Crash, TypeOK, Silent
  <2>2. LockedCopyIsCurrent'
    BY <1>10 DEF Crash, TypeOK, LockedCopyIsCurrent
  <2>3. Checked'
    BY <1>10 DEF Crash, TypeOK, Checked
  <2>. QED
    BY <2>1, <2>2, <2>3
<1>11. CASE UNCHANGED vars
  BY <1>11 DEF vars, TypeOK, LockedCopyIsCurrent, Checked
<1>. QED
  BY <1>1, <1>2, <1>3, <1>4, <1>5, <1>6, <1>7, <1>8, <1>9, <1>10, <1>11
     DEF Next, Handle

\* GovernanceService keeps its state well-typed.
THEOREM TypeCorrect == Spec => []TypeOK
<1>1. LockInv => TypeOK
  BY DEF LockInv
<1>. QED
  BY LockInit, LockStep, <1>1, PTL DEF Spec

\* The file lock makes the copy read inside append() the current file.
THEOREM MutualExclusion == Spec => []LockedCopyIsCurrent
<1>1. LockInv => LockedCopyIsCurrent
  BY DEF LockInv
<1>. QED
  BY LockInit, LockStep, <1>1, PTL DEF Spec

(* ---- Every step leaves the log alone or appends one event to it. ---- *)

AppendStep(t) ==
  /\ events' = Append(events, EventOf(cmd[t], seen[t]))
  /\ born' = Append(born, arrived[t])
  /\ EventOf(cmd[t], seen[t]) \in EventType

LEMMA WriteAppends ==
  ASSUME LockInv, NEW t \in Threads, AppendWrite(t)
  PROVE  AppendStep(t)
<1>1. payload[t] = events
  BY DEF LockInv, LockedCopyIsCurrent, AppendWrite
<1>2. SubSeq(born, 1, Len(payload[t])) = born
  BY <1>1, SubSeqFull DEF LockInv, TypeOK
<1>3. cmd[t] \in Commands /\ seen[t] \in Statuses
  BY CommandFields, LegalStatus DEF AppendWrite, LockInv, TypeOK, Checked
<1>. QED
  BY <1>1, <1>2, <1>3, EventOfType DEF AppendWrite, AppendStep

LEMMA OnlyWriteAppends ==
  ASSUME NEW t \in Threads, Handle(t) \/ Accept(t) \/ Crash, ~AppendWrite(t)
  PROVE  UNCHANGED <<events, born>>
BY DEF Handle, Accept, FindKey, FindDecision, Validate, AppendLock, AppendRead,
       StoreFails, Deliver, Crash

LEMMA LogStep ==
  ASSUME LockInv, [Next]_vars
  PROVE  UNCHANGED <<events, born>> \/ \E t \in Threads : AppendStep(t)
<1>1. CASE \E t \in Threads : AppendWrite(t)
  BY <1>1, WriteAppends
<1>2. CASE \E t \in Threads : (Accept(t) \/ Handle(t)) /\ ~AppendWrite(t)
  BY <1>2, OnlyWriteAppends
<1>3. CASE Crash
  BY <1>3 DEF Crash
<1>4. CASE UNCHANGED vars
  BY <1>4 DEF vars
<1>. QED
  BY <1>1, <1>2, <1>3, <1>4 DEF Next, Handle

\* No event is ever lost, changed or moved.
THEOREM LogIsAppendOnly == Spec => AppendOnly
<1>. DEFINE Keeps == /\ Len(events) <= Len(events')
                     /\ SubSeq(events', 1, Len(events)) = events
<1>1. LockInv /\ [Next]_vars => [Keeps]_vars
  <2>. SUFFICES ASSUME LockInv, [Next]_vars
                PROVE  Keeps
    OBVIOUS
  <2>. events \in Seq(EventType) /\ Len(events) \in Nat
    BY LenProperties DEF LockInv, TypeOK
  <2>1. CASE UNCHANGED events
    BY <2>1, SubSeqFull
  <2>2. ASSUME NEW t \in Threads, AppendStep(t)
        PROVE  Keeps
    <3>1. Len(events') = Len(events) + 1
      BY <2>2, AppendProperties DEF AppendStep
    <3>2. SubSeq(events', 1, Len(events)) = SubSeq(events, 1, Len(events))
      BY <2>2, PrefixOfAppend DEF AppendStep
    <3>. QED
      BY <3>1, <3>2, SubSeqFull
  <2>. QED
    BY <2>1, <2>2, LogStep
<1>. QED
  BY <1>1, LockInit, LockStep, PTL DEF Spec, AppendOnly

(* ---- What a thread knows survives the appends of the others. ---- *)

Locals(t) == <<cmd[t], seen[t], arrived[t]>>

LogGrows ==
  UNCHANGED events \/ \E e \in EventType : events' = Append(events, e)

LEMMA GrowthFacts ==
  ASSUME TypeOK, LogGrows
  PROVE  /\ Len(events) \in Nat /\ Len(events') \in Nat
         /\ Len(events) <= Len(events')
         /\ \A i \in 1 .. Len(events) : events'[i] = events[i]
         /\ \A k \in 0 .. Len(events) :
              SubSeq(events', 1, k) = SubSeq(events, 1, k)
<1>1. CASE UNCHANGED events
  BY <1>1, LenProperties DEF TypeOK
<1>2. ASSUME NEW e \in EventType, events' = Append(events, e)
      PROVE  /\ Len(events) \in Nat /\ Len(events') \in Nat
             /\ Len(events) <= Len(events')
             /\ \A i \in 1 .. Len(events) : events'[i] = events[i]
             /\ \A k \in 0 .. Len(events) :
                  SubSeq(events', 1, k) = SubSeq(events, 1, k)
  BY <1>2, AppendProperties, LenProperties, PrefixOfAppend DEF TypeOK
<1>. QED
  BY <1>1, <1>2 DEF LogGrows

LEMMA KnowledgeIsStable ==
  ASSUME TypeOK, LogGrows, NEW t \in Threads, UNCHANGED Locals(t),
         arrived[t] <= Len(events)
  PROVE  /\ arrived'[t] <= Len(events')
         /\ KeyUnused(t) => KeyUnused(t)'
         /\ DecisionUnused(t) => DecisionUnused(t)'
         /\ StatusWasSeen(t) => StatusWasSeen(t)'
<1>1. arrived[t] \in Nat /\ arrived[t] \in 0 .. Len(events)
  BY GrowthFacts DEF TypeOK
<1>2. cmd'[t] = cmd[t] /\ seen'[t] = seen[t] /\ arrived'[t] = arrived[t]
  BY DEF Locals
<1>3. KeyUnused(t) => KeyUnused(t)'
  BY <1>1, <1>2, GrowthFacts DEF KeyUnused
<1>4. DecisionUnused(t) => DecisionUnused(t)'
  BY <1>1, <1>2, GrowthFacts DEF DecisionUnused
<1>5. ASSUME StatusWasSeen(t)
      PROVE  StatusWasSeen(t)'
  <2>. PICK k \in arrived[t] .. Len(events) :
         seen[t] = EffectiveStatus(SubSeq(events, 1, k), cmd[t].aggregate,
                                   cmd[t].group)
    BY <1>5 DEF StatusWasSeen
  <2>1. k \in 0 .. Len(events) /\ k \in arrived'[t] .. Len(events')
    BY <1>1, <1>2, GrowthFacts
  <2>2. SubSeq(events', 1, k) = SubSeq(events, 1, k)
    BY <2>1, GrowthFacts
  <2>. QED
    BY <1>2, <2>1, <2>2 DEF StatusWasSeen
<1>. QED
  BY <1>1, <1>2, <1>3, <1>4, <1>5, GrowthFacts

\* A search that finds nothing covers the log as it was on arrival.
LEMMA EmptySearch ==
  ASSUME TypeOK, NEW t \in Threads, arrived[t] <= Len(events)
  PROVE  /\ FindByKey(events, cmd[t].key) = {} => KeyUnused(t)
         /\ FindByDecision(events, cmd[t].decision) = {} => DecisionUnused(t)
<1>1. /\ DOMAIN events = 1 .. Len(events)
      /\ Len(events) \in Nat /\ arrived[t] \in Nat
  BY LenProperties DEF TypeOK
<1>. QED
  BY <1>1 DEF FindByKey, FindByDecision, KeyUnused, DecisionUnused

Knows(t) ==
  /\ arrived[t] <= Len(events)
  /\ pc[t] \in {"find_decision", "validate", "lock", "read", "write"} =>
       KeyUnused(t)
  /\ pc[t] \in {"validate", "lock", "read", "write"} => DecisionUnused(t)
  /\ pc[t] \in {"lock", "read", "write"} =>
       Legal(cmd[t].group, seen[t], cmd[t].new) /\ StatusWasSeen(t)

LEMMA KnowsStable ==
  ASSUME TypeOK, LogGrows, NEW t \in Threads, UNCHANGED <<pc[t], Locals(t)>>,
         Knows(t)
  PROVE  Knows(t)'
BY KnowledgeIsStable DEF Knows, Locals

LEMMA ThreadKnowledgeStep ==
  LockInv /\ ThreadKnowledge /\ [Next]_vars => ThreadKnowledge'
<1>. SUFFICES ASSUME LockInv, ThreadKnowledge, [Next]_vars, NEW s \in Threads
              PROVE  Knows(s)'
  BY DEF ThreadKnowledge, Knows
<1>. TypeOK /\ Knows(s) /\ LogGrows
  BY LogStep DEF LockInv, ThreadKnowledge, Knows, LogGrows, AppendStep
<1>. USE DEF Goto, Reply
<1>0. CASE UNCHANGED <<pc[s], Locals(s)>>
  BY <1>0, KnowsStable
<1>1. CASE Accept(s)
  <2>1. pc'[s] \in {"find_key", "done"}
    BY <1>1 DEF Accept, TypeOK
  <2>2. arrived'[s] = Len(events) /\ events' = events
    BY <1>1 DEF Accept, TypeOK
  <2>. QED
    BY <2>1, <2>2, GrowthFacts DEF Knows
<1>2. CASE FindKey(s)
  <2>1. UNCHANGED <<events, Locals(s)>>
    BY <1>2 DEF FindKey, Locals
  <2>2. \/ pc'[s] = "done"
        \/ pc'[s] = "find_decision" /\ FindByKey(events, cmd[s].key) = {}
    BY <1>2 DEF FindKey, TypeOK
  <2>. QED
    BY <2>1, <2>2, EmptySearch, KnowledgeIsStable DEF Knows
<1>3. CASE FindDecision(s)
  <2>1. UNCHANGED <<events, Locals(s)>> /\ KeyUnused(s)
    BY <1>3 DEF FindDecision, Locals, Knows
  <2>2. \/ pc'[s] = "done"
        \/ /\ pc'[s] = "validate"
           /\ FindByDecision(events, cmd[s].decision) = {}
    BY <1>3 DEF FindDecision, TypeOK
  <2>. QED
    BY <2>1, <2>2, EmptySearch, KnowledgeIsStable DEF Knows
<1>4. CASE Validate(s)
  <2>1. KeyUnused(s) /\ DecisionUnused(s) /\ UNCHANGED <<events, cmd, arrived>>
    BY <1>4 DEF Validate, Knows
  <2>2. KeyUnused(s)' /\ DecisionUnused(s)' /\ arrived'[s] <= Len(events')
    BY <2>1 DEF KeyUnused, DecisionUnused, Knows
  <2>3. CASE pc'[s] = "done"
    BY <2>2, <2>3 DEF Knows
  <2>4. CASE /\ pc'[s] = "lock"
             /\ seen'[s] = Current(cmd[s])
             /\ Legal(cmd[s].group, Current(cmd[s]), cmd[s].new)
    <3>1. SubSeq(events, 1, Len(events)) = events
      BY SubSeqFull DEF TypeOK
    <3>2. Len(events) \in arrived[s] .. Len(events)
      BY GrowthFacts DEF TypeOK, Knows
    <3>3. StatusWasSeen(s)'
      BY <2>1, <2>4, <3>1, <3>2 DEF StatusWasSeen, Current
    <3>. QED
      BY <2>1, <2>2, <2>4, <3>3 DEF Knows
  <2>. QED
    BY <1>4, <2>3, <2>4 DEF Validate, TypeOK
<1>5. CASE AppendLock(s) \/ AppendRead(s) \/ AppendWrite(s) \/ StoreFails(s)
  <2>1. UNCHANGED Locals(s)
    BY <1>5 DEF AppendLock, AppendRead, AppendWrite, StoreFails, Locals
  <2>2. \/ pc'[s] = "done"
        \/ /\ pc[s] \in {"lock", "read"}
           /\ pc'[s] \in {"read", "write"}
    BY <1>5 DEF AppendLock, AppendRead, AppendWrite, StoreFails, TypeOK
  <2>. QED
    BY <2>1, <2>2, KnowledgeIsStable DEF Knows, Locals
<1>6. CASE Deliver(s) \/ Crash
  <2>1. pc'[s] = "idle" /\ arrived'[s] = 0 /\ events' = events
    BY <1>6 DEF Deliver, Crash, TypeOK
  <2>. QED
    BY <2>1, GrowthFacts DEF Knows
<1>7. ASSUME NEW t \in Threads, t # s, Accept(t) \/ Handle(t)
      PROVE  UNCHANGED <<pc[s], Locals(s)>>
  BY <1>7 DEF Handle, Accept, FindKey, FindDecision, Validate, AppendLock,
     AppendRead, AppendWrite, StoreFails, Deliver, Locals, TypeOK
<1>8. CASE UNCHANGED vars
  BY <1>0, <1>8 DEF vars, Locals
<1>. QED
  BY <1>0, <1>1, <1>2, <1>3, <1>4, <1>5, <1>6, <1>7, <1>8 DEF Next, Handle

LEMMA ThreadKnowledgeInit == Init => ThreadKnowledge
BY EmptySeq DEF Init, ThreadKnowledge

(* ---- The history of the log. ---- *)

HistoryInv == DuplicatesOverlap /\ HonestPrevious

LEMMA HistoryInit == Init => HistoryInv
BY DEF Init, HistoryInv, DuplicatesOverlap, HonestPrevious

LEMMA HistoryStep ==
  LockInv /\ ThreadKnowledge /\ HistoryInv /\ [Next]_vars => HistoryInv'
<1>. SUFFICES ASSUME LockInv, ThreadKnowledge, HistoryInv, [Next]_vars
              PROVE  HistoryInv'
  OBVIOUS
<1>1. CASE UNCHANGED <<events, born>>
  BY <1>1 DEF HistoryInv, DuplicatesOverlap, HonestPrevious, SameKey, SameDecision
<1>2. ASSUME NEW t \in Threads, AppendWrite(t)
      PROVE  HistoryInv'
  <2>. DEFINE e == EventOf(cmd[t], seen[t])
              n == Len(events)
  <2>1. /\ n \in Nat
        /\ DOMAIN events = 1 .. n
        /\ Len(events') = n + 1
        /\ DOMAIN events' = 1 .. (n + 1)
        /\ \A i \in 1 .. n : events'[i] = events[i]
        /\ events'[n + 1] = e
    <3>1. /\ events' = Append(events, e) /\ e \in EventType
          /\ events \in Seq(EventType)
      BY <1>2, WriteAppends DEF AppendStep, LockInv, TypeOK
    <3>. HIDE DEF e
    <3>2. n \in Nat /\ DOMAIN events = 1 .. n
      BY <3>1, LenProperties
    <3>3. events' \in Seq(EventType) /\ Len(events') = n + 1
      BY <3>1, AppendProperties
    <3>4. DOMAIN events' = 1 .. (n + 1)
      BY <3>3, LenProperties
    <3>. QED
      BY <3>1, <3>2, <3>3, <3>4, AppendProperties
  <2>2. /\ \A i \in 1 .. n : born'[i] = born[i]
        /\ born'[n + 1] = arrived[t]
    <3>1. /\ born' = Append(born, arrived[t])
          /\ born \in Seq(Nat) /\ Len(born) = n /\ arrived[t] \in Nat
      BY <1>2, WriteAppends DEF AppendStep, LockInv, TypeOK
    <3>. QED
      BY <3>1, AppendProperties
  <2>3. \A k \in 0 .. n : SubSeq(events', 1, k) = SubSeq(events, 1, k)
    <3>1. events' = Append(events, e) /\ events \in Seq(EventType) /\ e \in EventType
      BY <1>2, WriteAppends DEF AppendStep, LockInv, TypeOK
    <3>. HIDE DEF e
    <3>. QED
      BY <3>1, PrefixOfAppend
  <2>4. /\ arrived[t] \in 0 .. n
        /\ KeyUnused(t) /\ DecisionUnused(t) /\ StatusWasSeen(t)
        /\ Legal(cmd[t].group, seen[t], cmd[t].new)
    BY <1>2, <2>1 DEF AppendWrite, ThreadKnowledge, LockInv, TypeOK
  <2>5. /\ e.key = cmd[t].key /\ e.decision = cmd[t].decision
        /\ e.aggregate = cmd[t].aggregate /\ e.group = cmd[t].group
        /\ e.previous = seen[t] /\ e.new = cmd[t].new
    BY DEF EventOf
  <2>. HIDE DEF e, n
  <2>6. DuplicatesOverlap'
    <3>. SUFFICES ASSUME NEW i \in 1 .. (n + 1), NEW j \in 1 .. (n + 1), i < j,
                         SameKey(i, j)' \/ SameDecision(i, j)'
                  PROVE  born'[j] < i
      BY <2>1 DEF DuplicatesOverlap
    <3>. i \in 1 .. n
      BY <2>1
    <3>1. CASE j \in 1 .. n
      BY <2>1, <2>2, <3>1 DEF HistoryInv, DuplicatesOverlap, SameKey, SameDecision
    <3>2. CASE j = n + 1
      <4>1. \/ events[i].key = cmd[t].key /\ cmd[t].key # BlankKey
            \/ events[i].decision = cmd[t].decision
        BY <2>1, <2>5, <3>2 DEF SameKey, SameDecision
      <4>2. i \notin 1 .. arrived[t]
        BY <2>4, <4>1 DEF KeyUnused, DecisionUnused
      <4>. QED
        BY <2>1, <2>2, <2>4, <3>2, <4>2
    <3>. QED
      BY <2>1, <3>1, <3>2
  <2>7. HonestPrevious'
    <3>. DEFINE Honest(j, f, b, log) ==
           /\ Legal(f.group, f.previous, f.new)
           /\ \E k \in b .. (j - 1) :
                f.previous = EffectiveStatus(SubSeq(log, 1, k), f.aggregate, f.group)
    <3>. SUFFICES ASSUME NEW j \in 1 .. (n + 1)
                  PROVE  Honest(j, events'[j], born'[j], events')
      BY <2>1 DEF HonestPrevious
    <3>1. CASE j \in 1 .. n
      <4>1. Honest(j, events[j], born[j], events)
        BY <2>1, <3>1 DEF HistoryInv, HonestPrevious
      <4>2. \A k \in born[j] .. (j - 1) : k \in 0 .. n
        BY <2>1, <3>1, ElementOfSeq DEF LockInv, TypeOK, n
      <4>. QED
        BY <2>1, <2>2, <2>3, <3>1, <4>1, <4>2
    <3>2. CASE j = n + 1
      <4>. PICK k \in arrived[t] .. n :
             seen[t] = EffectiveStatus(SubSeq(events, 1, k), cmd[t].aggregate,
                                       cmd[t].group)
        BY <2>4 DEF StatusWasSeen, n
      <4>1. k \in 0 .. n /\ k \in arrived[t] .. (j - 1)
        BY <2>1, <2>4, <3>2
      <4>2. SubSeq(events', 1, k) = SubSeq(events, 1, k)
        BY <2>3, <4>1
      <4>. QED
        BY <2>1, <2>2, <2>4, <2>5, <3>2, <4>1, <4>2
    <3>. QED
      BY <2>1, <3>1, <3>2
  <2>. QED
    BY <2>6, <2>7 DEF HistoryInv
<1>3. UNCHANGED <<events, born>> \/ \E t \in Threads : AppendWrite(t)
  BY OnlyWriteAppends DEF Next, Handle, Accept, Crash, vars
<1>. QED
  BY <1>1, <1>2, <1>3

(* ---- The answers. ---- *)

LEMMA AnswersInit == Init => AnswersJustified
BY DEF Init, AnswersJustified

LEMMA AnswerIsStable ==
  ASSUME TypeOK, ThreadKnowledge, LogGrows, NEW t \in Threads,
         UNCHANGED <<Locals(t), reply[t]>>, AnswerJustified(t)
  PROVE  AnswerJustified(t)'
<1>. DEFINE at == reply[t].at
            kind == reply[t].kind
<1>1. /\ DOMAIN events = 1 .. Len(events) /\ Len(events) \in Nat
      /\ DOMAIN events' = 1 .. Len(events') /\ Len(events') \in Nat
      /\ at \in Nat
  <2>1. \A e \in EventType : DOMAIN Append(events, e) = 1 .. Len(Append(events, e))
    BY AppendProperties, LenProperties DEF TypeOK
  <2>. QED
    BY <2>1, GrowthFacts, LenProperties DEF TypeOK, LogGrows
<1>2. arrived[t] <= Len(events)
  BY DEF ThreadKnowledge
<1>3. KeyUnused(t) => KeyUnused(t)'
  BY <1>2, KnowledgeIsStable
<1>4. at \in DOMAIN events => at \in DOMAIN events' /\ events'[at] = events[at]
  BY <1>1, GrowthFacts
<1>5. at \in arrived[t] .. Len(events) =>
        /\ at \in arrived[t] .. Len(events')
        /\ SubSeq(events', 1, at) = SubSeq(events, 1, at)
  BY <1>1, GrowthFacts
<1>6. /\ cmd'[t] = cmd[t] /\ seen'[t] = seen[t] /\ arrived'[t] = arrived[t]
      /\ reply'[t] = reply[t]
  BY DEF Locals
<1>7. \/ kind \in {"none", "owned", "unavailable"}
      \/ kind \in {"created", "existing", "idempotency_conflict",
                   "duplicate_decision"} /\ at \in DOMAIN events
      \/ kind \in {"missing_field", "invalid_transition"}
           /\ at \in arrived[t] .. Len(events)
  BY DEF AnswerJustified, TypeOK, ReplyKinds
<1>8. CASE kind \in {"none", "owned", "unavailable"}
  BY <1>6, <1>8 DEF AnswerJustified
<1>9. CASE kind \in {"created", "existing", "idempotency_conflict",
                    "duplicate_decision"} /\ at \in DOMAIN events
  <2>1. at \in DOMAIN events' /\ events'[at] = events[at]
    BY <1>4, <1>9
  <2>2. /\ kind = "created" =>
             at > arrived[t] /\ events[at] = EventOf(cmd[t], seen[t])
        /\ kind = "existing" =>
             events[at].key = cmd[t].key
               /\ Normalized(events[at]) = Normalized(cmd[t])
        /\ kind = "idempotency_conflict" =>
             events[at].key = cmd[t].key
               /\ Normalized(events[at]) # Normalized(cmd[t])
        /\ kind = "duplicate_decision" =>
             events[at].decision = cmd[t].decision /\ KeyUnused(t)'
    BY <1>3, <1>9 DEF AnswerJustified
  <2>. QED
    BY <1>6, <1>9, <2>1, <2>2 DEF AnswerJustified
<1>10. CASE kind \in {"missing_field", "invalid_transition"}
              /\ at \in arrived[t] .. Len(events)
  <2>1. kind = "invalid_transition" =>
          ~Legal(cmd[t].group, EffectiveStatus(SubSeq(events, 1, at),
                   cmd[t].aggregate, cmd[t].group), cmd[t].new)
    BY <1>10 DEF AnswerJustified
  <2>. QED
    BY <1>5, <1>6, <1>10, <2>1 DEF AnswerJustified
<1>. QED
  BY <1>7, <1>8, <1>9, <1>10

LEMMA AnswersStep ==
  LockInv /\ ThreadKnowledge /\ AnswersJustified /\ [Next]_vars
    => AnswersJustified'
<1>. SUFFICES ASSUME LockInv, ThreadKnowledge, AnswersJustified, [Next]_vars,
                     NEW s \in Threads, pc'[s] = "done"
              PROVE  AnswerJustified(s)'
  BY DEF AnswersJustified
<1>. TypeOK /\ LogGrows
  BY LogStep DEF LockInv, LogGrows, AppendStep
<1>. USE DEF Goto, Reply, Answer
<1>0. CASE UNCHANGED <<pc[s], Locals(s), reply[s]>>
  BY <1>0, AnswerIsStable DEF AnswersJustified
<1>1. CASE Accept(s)
  <2>1. reply'[s].kind = "owned"
    BY <1>1 DEF Accept, TypeOK
  <2>. QED
    BY <2>1 DEF AnswerJustified
<1>2. CASE FindKey(s)
  <2>. DEFINE hits == FindByKey(events, cmd[s].key)
  <2>1. /\ hits # {}
        /\ reply'[s].at = Min(hits)
        /\ reply'[s].kind = IF Normalized(events[Min(hits)]) = Normalized(cmd[s])
                              THEN "existing" ELSE "idempotency_conflict"
        /\ UNCHANGED <<events, cmd>>
    BY <1>2 DEF FindKey, TypeOK
  <2>2. Min(hits) \in hits
    BY <2>1, MinMember, HitsArePositions DEF TypeOK
  <2>3. Min(hits) \in DOMAIN events /\ events[Min(hits)].key = cmd[s].key
    BY <2>2 DEF FindByKey
  <2>. QED
    BY <2>1, <2>3 DEF AnswerJustified
<1>3. CASE FindDecision(s)
  <2>. DEFINE hits == FindByDecision(events, cmd[s].decision)
  <2>1. /\ hits # {}
        /\ reply'[s].at = Min(hits)
        /\ reply'[s].kind = "duplicate_decision"
        /\ UNCHANGED <<events, cmd, arrived>>
    BY <1>3 DEF FindDecision, TypeOK
  <2>2. Min(hits) \in hits
    BY <2>1, MinMember, HitsArePositions DEF TypeOK
  <2>3. Min(hits) \in DOMAIN events /\ events[Min(hits)].decision = cmd[s].decision
    BY <2>2 DEF FindByDecision
  <2>4. KeyUnused(s)'
    BY <1>3, <2>1 DEF FindDecision, ThreadKnowledge, KeyUnused
  <2>. QED
    BY <2>1, <2>3, <2>4 DEF AnswerJustified
<1>4. CASE Validate(s)
  <2>1. /\ reply'[s].at = Len(events)
        /\ \/ reply'[s].kind = "missing_field"
           \/ /\ reply'[s].kind = "invalid_transition"
              /\ ~Legal(cmd[s].group, Current(cmd[s]), cmd[s].new)
        /\ UNCHANGED <<events, cmd, arrived>>
    BY <1>4 DEF Validate, TypeOK
  <2>2. Len(events) \in arrived[s] .. Len(events)
    BY GrowthFacts DEF ThreadKnowledge, TypeOK
  <2>3. SubSeq(events, 1, Len(events)) = events
    BY SubSeqFull DEF TypeOK
  <2>. QED
    BY <2>1, <2>2, <2>3 DEF AnswerJustified, Current
<1>5. CASE AppendWrite(s)
  <2>1. /\ reply'[s].at = Len(events) + 1
        /\ reply'[s].kind = "created"
        /\ UNCHANGED <<cmd, seen, arrived>>
    BY <1>5 DEF AppendWrite, LockInv, LockedCopyIsCurrent, TypeOK
  <2>2. /\ Len(events') = Len(events) + 1
        /\ DOMAIN events' = 1 .. Len(events')
        /\ events'[Len(events) + 1] = EventOf(cmd[s], seen[s])
    BY <1>5, WriteAppends, AppendProperties, LenProperties
       DEF AppendStep, TypeOK
  <2>3. arrived[s] < Len(events) + 1 /\ Len(events) + 1 \in 1 .. Len(events')
    BY <2>2, GrowthFacts DEF ThreadKnowledge, TypeOK
  <2>. QED
    BY <2>1, <2>2, <2>3 DEF AnswerJustified
<1>6. CASE StoreFails(s)
  <2>1. reply'[s].kind = "unavailable"
    BY <1>6 DEF StoreFails, TypeOK
  <2>. QED
    BY <2>1 DEF AnswerJustified
<1>7. CASE AppendLock(s) \/ AppendRead(s) \/ Deliver(s) \/ Crash
  BY <1>7 DEF AppendLock, AppendRead, Deliver, Crash, TypeOK
<1>8. ASSUME NEW t \in Threads, t # s, Accept(t) \/ Handle(t)
      PROVE  UNCHANGED <<pc[s], Locals(s), reply[s]>>
  BY <1>8 DEF Handle, Accept, FindKey, FindDecision, Validate, AppendLock,
     AppendRead, AppendWrite, StoreFails, Deliver, Locals, TypeOK
<1>9. CASE UNCHANGED vars
  BY <1>0, <1>9 DEF vars, Locals
<1>. QED
  BY <1>0, <1>1, <1>2, <1>3, <1>4, <1>5, <1>6, <1>7, <1>8, <1>9 DEF Next, Handle

(* ---- The theorems. ---- *)

IInv == LockInv /\ ThreadKnowledge /\ HistoryInv /\ AnswersJustified

LEMMA IInvInit == Init => IInv
BY LockInit, ThreadKnowledgeInit, HistoryInit, AnswersInit DEF IInv

LEMMA IInvStep == IInv /\ [Next]_vars => IInv'
BY LockStep, ThreadKnowledgeStep, HistoryStep, AnswersStep DEF IInv

\* What a thread learnt in its unlocked reads stays true until it appends.
THEOREM KnowledgeHolds == Spec => []ThreadKnowledge
<1>1. IInv => ThreadKnowledge
  BY DEF IInv
<1>. QED
  BY IInvInit, IInvStep, <1>1, PTL DEF Spec

\* A key or decision id takes effect twice only for overlapping requests: a
\* retry after an answer, a 503 or a restart never does.
THEOREM RetriesTakeEffectOnce == Spec => []DuplicatesOverlap
<1>1. IInv => DuplicatesOverlap
  BY DEF IInv, HistoryInv
<1>. QED
  BY IInvInit, IInvStep, <1>1, PTL DEF Spec

\* Every event's previous_status was effective while its request was handled.
THEOREM PreviousStatusIsHonest == Spec => []HonestPrevious
<1>1. IInv => HonestPrevious
  BY DEF IInv, HistoryInv
<1>. QED
  BY IInvInit, IInvStep, <1>1, PTL DEF Spec

\* Every answer is justified by the log.
THEOREM AnswersAreTrue == Spec => []AnswersJustified
<1>1. IInv => AnswersJustified
  BY DEF IInv
<1>. QED
  BY IInvInit, IInvStep, <1>1, PTL DEF Spec

(* ---- One request at a time: the service is the atomic ledger. ---- *)

OneThread == \A s, t \in Threads : s = t

Working(t) == pc[t] \notin {"idle", "done"}

\* The only request being handled has seen the whole log.
SerialInv ==
  /\ \A j \in DOMAIN events : born[j] = j - 1
  /\ \A t \in Threads : Working(t) =>
       arrived[t] = Len(events) /\ ~ExternallyOwned(cmd[t])
  /\ \A t \in Threads : pc[t] \in {"lock", "read", "write"} => cmd[t].complete

LEMMA SerialInit == Init => SerialInv
BY DEF Init, SerialInv, Working

LEMMA SerialStep ==
  ASSUME OneThread
  PROVE  IInv /\ SerialInv /\ [Next]_vars => SerialInv'
<1>. SUFFICES ASSUME IInv, SerialInv, [Next]_vars
              PROVE  SerialInv'
  OBVIOUS
<1>. TypeOK /\ LockInv
  BY DEF IInv, LockInv
<1>. USE DEF Goto, Reply, OneThread
<1>1. ASSUME NEW t \in Threads, AppendWrite(t)
      PROVE  SerialInv'
  <2>1. /\ DOMAIN events' = 1 .. (Len(events) + 1)
        /\ DOMAIN events = 1 .. Len(events)
        /\ Len(events) \in Nat
    BY <1>1, WriteAppends, AppendProperties, LenProperties
       DEF AppendStep, TypeOK
  <2>2. /\ born' = Append(born, arrived[t])
        /\ born \in Seq(Nat) /\ Len(born) = Len(events) /\ arrived[t] \in Nat
    BY <1>1, WriteAppends DEF AppendStep, TypeOK
  <2>3. /\ \A i \in 1 .. Len(events) : born'[i] = born[i]
        /\ born'[Len(events) + 1] = arrived[t]
    BY <2>2, AppendProperties
  <2>4. arrived[t] = Len(events)
    BY <1>1 DEF SerialInv, Working, AppendWrite
  <2>5. \A j \in DOMAIN events' : born'[j] = j - 1
    BY <2>1, <2>3, <2>4 DEF SerialInv
  <2>6. \A s \in Threads : ~Working(s)' /\ pc'[s] = "done"
    BY <1>1 DEF AppendWrite, Working, TypeOK
  <2>. QED
    BY <2>5, <2>6 DEF SerialInv
<1>2. ASSUME NEW t \in Threads, Accept(t)
      PROVE  SerialInv'
  BY <1>2 DEF Accept, SerialInv, Working, TypeOK
<1>3. ASSUME NEW t \in Threads, Validate(t)
      PROVE  SerialInv'
  BY <1>3 DEF Validate, SerialInv, Working, TypeOK
<1>4. ASSUME NEW t \in Threads,
             \/ FindKey(t) \/ FindDecision(t) \/ AppendLock(t) \/ AppendRead(t)
             \/ StoreFails(t) \/ Deliver(t)
      PROVE  SerialInv'
  <2>1. CASE FindKey(t)
    BY <1>4, <2>1 DEF FindKey, SerialInv, Working, TypeOK
  <2>2. CASE FindDecision(t)
    BY <1>4, <2>2 DEF FindDecision, SerialInv, Working, TypeOK
  <2>3. CASE AppendLock(t) \/ AppendRead(t)
    BY <1>4, <2>3 DEF AppendLock, AppendRead, SerialInv, Working, TypeOK
  <2>4. CASE StoreFails(t)
    BY <1>4, <2>4 DEF StoreFails, SerialInv, Working, TypeOK
  <2>5. CASE Deliver(t)
    BY <1>4, <2>5 DEF Deliver, SerialInv, Working, TypeOK
  <2>. QED
    BY <1>4, <2>1, <2>2, <2>3, <2>4, <2>5
<1>5. CASE Crash
  BY <1>5 DEF Crash, SerialInv, Working
<1>6. CASE UNCHANGED vars
  BY <1>6 DEF vars, SerialInv, Working
<1>. QED
  BY <1>1, <1>2, <1>3, <1>4, <1>5, <1>6 DEF Next, Handle

\* With one thread, an event's request arrived after all earlier events.
LEMMA SerialLogHasNoTwins ==
  ASSUME IInv, SerialInv
  PROVE  UniqueKeys /\ UniqueDecisions
<1>. SUFFICES ASSUME NEW i \in DOMAIN events, NEW j \in DOMAIN events, i < j,
                     SameKey(i, j) \/ SameDecision(i, j)
              PROVE  FALSE
  <2>1. DOMAIN events \in SUBSET Nat
    BY LenProperties DEF IInv, LockInv, TypeOK
  <2>2. \A i, j : /\ SameKey(i, j) => SameKey(j, i)
                  /\ SameDecision(i, j) => SameDecision(j, i)
    BY DEF SameKey, SameDecision
  <2>3. \A i, j \in DOMAIN events : i < j \/ i = j \/ j < i
    BY <2>1
  <2>. QED
    BY <2>2, <2>3 DEF UniqueKeys, UniqueDecisions
<1>1. i \in Nat /\ j \in Nat
  BY LenProperties DEF IInv, LockInv, TypeOK
<1>2. born[j] < i /\ born[j] = j - 1
  BY DEF IInv, HistoryInv, DuplicatesOverlap, SerialInv
<1>. QED
  BY <1>1, <1>2

\* With one thread, no idempotency key is ever used twice.
THEOREM SerialKeysUnique ==
  ASSUME OneThread
  PROVE  Spec => []UniqueKeys
<1>1. IInv /\ SerialInv => UniqueKeys
  BY SerialLogHasNoTwins
<1>. QED
  BY IInvInit, IInvStep, SerialInit, SerialStep, <1>1, PTL DEF Spec

\* With one thread, no decision id is ever used twice.
THEOREM SerialUniqueness ==
  ASSUME OneThread
  PROVE  Spec => []UniqueDecisions
<1>1. IInv /\ SerialInv => UniqueDecisions
  BY SerialLogHasNoTwins
<1>. QED
  BY IInvInit, IInvStep, SerialInit, SerialStep, <1>1, PTL DEF Spec

\* The ledger reads its log with the same functions.
LEMMA LedgerOperators ==
  /\ \A l, a, g : Ledger!EffectiveStatus(l, a, g) = EffectiveStatus(l, a, g)
  /\ \A l, k : Ledger!FindByKey(l, k) = FindByKey(l, k)
  /\ \A l, d : Ledger!FindByDecision(l, d) = FindByDecision(l, d)
  /\ \A g, p, n : Ledger!Legal(g, p, n) = Legal(g, p, n)
  /\ \A c : Ledger!ExternallyOwned(c) = ExternallyOwned(c)
  /\ \A c, p : Ledger!EventOf(c, p) = EventOf(c, p)
<1>1. \A l, a, g : Ledger!EffectiveStatus(l, a, g) = EffectiveStatus(l, a, g)
  BY DEF EffectiveStatus, Ledger!EffectiveStatus, EventHistory,
         Ledger!EventHistory, InitialStatus, Ledger!InitialStatus, Max, Ledger!Max
<1>2. /\ \A l, k : Ledger!FindByKey(l, k) = FindByKey(l, k)
      /\ \A l, d : Ledger!FindByDecision(l, d) = FindByDecision(l, d)
  BY DEF FindByKey, Ledger!FindByKey, FindByDecision, Ledger!FindByDecision
<1>3. \A g, p, n : Ledger!Legal(g, p, n) = Legal(g, p, n)
  BY DEF Legal, Ledger!Legal, Transitions, Ledger!Transitions
<1>4. \A c : Ledger!ExternallyOwned(c) = ExternallyOwned(c)
  BY DEF ExternallyOwned, Ledger!ExternallyOwned, RestrictedTypes,
         Ledger!RestrictedTypes
<1>5. \A c, p : Ledger!EventOf(c, p) = EventOf(c, p)
  BY DEF EventOf, Ledger!EventOf
<1>. QED
  BY <1>1, <1>2, <1>3, <1>4, <1>5

\* With one thread, every behaviour of the service is one of the ledger: the
\* four file accesses of a command act as one atomic Record.
THEOREM SerialImplementsLedger ==
  ASSUME OneThread
  PROVE  Spec => ImplementsLedger
<1>1. Init => Ledger!Init
  BY DEF Init, Ledger!Init
<1>2. IInv /\ SerialInv /\ [Next]_vars => [Ledger!Next]_events
  <2>. SUFFICES ASSUME IInv, SerialInv, [Next]_vars
                PROVE  UNCHANGED events \/ Ledger!Next
    OBVIOUS
  <2>. TypeOK /\ LockInv
    BY DEF IInv, LockInv
  <2>1. ASSUME NEW t \in Threads, AppendWrite(t)
        PROVE  Ledger!Next
    <3>. DEFINE c == cmd[t]
    <3>1. /\ c \in Commands /\ arrived[t] = Len(events)
          /\ ~ExternallyOwned(c) /\ c.complete
      BY <2>1 DEF AppendWrite, SerialInv, Working, TypeOK
    <3>2. KeyUnused(t) /\ DecisionUnused(t) /\ StatusWasSeen(t)
            /\ Legal(c.group, seen[t], c.new)
      BY <2>1 DEF AppendWrite, IInv, ThreadKnowledge
    <3>3. DOMAIN events = 1 .. Len(events) /\ Len(events) \in Nat
      BY LenProperties DEF TypeOK
    <3>4. FindByKey(events, c.key) = {} /\ FindByDecision(events, c.decision) = {}
      BY <3>1, <3>2, <3>3 DEF FindByKey, FindByDecision, KeyUnused, DecisionUnused
    <3>5. seen[t] = EffectiveStatus(events, c.aggregate, c.group)
      <4>1. SubSeq(events, 1, Len(events)) = events
        BY SubSeqFull DEF TypeOK
      <4>2. \A n \in Nat : \A k \in n .. n : k = n
        OBVIOUS
      <4>. QED
        BY <3>1, <3>2, <3>3, <4>1, <4>2 DEF StatusWasSeen
    <3>6. events' = Append(events, EventOf(c, seen[t]))
      BY <2>1, WriteAppends DEF AppendStep
    <3>. QED
      BY <3>1, <3>2, <3>4, <3>5, <3>6, LedgerOperators
         DEF Ledger!Next, Ledger!Record
  <2>2. UNCHANGED events \/ \E t \in Threads : AppendWrite(t)
    BY OnlyWriteAppends DEF Next, Handle, Accept, Crash, vars
  <2>. QED
    BY <2>1, <2>2
<1>. QED
  BY IInvInit, IInvStep, SerialInit, SerialStep, <1>1, <1>2, PTL
     DEF Spec, ImplementsLedger, Ledger!Spec
===============================================================================
