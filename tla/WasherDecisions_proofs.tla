------------------------ MODULE WasherDecisions_proofs ------------------------
(***************************************************************************)
(* Safety of the washer decision workflow for any number of threads, any   *)
(* requests and any source ledger.  The lock protects the file; nothing    *)
(* protects the cache, so the inductive invariant IInv says of the cache,  *)
(* and of every list a thread is about to put there, only that it is a     *)
(* prefix of the file, and of a validated status only that it was the      *)
(* effective one at some prefix.                                           *)
(***************************************************************************)
EXTENDS WasherDecisions, LogLemmas

(* ---- Lemmas about the operators the model is built from. ---- *)

LEMMA RequestFields ==
  ASSUME NEW r \in Requests
  PROVE  r.new \in Statuses
BY RequestsAssumption

LEMMA LegalStatus ==
  ASSUME NEW p, NEW n, Legal(p, n)
  PROVE  p \in Statuses /\ p # "blocked_authoritative_source"
BY DEF Legal, AllowedTransitions, Active, Statuses

LEMMA DecisionOfType ==
  ASSUME NEW r \in Requests, r.resolution \in Resolutions, NEW p \in Statuses
  PROVE  DecisionOf(r, p) \in DecisionType
BY RequestFields DEF DecisionOf, DecisionType

\* A key lookup returns positions of the log, the first of them included.
LEMMA KeyHits ==
  ASSUME NEW T, NEW log \in Seq(T), NEW k
  PROVE  /\ DOMAIN log = 1 .. Len(log)
         /\ Len(log) \in Nat
         /\ FindByKey(log, k) # {} =>
              /\ Min(FindByKey(log, k)) \in 1 .. Len(log)
              /\ log[Min(FindByKey(log, k))].key = k
<1>1. DOMAIN log = 1 .. Len(log) /\ Len(log) \in Nat
  BY LenProperties
<1>2. FindByKey(log, k) \in SUBSET Nat
  BY <1>1 DEF FindByKey
<1>3. FindByKey(log, k) # {} => Min(FindByKey(log, k)) \in FindByKey(log, k)
  BY <1>2, MinMember
<1>. QED
  BY <1>1, <1>3 DEF FindByKey

(* ---- Type correctness and the lock. ---- *)

\* What a thread has established before each of its steps.
Checked ==
  \A t \in Threads :
    /\ pc[t] \in {"by_key", "status", "record", "locked", "write"} =>
         req[t].key # BlankKey
    /\ pc[t] \in {"status", "record", "locked", "write"} =>
         req[t].resolution \in Resolutions
    /\ pc[t] \in {"record", "locked", "write"} =>
         Legal(seen[t], req[t].new) /\ req[t].complete

LockInv == TypeOK /\ LockedCopyIsCurrent /\ Checked

LEMMA LockInit == Init => LockInv
BY EmptySeq, SentinelAssumption
   DEF Init, LockInv, TypeOK, LockedCopyIsCurrent, Checked, NoStatus, Silent,
       Answer, ReplyKinds

\* The steps of _load() and the answers change neither the lock nor what a
\* thread has established.
LEMMA LockStepLoad ==
  ASSUME LockInv, NEW t \in Threads,
         LoadCheck(t) \/ LoadRead(t) \/ LoadFill(t) \/ LoadedNone(t) \/ ShowView(t)
  PROVE  LockInv'
<1>. USE DEF Goto, Loading, Loaded, Reply, Answer, ReplyKinds, Reading
<1>1. TypeOK'
  <2>1. CASE LoadCheck(t)
    BY <2>1 DEF LoadCheck, LockInv, TypeOK
  <2>2. CASE LoadRead(t)
    BY <2>2 DEF LoadRead, LockInv, TypeOK
  <2>3. CASE LoadFill(t)
    BY <2>3 DEF LoadFill, LockInv, TypeOK
  <2>4. CASE LoadedNone(t)
    BY <2>4 DEF LoadedNone, LockInv, TypeOK
  <2>5. CASE ShowView(t)
    <3>1. Len(cache) \in Nat
      BY <2>5, LenProperties DEF ShowView, LockInv, TypeOK
    <3>. QED
      BY <2>5, <3>1 DEF ShowView, LockInv, TypeOK
  <2>. QED
    BY <2>1, <2>2, <2>3, <2>4, <2>5
<1>2. LockedCopyIsCurrent'
  BY DEF LoadCheck, LoadRead, LoadFill, LoadedNone, ShowView, LockInv,
         LockedCopyIsCurrent, TypeOK
<1>3. Checked'
  BY DEF LoadCheck, LoadRead, LoadFill, LoadedNone, ShowView, LockInv,
         Checked, TypeOK
<1>. QED
  BY <1>1, <1>2, <1>3 DEF LockInv

LEMMA LockStepArrive ==
  ASSUME LockInv, NEW t \in Threads, Decide(t) \/ Look(t)
  PROVE  LockInv'
<1>. USE SentinelAssumption DEF Goto, Reply, Answer, ReplyKinds
<1>1. Len(file) \in Nat
  BY LenProperties DEF LockInv, TypeOK
<1>2. CASE Look(t)
  BY <1>1, <1>2 DEF Look, LockInv, TypeOK, LockedCopyIsCurrent, Checked
<1>3. CASE Decide(t)
  <2>. PICK r \in Requests :
         /\ req' = [req EXCEPT ![t] = r]
         /\ \/ r.key = BlankKey /\ Reply(t, "missing_key", 0)
            \/ r.key # BlankKey /\ Goto(t, "by_key") /\ UNCHANGED reply
    BY <1>3 DEF Decide
  <2>. /\ pc[t] = "idle"
       /\ arrived' = [arrived EXCEPT ![t] = Len(file)]
       /\ UNCHANGED <<file, cache, lock, load, parsed, seen>>
    BY <1>3 DEF Decide
  <2>1. CASE r.key = BlankKey /\ Reply(t, "missing_key", 0)
    BY <1>1, <2>1 DEF LockInv, TypeOK, LockedCopyIsCurrent, Checked
  <2>2. CASE r.key # BlankKey /\ Goto(t, "by_key") /\ UNCHANGED reply
    BY <1>1, <2>2 DEF LockInv, TypeOK, LockedCopyIsCurrent, Checked
  <2>. QED
    BY <2>1, <2>2
<1>. QED
  BY <1>2, <1>3

LEMMA LockStepCheck ==
  ASSUME LockInv, NEW t \in Threads, ByKey(t) \/ Status(t)
  PROVE  LockInv'
<1>. USE DEF Goto, Loading, Loaded, Reply, Answer, ReplyKinds, Reading
<1>1. cache \in Seq(DecisionType) /\ Len(cache) \in Nat
  BY LenProperties DEF ByKey, Status, LockInv, TypeOK
<1>2. CASE ByKey(t)
  <2>. DEFINE hits == FindByKey(cache, req[t].key)
  <2>1. hits # {} => Min(hits) \in Nat
    BY <1>1, KeyHits
  <2>2. UNCHANGED <<file, cache, lock, req, parsed, seen, arrived>>
          /\ pc[t] = "by_key" /\ load' = [load EXCEPT ![t] = "check"]
    BY <1>2 DEF ByKey
  <2>3. \/ \E k \in ReplyKinds, at \in Nat :
             /\ pc' = [pc EXCEPT ![t] = "done"]
             /\ reply' = [reply EXCEPT ![t] = [kind |-> k, at |-> at]]
        \/ /\ req[t].resolution \in Resolutions
           /\ pc' = [pc EXCEPT ![t] = "status"] /\ UNCHANGED reply
    BY <1>2, <2>1 DEF ByKey
  <2>4. TypeOK'
    <3>1. ASSUME NEW k \in ReplyKinds, NEW at \in Nat,
                 pc' = [pc EXCEPT ![t] = "done"],
                 reply' = [reply EXCEPT ![t] = [kind |-> k, at |-> at]]
          PROVE  TypeOK'
      BY <2>2, <3>1 DEF LockInv, TypeOK
    <3>2. CASE pc' = [pc EXCEPT ![t] = "status"] /\ UNCHANGED reply
      BY <2>2, <3>2 DEF LockInv, TypeOK
    <3>. QED
      BY <2>3, <3>1, <3>2
  <2>5. LockedCopyIsCurrent'
    BY <2>2, <2>3 DEF LockInv, TypeOK, LockedCopyIsCurrent
  <2>6. Checked'
    BY <2>2, <2>3 DEF LockInv, TypeOK, Checked
  <2>. QED
    BY <2>4, <2>5, <2>6 DEF LockInv
<1>3. CASE Status(t)
  <2>. DEFINE previous == EffectiveStatus(cache, req[t].resolution)
  <2>2. UNCHANGED <<file, cache, lock, req, parsed, arrived>>
          /\ pc[t] = "status" /\ load' = [load EXCEPT ![t] = "check"]
    BY <1>3 DEF Status
  <2>3. \/ /\ \E k \in ReplyKinds, at \in Nat :
                /\ pc' = [pc EXCEPT ![t] = "done"]
                /\ reply' = [reply EXCEPT ![t] = [kind |-> k, at |-> at]]
           /\ UNCHANGED seen
        \/ /\ Legal(previous, req[t].new) /\ req[t].complete
           /\ pc' = [pc EXCEPT ![t] = "record"]
           /\ seen' = [seen EXCEPT ![t] = previous]
           /\ UNCHANGED reply
    BY <1>1, <1>3 DEF Status
  <2>. HIDE DEF previous
  <2>4. TypeOK'
    <3>1. ASSUME NEW k \in ReplyKinds, NEW at \in Nat, UNCHANGED seen,
                 pc' = [pc EXCEPT ![t] = "done"],
                 reply' = [reply EXCEPT ![t] = [kind |-> k, at |-> at]]
          PROVE  TypeOK'
      BY <2>2, <3>1 DEF LockInv, TypeOK
    <3>2. CASE /\ Legal(previous, req[t].new)
               /\ pc' = [pc EXCEPT ![t] = "record"]
               /\ seen' = [seen EXCEPT ![t] = previous]
               /\ UNCHANGED reply
      BY <2>2, <3>2, LegalStatus DEF LockInv, TypeOK
    <3>. QED
      BY <2>3, <3>1, <3>2
  <2>5. LockedCopyIsCurrent' /\ Checked'
    BY <2>2, <2>3 DEF LockInv, TypeOK, LockedCopyIsCurrent, Checked
  <2>. QED
    BY <2>4, <2>5 DEF LockInv
<1>. QED
  BY <1>2, <1>3

LEMMA LockStepRecord ==
  ASSUME LockInv, NEW t \in Threads,
         RecordLock(t) \/ RecordRead(t) \/ RecordWrite(t) \/ Reload(t)
  PROVE  LockInv'
<1>. USE SentinelAssumption DEF Goto, Reply, Answer, ReplyKinds
<1>1. CASE RecordLock(t)
  BY <1>1 DEF RecordLock, LockInv, TypeOK, LockedCopyIsCurrent, Checked
<1>2. CASE RecordRead(t)
  <2>. DEFINE hits == FindByKey(file, req[t].key)
  <2>1. hits # {} => Min(hits) \in Nat
    BY KeyHits DEF LockInv, TypeOK
  <2>2. /\ UNCHANGED <<file, load, req, seen, arrived>>
        /\ pc[t] = "locked"
    BY <1>2 DEF RecordRead
  <2>3. \/ /\ parsed' = [parsed EXCEPT ![t] = file]
           /\ pc' = [pc EXCEPT ![t] = "write"]
           /\ UNCHANGED <<cache, lock, reply>>
        \/ /\ hits # {}
           /\ cache' = NotLoaded /\ lock' = NoThread
           /\ pc' = [pc EXCEPT ![t] = "done"]
           /\ reply' = [reply EXCEPT ![t] = [kind |-> "existing", at |-> Min(hits)]]
           /\ UNCHANGED parsed
    BY <1>2 DEF RecordRead
  <2>. HIDE DEF hits
  <2>4. TypeOK'
    <3>1. CASE parsed' = [parsed EXCEPT ![t] = file]
                 /\ pc' = [pc EXCEPT ![t] = "write"]
                 /\ UNCHANGED <<cache, lock, reply>>
      BY <2>2, <3>1 DEF LockInv, TypeOK
    <3>2. ASSUME NEW at \in Nat, cache' = NotLoaded, lock' = NoThread,
                 pc' = [pc EXCEPT ![t] = "done"], UNCHANGED parsed,
                 reply' = [reply EXCEPT ![t] = [kind |-> "existing", at |-> at]]
          PROVE  TypeOK'
      BY <2>2, <3>2 DEF LockInv, TypeOK
    <3>. QED
      BY <2>1, <2>3, <3>1, <3>2
  <2>5. LockedCopyIsCurrent'
    BY <2>2, <2>3 DEF LockInv, TypeOK, LockedCopyIsCurrent
  <2>6. Checked'
    BY <2>2, <2>3 DEF LockInv, TypeOK, Checked
  <2>. QED
    BY <2>4, <2>5, <2>6 DEF LockInv
<1>3. CASE RecordWrite(t)
  <2>. DEFINE d == DecisionOf(req[t], seen[t])
  <2>1. d \in DecisionType
    BY <1>3, DecisionOfType, LegalStatus DEF RecordWrite, LockInv, TypeOK, Checked
  <2>. HIDE DEF d
  <2>2. file' \in Seq(DecisionType)
    BY <1>3, <2>1, AppendProperties DEF RecordWrite, LockInv, TypeOK, d
  <2>3. TypeOK'
    BY <1>3, <2>2 DEF RecordWrite, LockInv, TypeOK
  <2>4. LockedCopyIsCurrent'
    BY <1>3 DEF RecordWrite, LockInv, TypeOK, LockedCopyIsCurrent
  <2>5. Checked'
    BY <1>3 DEF RecordWrite, LockInv, TypeOK, Checked
  <2>. QED
    BY <2>3, <2>4, <2>5 DEF LockInv
<1>4. CASE Reload(t)
  <2>1. Len(parsed[t]) + 1 \in Nat
    BY LenProperties DEF LockInv, TypeOK
  <2>. QED
    BY <1>4, <2>1 DEF Reload, LockInv, TypeOK, LockedCopyIsCurrent, Checked
<1>. QED
  BY <1>1, <1>2, <1>3, <1>4

LEMMA LockStepEnd ==
  ASSUME LockInv, (\E t \in Threads : Fails(t) \/ Deliver(t)) \/ Crash
  PROVE  LockInv'
<1>. USE SentinelAssumption, EmptySeq
     DEF Goto, Reply, Loading, Answer, ReplyKinds, Silent, NoStatus, Reading
<1>1. ASSUME NEW t \in Threads, Fails(t)
      PROVE  LockInv'
  <2>1. TypeOK'
    BY <1>1 DEF Fails, LockInv, TypeOK
  <2>2. LockedCopyIsCurrent' /\ Checked'
    BY <1>1 DEF Fails, LockInv, TypeOK, LockedCopyIsCurrent, Checked
  <2>. QED
    BY <2>1, <2>2 DEF LockInv
<1>2. ASSUME NEW t \in Threads, Deliver(t)
      PROVE  LockInv'
  <2>1. TypeOK'
    BY <1>2 DEF Deliver, LockInv, TypeOK
  <2>2. LockedCopyIsCurrent' /\ Checked'
    BY <1>2 DEF Deliver, LockInv, TypeOK, LockedCopyIsCurrent, Checked
  <2>. QED
    BY <2>1, <2>2 DEF LockInv
<1>3. CASE Crash
  BY <1>3 DEF Crash, LockInv, TypeOK, LockedCopyIsCurrent, Checked
<1>. QED
  BY <1>1, <1>2, <1>3

LEMMA LockStep == LockInv /\ [Next]_vars => LockInv'
<1>1. LockInv /\ UNCHANGED vars => LockInv'
  BY DEF vars, LockInv, TypeOK, LockedCopyIsCurrent, Checked
<1>. QED
  BY <1>1, LockStepLoad, LockStepArrive, LockStepCheck, LockStepRecord,
     LockStepEnd DEF Next, Handle, Load

\* WasherDecisions keeps its state well-typed.
THEOREM TypeCorrect == Spec => []TypeOK
<1>1. LockInv => TypeOK
  BY DEF LockInv
<1>. QED
  BY LockInit, LockStep, <1>1, PTL DEF Spec

(* ---- Every step leaves the file alone or appends one decision. ---- *)

LEMMA WriteAppends ==
  ASSUME LockInv, NEW t \in Threads, RecordWrite(t)
  PROVE  /\ file' = Append(file, DecisionOf(req[t], seen[t]))
         /\ DecisionOf(req[t], seen[t]) \in DecisionType
BY DecisionOfType, LegalStatus
   DEF RecordWrite, LockInv, LockedCopyIsCurrent, TypeOK, Checked

LEMMA OnlyWriteAppends ==
  ASSUME [Next]_vars
  PROVE  UNCHANGED file \/ \E t \in Threads : RecordWrite(t)
BY DEF Next, Handle, Load, Decide, Look, LoadCheck, LoadRead, LoadFill,
       LoadedNone, ShowView, ByKey, Status, RecordLock, RecordRead, Reload,
       Fails, Deliver, Crash, vars

FileGrows ==
  UNCHANGED file \/ \E d \in DecisionType : file' = Append(file, d)

LEMMA FileStep ==
  ASSUME LockInv, [Next]_vars
  PROVE  FileGrows
BY OnlyWriteAppends, WriteAppends DEF FileGrows

LEMMA GrowthFacts ==
  ASSUME TypeOK, FileGrows
  PROVE  /\ Len(file) \in Nat /\ Len(file') \in Nat
         /\ Len(file) <= Len(file')
         /\ \A k \in 0 .. Len(file) : SubSeq(file', 1, k) = SubSeq(file, 1, k)
<1>1. CASE UNCHANGED file
  BY <1>1, LenProperties DEF TypeOK
<1>2. ASSUME NEW d \in DecisionType, file' = Append(file, d)
      PROVE  /\ Len(file) \in Nat /\ Len(file') \in Nat
             /\ Len(file) <= Len(file')
             /\ \A k \in 0 .. Len(file) :
                  SubSeq(file', 1, k) = SubSeq(file, 1, k)
  BY <1>2, AppendProperties, LenProperties, PrefixOfAppend DEF TypeOK
<1>. QED
  BY <1>1, <1>2 DEF FileGrows

LEMMA PrefixGrows ==
  ASSUME TypeOK, FileGrows, NEW s \in Seq(DecisionType), Prefix(s, file)
  PROVE  Prefix(s, file')
<1>1. Len(s) \in 0 .. Len(file)
  BY GrowthFacts, LenProperties DEF Prefix
<1>. QED
  BY <1>1, GrowthFacts DEF Prefix

LEMMA PrefixTrivial ==
  ASSUME TypeOK
  PROVE  Prefix(file, file) /\ Prefix(<<>>, file)
<1>1. SubSeq(file, 1, 0) = <<>> /\ Len(<<>>) = 0
  BY EmptySeq, SubSeqEmpty DEF TypeOK
<1>. QED
  BY <1>1, SubSeqFull, LenProperties DEF Prefix, TypeOK

(* ---- The cache. ---- *)

LEMMA CacheInit == Init => CacheIsPrefix
<1>1. Init => TypeOK
  BY LockInit DEF LockInv
<1>. QED
  BY <1>1, PrefixTrivial DEF Init, CacheIsPrefix

LEMMA CacheStep == LockInv /\ CacheIsPrefix /\ [Next]_vars => CacheIsPrefix'
<1>. SUFFICES ASSUME LockInv, CacheIsPrefix, [Next]_vars
              PROVE  CacheIsPrefix'
  OBVIOUS
<1>. TypeOK /\ FileGrows
  BY FileStep DEF LockInv
<1>1. cache' \in {cache, NotLoaded} \/ \E t \in Threads : cache' = parsed[t]
  BY DEF Next, Handle, Load, Decide, Look, LoadCheck, LoadRead, LoadFill,
         LoadedNone, ShowView, ByKey, Status, RecordLock, RecordRead,
         RecordWrite, Reload, Fails, Deliver, Crash, vars
<1>2. \A t \in Threads : parsed'[t] \in {parsed[t], file, <<>>}
  BY DEF Next, Handle, Load, Decide, Look, LoadCheck, LoadRead, LoadFill,
         LoadedNone, ShowView, ByKey, Status, RecordLock, RecordRead,
         RecordWrite, Reload, Fails, Deliver, Crash, vars, TypeOK
<1>3. cache' # NotLoaded => Prefix(cache', file')
  <2>1. CASE cache' = cache
    BY <2>1, PrefixGrows DEF CacheIsPrefix, TypeOK
  <2>2. ASSUME NEW t \in Threads, cache' = parsed[t]
        PROVE  Prefix(cache', file')
    BY <2>2, PrefixGrows DEF CacheIsPrefix, TypeOK
  <2>. QED
    BY <1>1, <2>1, <2>2
<1>4. ASSUME NEW t \in Threads
      PROVE  Prefix(parsed'[t], file')
  BY <1>2, PrefixGrows, PrefixTrivial, EmptySeq DEF CacheIsPrefix, TypeOK
<1>. QED
  BY <1>3, <1>4 DEF CacheIsPrefix

\* The cache lags behind the file at most; it never shows anything else.
THEOREM CacheNeverInvents == Spec => []CacheIsPrefix
BY LockInit, LockStep, CacheInit, CacheStep, PTL DEF Spec

(* ---- Keys and previous statuses. ---- *)

\* A validated status was the effective one at some prefix of the file.
StatusWasSeen(t) ==
  \E k \in 0 .. Len(file) :
    seen[t] = EffectiveStatus(SubSeq(file, 1, k), req[t].resolution)

Recording(t) == pc[t] \in {"record", "locked", "write"}

FileInv ==
  /\ UniqueKeys
  /\ HonestPrevious
  /\ \A t \in Threads : Recording(t) => StatusWasSeen(t)
  /\ \A t \in Threads : pc[t] = "write" => FindByKey(file, req[t].key) = {}

LEMMA FileInit == Init => FileInv
BY DEF Init, FileInv, UniqueKeys, HonestPrevious, Recording

LEMMA StatusStable ==
  ASSUME TypeOK, FileGrows, NEW t \in Threads, StatusWasSeen(t),
         UNCHANGED <<seen[t], req[t]>>
  PROVE  StatusWasSeen(t)'
<1>. PICK k \in 0 .. Len(file) :
       seen[t] = EffectiveStatus(SubSeq(file, 1, k), req[t].resolution)
  BY DEF StatusWasSeen
<1>1. k \in 0 .. Len(file') /\ SubSeq(file', 1, k) = SubSeq(file, 1, k)
  BY GrowthFacts
<1>. QED
  BY <1>1 DEF StatusWasSeen

\* The status read from the cache was the file's at the cache's length.
LEMMA StatusFromCache ==
  ASSUME LockInv, CacheIsPrefix, NEW t \in Threads, Status(t), Recording(t)'
  PROVE  StatusWasSeen(t)'
<1>1. /\ seen'[t] = EffectiveStatus(cache, req[t].resolution)
      /\ UNCHANGED <<file, req>>
      /\ cache # NotLoaded
  BY DEF Status, Recording, Reply, Goto, LockInv, TypeOK, Loaded
<1>2. Prefix(cache, file) /\ Len(cache) \in Nat
  BY <1>1, LenProperties DEF CacheIsPrefix, LockInv, TypeOK
<1>3. Len(cache) \in 0 .. Len(file) /\ SubSeq(file, 1, Len(cache)) = cache
  BY <1>2, LenProperties DEF Prefix, LockInv, TypeOK
<1>. QED
  BY <1>1, <1>3 DEF StatusWasSeen

LEMMA ThreadsKeepStatus ==
  ASSUME LockInv, CacheIsPrefix, FileInv, [Next]_vars, NEW s \in Threads,
         Recording(s)'
  PROVE  StatusWasSeen(s)'
<1>. TypeOK /\ FileGrows
  BY FileStep DEF LockInv
<1>1. CASE Status(s)
  BY <1>1, StatusFromCache
<1>2. ASSUME ~Status(s)
      PROVE  Recording(s) /\ UNCHANGED <<seen[s], req[s]>>
  <2>1. CASE UNCHANGED vars
    BY <2>1 DEF vars, Recording
  <2>2. CASE Crash
    BY <2>2 DEF Crash, Recording
  <2>3. ASSUME NEW t \in Threads, t # s, Decide(t) \/ Look(t) \/ Handle(t)
        PROVE  Recording(s) /\ UNCHANGED <<seen[s], req[s]>>
    BY <2>3 DEF Handle, Load, Decide, Look, LoadCheck, LoadRead, LoadFill,
       LoadedNone, ShowView, ByKey, Status, RecordLock, RecordRead,
       RecordWrite, Reload, Fails, Deliver, Recording, TypeOK, Goto, Reply, Loaded
  <2>4. CASE Decide(s) \/ Look(s) \/ ByKey(s) \/ LoadedNone(s) \/ ShowView(s)
               \/ Deliver(s) \/ Fails(s) \/ Reload(s)
    BY <2>4 DEF Decide, Look, ByKey, LoadedNone, ShowView, Deliver, Fails,
       Reload, Recording, TypeOK, Goto, Reply, Loaded
  <2>5. CASE LoadCheck(s) \/ LoadRead(s) \/ LoadFill(s) \/ RecordLock(s)
               \/ RecordRead(s) \/ RecordWrite(s)
    BY <2>5 DEF LoadCheck, LoadRead, LoadFill, RecordLock, RecordRead,
       RecordWrite, Recording, TypeOK, Goto, Reply
  <2>. QED
    BY <1>2, <2>1, <2>2, <2>3, <2>4, <2>5 DEF Next, Handle, Load
<1>. QED
  BY <1>1, <1>2, StatusStable DEF FileInv

LEMMA KeyStaysUnused ==
  ASSUME LockInv, FileInv, [Next]_vars, NEW s \in Threads, pc'[s] = "write"
  PROVE  FindByKey(file', req'[s].key) = {}
<1>. TypeOK
  BY DEF LockInv
<1>1. CASE RecordRead(s)
  BY <1>1 DEF RecordRead, Reply, Goto, TypeOK
<1>2. ASSUME ~RecordRead(s)
      PROVE  pc[s] = "write" /\ UNCHANGED <<file, req[s]>>
  <2>1. CASE UNCHANGED vars
    BY <2>1 DEF vars
  <2>2. CASE Crash
    BY <2>2 DEF Crash
  <2>3. ASSUME NEW t \in Threads, t # s, Decide(t) \/ Look(t) \/ Handle(t)
        PROVE  pc[s] = "write" /\ UNCHANGED <<file, req[s]>>
    <3>1. pc[s] = "write" /\ UNCHANGED req[s]
      BY <2>3 DEF Handle, Load, Decide, Look, LoadCheck, LoadRead, LoadFill,
         LoadedNone, ShowView, ByKey, Status, RecordLock, RecordRead,
         RecordWrite, Reload, Fails, Deliver, TypeOK, Goto, Reply, Loaded
    <3>2. ~RecordWrite(t)
      BY <2>3, <3>1 DEF LockInv, LockedCopyIsCurrent, RecordWrite
    <3>. QED
      BY <2>3, <3>1, <3>2 DEF Handle, Load, Decide, Look, LoadCheck, LoadRead,
         LoadFill, LoadedNone, ShowView, ByKey, Status, RecordLock, RecordRead,
         Reload, Fails, Deliver
  <2>4. ASSUME Decide(s) \/ Look(s) \/ (Handle(s) /\ ~RecordRead(s))
        PROVE  FALSE
    BY <2>4 DEF Handle, Load, Decide, Look, LoadCheck, LoadRead, LoadFill,
       LoadedNone, ShowView, ByKey, Status, RecordLock, RecordWrite, Reload,
       Fails, Deliver, TypeOK, Goto, Reply, Loaded, Reading
  <2>. QED
    BY <1>2, <2>1, <2>2, <2>3, <2>4 DEF Next
<1>. QED
  BY <1>1, <1>2 DEF FileInv

LEMMA AppendKeeps ==
  ASSUME LockInv, FileInv, NEW t \in Threads, RecordWrite(t)
  PROVE  UniqueKeys' /\ HonestPrevious'
<1>. DEFINE d == DecisionOf(req[t], seen[t])
            n == Len(file)
<1>1. /\ n \in Nat
      /\ DOMAIN file = 1 .. n
      /\ DOMAIN file' = 1 .. (n + 1)
      /\ \A i \in 1 .. n : file'[i] = file[i]
      /\ file'[n + 1] = d
  <2>1. /\ file \in Seq(DecisionType)
        /\ file' = Append(file, d)
        /\ d \in DecisionType
    BY WriteAppends DEF LockInv, TypeOK
  <2>2. file' \in Seq(DecisionType) /\ Len(file') = n + 1
    BY <2>1, AppendProperties
  <2>. HIDE DEF d
  <2>3. /\ \A i \in 1 .. n : file'[i] = file[i]
        /\ file'[n + 1] = d
    BY <2>1, AppendProperties
  <2>. QED
    BY <2>1, <2>2, <2>3, LenProperties
<1>2. \A k \in 0 .. n : SubSeq(file', 1, k) = SubSeq(file, 1, k)
  BY WriteAppends, GrowthFacts DEF FileGrows, LockInv
<1>3. /\ d.key = req[t].key /\ d.resolution = req[t].resolution
      /\ d.previous = seen[t] /\ d.new = req[t].new
  BY DEF DecisionOf
<1>4. /\ FindByKey(file, req[t].key) = {}
      /\ Legal(seen[t], req[t].new)
      /\ StatusWasSeen(t)
  BY DEF RecordWrite, FileInv, Recording, LockInv, Checked
<1>. HIDE DEF d, n
<1>5. UniqueKeys'
  <2>1. \A i \in 1 .. n : file[i].key # req[t].key
    BY <1>1, <1>4 DEF FindByKey
  <2>. SUFFICES ASSUME NEW i \in 1 .. (n + 1), NEW j \in 1 .. (n + 1),
                       file'[i].key = file'[j].key
                PROVE  i = j
    BY <1>1 DEF UniqueKeys
  <2>2. CASE i \in 1 .. n /\ j \in 1 .. n
    BY <1>1, <2>2 DEF FileInv, UniqueKeys
  <2>3. CASE i = n + 1 /\ j = n + 1
    BY <2>3
  <2>4. CASE (i \in 1 .. n /\ j = n + 1) \/ (i = n + 1 /\ j \in 1 .. n)
    BY <1>1, <1>3, <2>1, <2>4
  <2>. QED
    BY <1>1, <2>2, <2>3, <2>4
<1>6. HonestPrevious'
  <2>. DEFINE Honest(j, f, log) ==
         /\ Legal(f.previous, f.new)
         /\ \E k \in 0 .. (j - 1) :
              f.previous = EffectiveStatus(SubSeq(log, 1, k), f.resolution)
  <2>. SUFFICES ASSUME NEW j \in 1 .. (n + 1)
                PROVE  Honest(j, file'[j], file')
    BY <1>1 DEF HonestPrevious
  <2>1. CASE j \in 1 .. n
    <3>1. Honest(j, file[j], file)
      BY <1>1, <2>1 DEF FileInv, HonestPrevious
    <3>2. \A k \in 0 .. (j - 1) : k \in 0 .. n
      BY <1>1, <2>1
    <3>. QED
      BY <1>1, <1>2, <2>1, <3>1, <3>2
  <2>2. CASE j = n + 1
    <3>. PICK k \in 0 .. n :
           seen[t] = EffectiveStatus(SubSeq(file, 1, k), req[t].resolution)
      BY <1>4 DEF StatusWasSeen, n
    <3>1. k \in 0 .. (j - 1) /\ SubSeq(file', 1, k) = SubSeq(file, 1, k)
      BY <1>1, <1>2, <2>2
    <3>. QED
      BY <1>1, <1>3, <1>4, <2>2, <3>1
  <2>. QED
    BY <1>1, <2>1, <2>2
<1>. QED
  BY <1>5, <1>6

LEMMA FileInvStep ==
  LockInv /\ CacheIsPrefix /\ FileInv /\ [Next]_vars => FileInv'
<1>. SUFFICES ASSUME LockInv, CacheIsPrefix, FileInv, [Next]_vars
              PROVE  FileInv'
  OBVIOUS
<1>1. UniqueKeys' /\ HonestPrevious'
  <2>1. CASE UNCHANGED file
    BY <2>1 DEF FileInv, UniqueKeys, HonestPrevious
  <2>. QED
    BY <2>1, AppendKeeps, OnlyWriteAppends
<1>. QED
  BY <1>1, ThreadsKeepStatus, KeyStaysUnused DEF FileInv, Recording

(* ---- The theorems. ---- *)

IInv == LockInv /\ CacheIsPrefix /\ FileInv

LEMMA IInvInit == Init => IInv
BY LockInit, CacheInit, FileInit DEF IInv

LEMMA IInvStep == IInv /\ [Next]_vars => IInv'
BY LockStep, CacheStep, FileInvStep DEF IInv

\* One decision per idempotency key, stale caches and restarts included.
THEOREM KeysAreUnique == Spec => []UniqueKeys
<1>1. IInv => UniqueKeys
  BY DEF IInv, FileInv
<1>. QED
  BY IInvInit, IInvStep, <1>1, PTL DEF Spec

\* Every decision left a status its resolution once had, along the table.
THEOREM PreviousStatusIsHonest == Spec => []HonestPrevious
<1>1. IInv => HonestPrevious
  BY DEF IInv, FileInv
<1>. QED
  BY IInvInit, IInvStep, <1>1, PTL DEF Spec

(* ---- Refinement: what callers may rely on is WasherLedger. ---- *)

\* The ledger reads its log with the same functions.
LEMMA LedgerOperators ==
  /\ \A l, r : Ledger!EffectiveStatus(l, r) = EffectiveStatus(l, r)
  /\ \A l, k : Ledger!FindByKey(l, k) = FindByKey(l, k)
  /\ \A p, n : Ledger!Legal(p, n) = Legal(p, n)
  /\ \A r, p : Ledger!DecisionOf(r, p) = DecisionOf(r, p)
<1>1. \A l, r : Ledger!EffectiveStatus(l, r) = EffectiveStatus(l, r)
  BY DEF EffectiveStatus, Ledger!EffectiveStatus, History, Ledger!History,
         Max, Ledger!Max
<1>2. \A l, k : Ledger!FindByKey(l, k) = FindByKey(l, k)
  BY DEF FindByKey, Ledger!FindByKey
<1>3. \A p, n : Ledger!Legal(p, n) = Legal(p, n)
  BY DEF Legal, Ledger!Legal, AllowedTransitions, Ledger!AllowedTransitions,
         Active, Ledger!Active, Statuses, Ledger!Statuses
<1>4. \A r, p : Ledger!DecisionOf(r, p) = DecisionOf(r, p)
  BY DEF DecisionOf, Ledger!DecisionOf
<1>. QED
  BY <1>1, <1>2, <1>3, <1>4

\* Every behaviour of the workflow is one of the ledger: reads, cache, lock,
\* failures and restarts stutter, and the one write is a Record.
THEOREM ImplementsWasherLedger == Spec => ImplementsLedger
<1>1. Init => Ledger!Init
  BY DEF Init, Ledger!Init
<1>2. IInv /\ [Next]_vars => [Ledger!Next]_file
  <2>. SUFFICES ASSUME IInv, [Next]_vars
                PROVE  UNCHANGED file \/ Ledger!Next
    OBVIOUS
  <2>1. ASSUME NEW t \in Threads, RecordWrite(t)
        PROVE  Ledger!Record(req[t])
    <3>1. /\ req[t].key # BlankKey
          /\ FindByKey(file, req[t].key) = {}
          /\ req[t].resolution \in Resolutions
          /\ req[t].complete
          /\ Legal(seen[t], req[t].new)
      BY <2>1 DEF RecordWrite, IInv, LockInv, Checked, FileInv
    <3>2. PICK k \in 0 .. Len(file) :
            seen[t] = EffectiveStatus(SubSeq(file, 1, k), req[t].resolution)
      BY <2>1 DEF RecordWrite, IInv, FileInv, Recording, StatusWasSeen
    <3>3. file' = Append(file, DecisionOf(req[t], seen[t]))
      BY <2>1, WriteAppends DEF IInv
    <3>. QED
      BY <3>1, <3>2, <3>3, LedgerOperators DEF Ledger!Record, Ledger!StatusAt
  <2>2. ASSUME NEW t \in Threads, RecordWrite(t)
        PROVE  req[t] \in Requests
    BY <2>2 DEF RecordWrite, IInv, LockInv, TypeOK
  <2>. QED
    BY <2>1, <2>2, OnlyWriteAppends DEF Ledger!Next
<1>. QED
  BY IInvInit, IInvStep, <1>1, <1>2, PTL
     DEF Spec, ImplementsLedger, Ledger!Spec

(* ---- The answers. ---- *)

Locals(t) == <<req[t], seen[t], arrived[t], reply[t]>>

ArrivedBefore == \A t \in Threads : arrived[t] <= Len(file)

\* Where the decision is that a thread has just written.
Written(t) ==
  /\ Len(parsed[t]) + 1 \in DOMAIN file
  /\ arrived[t] < Len(parsed[t]) + 1
  /\ file[Len(parsed[t]) + 1] = DecisionOf(req[t], seen[t])

WrittenPlace == \A t \in Threads : pc[t] = "reload" => Written(t)

AnswersInv == ArrivedBefore /\ WrittenPlace /\ AnswersJustified

LEMMA AnswersInit == Init => AnswersInv
BY EmptySeq DEF Init, AnswersInv, ArrivedBefore, WrittenPlace, AnswersJustified

\* A position of the file keeps its decision.
LEMMA PositionsStay ==
  ASSUME TypeOK, FileGrows
  PROVE  /\ DOMAIN file = 1 .. Len(file) /\ DOMAIN file' = 1 .. Len(file')
         /\ \A i \in DOMAIN file : i \in DOMAIN file' /\ file'[i] = file[i]
<1>1. CASE UNCHANGED file
  BY <1>1, LenProperties DEF TypeOK
<1>2. ASSUME NEW d \in DecisionType, file' = Append(file, d)
      PROVE  /\ DOMAIN file = 1 .. Len(file) /\ DOMAIN file' = 1 .. Len(file')
             /\ \A i \in DOMAIN file : i \in DOMAIN file' /\ file'[i] = file[i]
  <2>1. file \in Seq(DecisionType) /\ file' \in Seq(DecisionType)
    BY <1>2, AppendProperties DEF TypeOK
  <2>2. Len(file') = Len(file) + 1 /\ \A i \in 1 .. Len(file) : file'[i] = file[i]
    BY <1>2, AppendProperties DEF TypeOK
  <2>. QED
    BY <2>1, <2>2, LenProperties
<1>. QED
  BY <1>1, <1>2 DEF FileGrows

LEMMA AnswerIsStable ==
  ASSUME TypeOK, FileGrows, NEW t \in Threads, UNCHANGED Locals(t),
         AnswerJustified(t)
  PROVE  AnswerJustified(t)'
<1>. DEFINE at == reply[t].at
            kind == reply[t].kind
<1>1. /\ reply'[t] = reply[t] /\ req'[t] = req[t] /\ seen'[t] = seen[t]
      /\ arrived'[t] = arrived[t]
  BY DEF Locals
<1>2. CASE kind \in {"created", "existing", "idempotency_conflict"}
  <2>1. at \in DOMAIN file
    BY <1>2 DEF AnswerJustified
  <2>2. at \in DOMAIN file' /\ file'[at] = file[at]
    BY <2>1, PositionsStay
  <2>. QED
    BY <1>1, <1>2, <2>2 DEF AnswerJustified
<1>3. CASE kind \in {"view", "blocked", "invalid_transition", "missing_evidence"}
  <2>1. at \in 0 .. Len(file)
    BY <1>3 DEF AnswerJustified
  <2>2. at \in 0 .. Len(file') /\ SubSeq(file', 1, at) = SubSeq(file, 1, at)
    BY <2>1, GrowthFacts
  <2>3. /\ kind = "blocked" =>
             EffectiveStatus(SubSeq(file, 1, at), req[t].resolution)
               = "blocked_authoritative_source"
        /\ kind = "invalid_transition" =>
             ~Legal(EffectiveStatus(SubSeq(file, 1, at), req[t].resolution),
                    req[t].new)
    BY <1>3 DEF AnswerJustified
  <2>. QED
    BY <1>1, <1>3, <2>2, <2>3 DEF AnswerJustified
<1>4. CASE kind \notin {"created", "existing", "idempotency_conflict", "view",
                       "blocked", "invalid_transition", "missing_evidence"}
  BY <1>1, <1>4 DEF AnswerJustified
<1>. QED
  BY <1>2, <1>3, <1>4

\* What a lookup through the cache found is at the same place of the file.
LEMMA CacheHits ==
  ASSUME TypeOK, CacheIsPrefix, cache # NotLoaded
  PROVE  /\ cache \in Seq(DecisionType)
         /\ Len(cache) \in 0 .. Len(file)
         /\ SubSeq(file, 1, Len(cache)) = cache
         /\ \A i \in 1 .. Len(cache) : i \in DOMAIN file /\ file[i] = cache[i]
<1>1. cache \in Seq(DecisionType) /\ Prefix(cache, file)
  BY DEF TypeOK, CacheIsPrefix
<1>2. Len(cache) \in Nat /\ Len(file) \in Nat /\ DOMAIN file = 1 .. Len(file)
  BY <1>1, LenProperties DEF TypeOK
<1>3. Len(cache) \in 0 .. Len(file) /\ SubSeq(file, 1, Len(cache)) = cache
  BY <1>1, <1>2 DEF Prefix
<1>4. \A i \in 1 .. Len(cache) : SubSeq(file, 1, Len(cache))[i] = file[i]
  BY <1>3, PrefixElements DEF TypeOK
<1>5. \A i \in 1 .. Len(cache) : file[i] = cache[i]
  <2>. DEFINE known == SubSeq(file, 1, Len(cache))
  <2>1. known = cache
    BY <1>3
  <2>2. \A i \in 1 .. Len(cache) : known[i] = file[i]
    BY <1>4
  <2>. HIDE DEF known
  <2>. QED
    BY <2>1, <2>2
<1>6. \A i \in 1 .. Len(cache) : i \in DOMAIN file
  BY <1>2, <1>3
<1>. QED
  BY <1>1, <1>3, <1>5, <1>6

\* A thread never arrived later than now, and a thread that has written
\* still finds its decision where it put it.
LEMMA PlacesStep ==
  ASSUME LockInv, ArrivedBefore, WrittenPlace, [Next]_vars
  PROVE  ArrivedBefore' /\ WrittenPlace'
<1>. TypeOK /\ FileGrows
  BY FileStep DEF LockInv
<1>0. Len(file) \in Nat /\ Len(file') \in Nat /\ Len(file) <= Len(file')
  BY GrowthFacts
<1>1. \A t \in Threads : arrived'[t] \in {arrived[t], Len(file), 0}
  BY DEF Next, Handle, Load, Decide, Look, LoadCheck, LoadRead, LoadFill,
         LoadedNone, ShowView, ByKey, Status, RecordLock, RecordRead,
         RecordWrite, Reload, Fails, Deliver, Crash, vars, TypeOK
<1>2. ArrivedBefore'
  <2>. SUFFICES ASSUME NEW t \in Threads
                PROVE  arrived'[t] <= Len(file')
    BY DEF ArrivedBefore
  <2>1. arrived[t] \in Nat /\ arrived[t] <= Len(file)
    BY DEF TypeOK, ArrivedBefore
  <2>. QED
    BY <1>0, <1>1, <2>1
<1>3. WrittenPlace'
  <2>. SUFFICES ASSUME NEW s \in Threads, pc'[s] = "reload"
                PROVE  Written(s)'
    BY DEF WrittenPlace
  <2>1. CASE RecordWrite(s)
    <3>1. /\ parsed'[s] = file /\ req'[s] = req[s] /\ seen'[s] = seen[s]
          /\ arrived'[s] = arrived[s]
      BY <2>1 DEF RecordWrite, LockInv, LockedCopyIsCurrent
    <3>2. /\ Len(file') = Len(file) + 1
          /\ DOMAIN file' = 1 .. Len(file')
          /\ file'[Len(file) + 1] = DecisionOf(req[s], seen[s])
      BY <2>1, WriteAppends, AppendProperties, LenProperties DEF TypeOK
    <3>3. arrived[s] \in Nat /\ arrived[s] <= Len(file)
      BY DEF TypeOK, ArrivedBefore
    <3>. QED
      BY <1>0, <3>1, <3>2, <3>3 DEF Written
  <2>2. CASE pc[s] = "reload" /\ UNCHANGED <<parsed[s], req[s], seen[s], arrived[s]>>
    <3>1. Written(s)
      BY <2>2 DEF WrittenPlace
    <3>2. /\ Len(parsed[s]) + 1 \in DOMAIN file'
          /\ file'[Len(parsed[s]) + 1] = file[Len(parsed[s]) + 1]
      BY <3>1, PositionsStay DEF Written
    <3>3. /\ parsed'[s] = parsed[s] /\ req'[s] = req[s] /\ seen'[s] = seen[s]
          /\ arrived'[s] = arrived[s]
      BY <2>2
    <3>. QED
      BY <3>1, <3>2, <3>3 DEF Written
  <2>3. CASE Crash \/ UNCHANGED vars
    BY <2>2, <2>3 DEF Crash, vars
  <2>4. CASE \/ Decide(s) \/ Look(s) \/ (Handle(s) /\ ~RecordWrite(s))
    BY <2>4 DEF Handle, Load, Decide, Look, LoadCheck, LoadRead, LoadFill,
         LoadedNone, ShowView, ByKey, Status, RecordLock, RecordRead,
         Reload, Fails, Deliver, TypeOK, Goto, Reply, Loaded, Reading
  <2>5. ASSUME NEW t \in Threads, t # s, Decide(t) \/ Look(t) \/ Handle(t)
        PROVE  pc[s] = "reload" /\ UNCHANGED <<parsed[s], req[s], seen[s], arrived[s]>>
    BY <2>5 DEF Handle, Load, Decide, Look, LoadCheck, LoadRead, LoadFill,
         LoadedNone, ShowView, ByKey, Status, RecordLock, RecordRead,
         RecordWrite, Reload, Fails, Deliver, TypeOK, Goto, Reply
  <2>. QED
    BY <2>1, <2>2, <2>3, <2>4, <2>5 DEF Next
<1>. QED
  BY <1>2, <1>3

LEMMA AnswersStep ==
  LockInv /\ CacheIsPrefix /\ AnswersInv /\ [Next]_vars => AnswersJustified'
<1>. SUFFICES ASSUME LockInv, CacheIsPrefix, AnswersInv, [Next]_vars,
                     NEW s \in Threads, pc'[s] = "done"
              PROVE  AnswerJustified(s)'
  BY DEF AnswersJustified
<1>. TypeOK /\ FileGrows
  BY FileStep DEF LockInv
<1>. Len(file) \in Nat /\ DOMAIN file = 1 .. Len(file)
  BY LenProperties DEF TypeOK
<1>. USE DEF Goto, Reply, Answer, Loaded, Loading, Reading
<1>0. CASE UNCHANGED <<pc[s], Locals(s)>>
  BY <1>0, AnswerIsStable DEF AnswersInv, AnswersJustified
<1>1. CASE Decide(s) \/ LoadedNone(s) \/ Fails(s)
  <2>1. reply'[s].kind \in {"missing_key", "error"}
    BY <1>1 DEF Decide, LoadedNone, Fails, TypeOK
  <2>. QED
    BY <2>1 DEF AnswerJustified
<1>2. CASE ShowView(s)
  <2>1. /\ reply'[s].kind = "view" /\ reply'[s].at = Len(cache)
        /\ cache # NotLoaded /\ UNCHANGED file
    BY <1>2 DEF ShowView, TypeOK
  <2>2. Len(cache) \in 0 .. Len(file)
    BY <2>1, CacheHits
  <2>. QED
    BY <2>1, <2>2 DEF AnswerJustified
<1>3. CASE ByKey(s)
  <2>. DEFINE hits == FindByKey(cache, req[s].key)
  <2>. /\ cache # NotLoaded /\ UNCHANGED <<file, req>>
       /\ cache \in Seq(DecisionType)
    BY <1>3 DEF ByKey, TypeOK
  <2>1. \/ reply'[s].kind = "not_found"
        \/ /\ hits # {}
           /\ reply'[s].at = Min(hits)
           /\ reply'[s].kind = IF SameRequest(cache[Min(hits)], req[s])
                                 THEN "existing" ELSE "idempotency_conflict"
    BY <1>3 DEF ByKey, TypeOK
  <2>2. CASE hits # {}
    <3>1. Min(hits) \in 1 .. Len(cache) /\ cache[Min(hits)].key = req[s].key
      BY <2>2, KeyHits
    <3>2. Min(hits) \in DOMAIN file /\ file[Min(hits)] = cache[Min(hits)]
      BY <3>1, CacheHits
    <3>. QED
      BY <2>1, <3>1, <3>2 DEF AnswerJustified
  <2>. QED
    BY <2>1, <2>2 DEF AnswerJustified
<1>4. CASE Status(s)
  <2>. DEFINE previous == EffectiveStatus(cache, req[s].resolution)
  <2>1. /\ cache # NotLoaded /\ UNCHANGED <<file, req>>
        /\ reply'[s].at = Len(cache)
        /\ \/ reply'[s].kind = "missing_evidence"
           \/ /\ reply'[s].kind = "blocked"
              /\ previous = "blocked_authoritative_source"
           \/ /\ reply'[s].kind = "invalid_transition"
              /\ ~Legal(previous, req[s].new)
    BY <1>4 DEF Status, TypeOK
  <2>2. Len(cache) \in 0 .. Len(file) /\ SubSeq(file, 1, Len(cache)) = cache
    BY <2>1, CacheHits
  <2>. HIDE DEF previous
  <2>3. EffectiveStatus(SubSeq(file, 1, Len(cache)), req[s].resolution) = previous
    BY <2>2 DEF previous
  <2>. QED
    BY <2>1, <2>2, <2>3 DEF AnswerJustified
<1>5. CASE RecordRead(s)
  <2>. DEFINE hits == FindByKey(file, req[s].key)
  <2>1. /\ hits # {}
        /\ reply'[s].kind = "existing" /\ reply'[s].at = Min(hits)
        /\ UNCHANGED <<file, req>>
    BY <1>5 DEF RecordRead, TypeOK
  <2>2. Min(hits) \in 1 .. Len(file) /\ file[Min(hits)].key = req[s].key
    BY <2>1, KeyHits DEF TypeOK
  <2>. QED
    BY <2>1, <2>2 DEF AnswerJustified
<1>6. CASE Reload(s)
  <2>1. /\ reply'[s].kind = "created" /\ reply'[s].at = Len(parsed[s]) + 1
        /\ UNCHANGED <<file, req, seen, arrived>>
    BY <1>6 DEF Reload, TypeOK
  <2>2. Written(s)
    BY <1>6 DEF Reload, AnswersInv, WrittenPlace
  <2>3. DecisionOf(req[s], seen[s]).key = req[s].key
    BY DEF DecisionOf
  <2>. QED
    BY <2>1, <2>2, <2>3 DEF AnswerJustified, Written
<1>7. CASE \/ Look(s) \/ LoadCheck(s) \/ LoadRead(s) \/ LoadFill(s)
           \/ RecordLock(s) \/ RecordWrite(s) \/ Deliver(s) \/ Crash
  BY <1>7 DEF Look, LoadCheck, LoadRead, LoadFill, RecordLock, RecordWrite,
              Deliver, Crash, TypeOK
<1>8. ASSUME NEW t \in Threads, t # s, Decide(t) \/ Look(t) \/ Handle(t)
      PROVE  UNCHANGED <<pc[s], Locals(s)>>
  BY <1>8 DEF Handle, Load, Decide, Look, LoadCheck, LoadRead, LoadFill,
       LoadedNone, ShowView, ByKey, Status, RecordLock, RecordRead,
       RecordWrite, Reload, Fails, Deliver, Locals, TypeOK
<1>9. CASE UNCHANGED vars
  BY <1>0, <1>9 DEF vars, Locals
<1>. QED
  BY <1>0, <1>1, <1>2, <1>3, <1>4, <1>5, <1>6, <1>7, <1>8, <1>9
     DEF Next, Handle, Load

\* Every answer is justified by the file, also when it comes from a stale
\* cache.
THEOREM AnswersAreTrue == Spec => []AnswersJustified
<1>1. Init => LockInv /\ CacheIsPrefix /\ AnswersInv
  BY LockInit, CacheInit, AnswersInit
<1>2. LockInv /\ CacheIsPrefix /\ AnswersInv /\ [Next]_vars
        => (LockInv /\ CacheIsPrefix /\ AnswersInv)'
  BY LockStep, CacheStep, PlacesStep, AnswersStep DEF AnswersInv
<1>3. AnswersInv => AnswersJustified
  BY DEF AnswersInv
<1>. QED
  BY <1>1, <1>2, <1>3, PTL DEF Spec
===============================================================================
