------------------------- MODULE WasherClosure_proofs -------------------------
(***************************************************************************)
(* Safety of evidence and controlled closure for any number of threads,    *)
(* any requests and any source ledger.  Each file is protected by its own  *)
(* lock and the caches by nothing, so the inductive invariant says of a    *)
(* cache, a parsed list and whatever a close request has found out only    *)
(* that they come from a prefix of a file.                                 *)
(***************************************************************************)
EXTENDS WasherClosure, LogLemmas

(* ---- Lemmas about the operators the model is built from. ---- *)

\* The newest decision is a decision of the resolution, at a place of the log.
LEMMA NewestIsDecision ==
  ASSUME NEW T, NEW log \in Seq(T), NEW r
  PROVE  /\ NewestDecision(log, r) \in Nat
         /\ NewestDecision(log, r) # 0 =>
              NewestDecision(log, r) \in History(log, r)
<1>1. Len(log) \in Nat /\ DOMAIN log = 1 .. Len(log)
  BY LenProperties
<1>2. /\ History(log, r) \in SUBSET (1 .. Len(log))
      /\ History(log, r) \in SUBSET (0 .. Len(log))
  BY <1>1 DEF History
<1>3. History(log, r) # {} => Max(History(log, r)) \in History(log, r)
  BY <1>1, <1>2, MaxMember
<1>. QED
  BY <1>2, <1>3 DEF NewestDecision

LEMMA PlacesAreNatural ==
  ASSUME NEW T, NEW log \in Seq(T), NEW r
  PROVE  /\ OfResolution(log, r) \in SUBSET Nat
         /\ Verified(log, r) \in SUBSET Nat
BY LenProperties DEF OfResolution, Verified

LEMMA FileOfStore ==
  /\ File["decisions"] = decisions
  /\ File["evidence"] = evidence
  /\ File["closures"] = closures
  /\ Lists["decisions"] = Seq(DecisionType)
  /\ Lists["evidence"] = Seq(Evidence)
  /\ Lists["closures"] = Seq(ClosureType)
BY DEF File, Lists

LEMMA ReadingSet ==
  Reading = {"look_decisions", "look_evidence", "look_closures", "precheck",
             "status", "history", "records", "existing"}
BY DEF Reading, StoreAt

LEMMA StoreOfRead ==
  /\ StoreAt["look_decisions"] = "decisions"
  /\ StoreAt["look_evidence"] = "evidence"
  /\ StoreAt["look_closures"] = "closures"
  /\ StoreAt["precheck"] = "closures"
  /\ StoreAt["status"] = "decisions"
  /\ StoreAt["history"] = "decisions"
  /\ StoreAt["records"] = "evidence"
  /\ StoreAt["existing"] = "closures"
  /\ \A w \in Reading : StoreAt[w] \in Stores
BY DEF Reading, StoreAt, Stores

LEMMA StatusesHere ==
  ASSUME NEW log \in Seq(DecisionType), NEW r \in Resolutions
  PROVE  EffectiveStatus(log, r) \in Statuses
<1>1. Len(log) \in Nat /\ DOMAIN log = 1 .. Len(log)
  BY LenProperties
<1>2. /\ History(log, r) \in SUBSET (1 .. Len(log))
      /\ History(log, r) \in SUBSET (0 .. Len(log))
  BY <1>1 DEF History
<1>3. CASE History(log, r) # {}
  <2>1. Max(History(log, r)) \in 1 .. Len(log)
    BY <1>1, <1>2, <1>3, MaxMember
  <2>2. log[Max(History(log, r))] \in DecisionType
    BY <2>1, ElementOfSeq
  <2>. QED
    BY <1>3, <2>2 DEF EffectiveStatus, DecisionType
<1>4. CASE History(log, r) = {}
  BY <1>4, SourceAssumption DEF EffectiveStatus
<1>. QED
  BY <1>3, <1>4

\* A decide request appends one well-formed decision and nothing else.
LEMMA DecideAppends ==
  ASSUME Ledger!Decide
  PROVE  /\ \E d \in DecisionType : decisions' = Append(decisions, d)
         /\ UNCHANGED <<evidence, closures>>
<1>1. PICK r \in Requests : Ledger!Decisions!Record(r)
  BY DEF Ledger!Decide, Ledger!Decisions!Next
<1>2. PICK p : /\ Ledger!Decisions!Legal(p, r.new)
               /\ decisions' = Append(decisions, Ledger!Decisions!DecisionOf(r, p))
  BY <1>1 DEF Ledger!Decisions!Record
<1>3. p \in Statuses
  BY <1>2 DEF Ledger!Decisions!Legal, Ledger!Decisions!AllowedTransitions,
              Ledger!Decisions!Active, Statuses
<1>4. r.new \in Statuses /\ r.resolution \in Resolutions
  BY <1>1, RequestsAssumption DEF Ledger!Decisions!Record
<1>5. Ledger!Decisions!DecisionOf(r, p) \in DecisionType
  BY <1>3, <1>4 DEF Ledger!Decisions!DecisionOf, DecisionType
<1>. QED
  BY <1>2, <1>5 DEF Ledger!Decide

(* ---- Type correctness and the locks. ---- *)

\* The holder of a lock has the current file in its hands.
LockHeld ==
  \A t \in Threads :
    /\ pc[t] \in {"locked", "write"} => lock[Target(t)] = t
    /\ pc[t] = "write" => parsed[t] = File[Target(t)]

\* What a thread on its way to the closure file has established.
Checked ==
  \A t \in Threads : Target(t) = "closures" =>
    /\ pc[t] \in {"lock", "locked", "write"} =>
         Ready(Resolution(t), found[t], FALSE)
    /\ pc[t] = "write" => OfResolution(closures, Resolution(t)) = {}

LockInv == TypeOK /\ LockHeld /\ Checked

LEMMA LockInit == Init => LockInv
<1>. SUFFICES ASSUME Init PROVE LockInv
  OBVIOUS
<1>1. TypeOK
  BY EmptySeq, CallsAssumption, ReadingSet
     DEF Init, Ledger!Init, TypeOK, Nothing, FoundType, Silent, Answer, ReplyKinds
<1>. QED
  BY <1>1 DEF Init, LockInv, LockHeld, Checked

\* A cache is either missing or a list of its store.
LEMMA CachedList ==
  ASSUME TypeOK, NEW w \in Reading, cache[StoreAt[w]] # NotLoaded
  PROVE  cache[StoreAt[w]] \in Lists[StoreAt[w]]
BY StoreOfRead DEF TypeOK

LEMMA LockStepLoad ==
  ASSUME LockInv, NEW t \in Threads, Load(t)
  PROVE  LockInv'
<1>. USE DEF Goto, Loading, Reply, Raise, Answer, ReplyKinds, Nothing, FoundType
<1>1. CASE LoadCheck(t)
  <2>1. TypeOK'
    BY <1>1, ReadingSet DEF LoadCheck, LockInv, TypeOK, files, Target, Resolution
  <2>. QED
    BY <1>1, <2>1 DEF LoadCheck, LockInv, TypeOK, LockHeld, Checked, files,
                      Target, Resolution, File
<1>2. CASE LoadRead(t)
  <2>1. File[StoreAt[pc[t]]] \in Lists[StoreAt[pc[t]]]
    BY <1>2, ReadingSet, StoreOfRead, FileOfStore DEF LoadRead, LockInv, TypeOK
  <2>2. TypeOK'
    BY <1>2, <2>1, ReadingSet DEF LoadRead, LockInv, TypeOK, files, Target, Resolution
  <2>. QED
    BY <1>2, <2>2, ReadingSet DEF LoadRead, LockInv, TypeOK, LockHeld, Checked,
                      files, Target, Resolution, File
<1>3. CASE LoadFill(t)
  <2>1. StoreAt[pc[t]] \in Stores /\ parsed[t] \in Lists[StoreAt[pc[t]]]
    BY <1>3, StoreOfRead DEF LoadFill, LockInv, TypeOK
  <2>2. TypeOK'
    BY <1>3, <2>1, ReadingSet DEF LoadFill, LockInv, TypeOK, files, Target, Resolution
  <2>. QED
    BY <1>3, <2>2, ReadingSet DEF LoadFill, LockInv, TypeOK, LockHeld, Checked,
                      files, Target, Resolution, File
<1>4. CASE LoadedNone(t)
  <2>1. TypeOK'
    BY <1>4, ReadingSet DEF LoadedNone, LockInv, TypeOK, files, Target, Resolution
  <2>. QED
    BY <1>4, <2>1 DEF LoadedNone, LockInv, TypeOK, LockHeld, Checked, files,
                      Target, Resolution, File
<1>. QED
  BY <1>1, <1>2, <1>3, <1>4 DEF Load

LEMMA LockStepArrive ==
  ASSUME LockInv, NEW t \in Threads,
         Accept(t) \/ RecordDecision(t) \/ ReloadDecisions(t)
  PROVE  LockInv'
<1>. USE DEF Goto, Reply, Answer, ReplyKinds
<1>1. CASE Accept(t)
  <2>. PICK c \in Calls :
         /\ call' = [call EXCEPT ![t] = c]
         /\ \/ \E kind \in {"not_found", "blocked"} : Reply(t, kind, 0)
            \/ /\ c.resolution \in Resolutions
               /\ Goto(t, FirstStep(c)) /\ UNCHANGED reply
    BY <1>1 DEF Accept
  <2>1. /\ pc[t] = "idle"
        /\ UNCHANGED <<files, cache, lock, load, parsed, found>>
    BY <1>1 DEF Accept
  <2>2. CASE \E kind \in {"not_found", "blocked"} : Reply(t, kind, 0)
    <3>1. TypeOK'
      BY <2>1, <2>2, ReadingSet DEF LockInv, TypeOK, files, Target, Resolution
    <3>2. LockHeld'
      BY <2>1, <2>2 DEF LockInv, TypeOK, LockHeld, files, Target, File
    <3>3. Checked'
      BY <2>1, <2>2 DEF LockInv, TypeOK, Checked, files, Target, Resolution
    <3>. QED
      BY <3>1, <3>2, <3>3 DEF LockInv
  <2>3. CASE c.resolution \in Resolutions /\ Goto(t, FirstStep(c)) /\ UNCHANGED reply
    <3>1. /\ FirstStep(c) \in Reading \cup {"lock"}
          /\ FirstStep(c) = "lock" => c.op = "evidence"
      BY CallsAssumption, ReadingSet DEF FirstStep, Operations
    <3>2. load[t] = "check"
      BY <2>1, ReadingSet DEF LockInv, TypeOK
    <3>. HIDE DEF FirstStep
    <3>3. TypeOK'
      BY <2>1, <2>3, <3>1, <3>2, ReadingSet DEF LockInv, TypeOK, files, Target,
                                                Resolution
    <3>4. LockHeld' /\ Checked'
      BY <2>1, <2>3, <3>1, ReadingSet DEF LockInv, TypeOK, LockHeld, Checked,
                                          files, Target, Resolution, File
    <3>. QED
      BY <3>3, <3>4 DEF LockInv
  <2>. QED
    BY <2>2, <2>3
<1>2. CASE RecordDecision(t)
  <2>1. decisions' \in Seq(DecisionType) /\ UNCHANGED <<evidence, closures>>
    <3>1. PICK d \in DecisionType : decisions' = Append(decisions, d)
      BY <1>2, DecideAppends DEF RecordDecision
    <3>2. UNCHANGED <<evidence, closures>>
      BY <1>2, DecideAppends DEF RecordDecision
    <3>. QED
      BY <3>1, <3>2, AppendProperties DEF LockInv, TypeOK
  <2>2. TypeOK'
    BY <1>2, <2>1, ReadingSet DEF RecordDecision, LockInv, TypeOK, Target, Resolution
  <2>3. LockHeld' /\ Checked'
    BY <1>2, <2>1 DEF RecordDecision, LockInv, TypeOK, LockHeld, Checked, Target,
                      Resolution, File
  <2>. QED
    BY <2>2, <2>3 DEF LockInv
<1>3. CASE ReloadDecisions(t)
  <2>1. TypeOK'
    BY <1>3, ReadingSet DEF ReloadDecisions, Dropped, LockInv, TypeOK, files,
                            Target, Resolution, Stores
  <2>2. LockHeld' /\ Checked'
    BY <1>3 DEF ReloadDecisions, LockInv, TypeOK, LockHeld, Checked, Target,
                Resolution, File, files
  <2>. QED
    BY <2>1, <2>2 DEF LockInv
<1>. QED
  BY <1>1, <1>2, <1>3

LEMMA LockStepCurate ==
  ASSUME LockInv, Curate
  PROVE  LockInv'
<1>1. evidence' \in Seq(Evidence)
  BY AppendProperties DEF Curate, LockInv, TypeOK
<1>2. TypeOK'
  BY <1>1 DEF Curate, LockInv, TypeOK, threadVars, Target, Resolution
<1>3. LockHeld' /\ Checked'
  BY CallsAssumption DEF Curate, LockInv, TypeOK, LockHeld, Checked, threadVars,
     Target, Resolution, File
<1>. QED
  BY <1>2, <1>3 DEF LockInv

LEMMA LockStepLook ==
  ASSUME LockInv, NEW t \in Threads, Look(t) \/ Precheck(t)
  PROVE  LockInv'
<1>. USE DEF Goto, Loading, Loaded, Reply, Answer, ReplyKinds, List
<1>1. PICK w \in Reading :
        /\ pc[t] = w /\ load' = [load EXCEPT ![t] = "check"]
        /\ UNCHANGED <<files, cache, lock, call, parsed, found>>
        /\ \/ /\ \E k \in ReplyKinds, at \in Nat : Reply(t, k, at)
           \/ Goto(t, "status") /\ UNCHANGED reply
  <2>1. CASE Look(t)
    <3>1. PICK w \in Looking :
            /\ Loaded(t, w) /\ UNCHANGED found
            /\ \E k \in {"integrity", "shown"}, at \in {0, Len(List(w))} : Reply(t, k, at)
      BY <2>1 DEF Look
    <3>2. w \in Reading
      BY ReadingSet DEF Looking
    <3>3. Len(List(w)) \in Nat
      BY <3>1, <3>2, CachedList, LenProperties, StoreOfRead
         DEF LockInv, Lists, Stores
    <3>. QED
      <4>1. \A at \in {0, Len(List(w))} : at \in Nat
        BY <3>3
      <4>. QED
        BY <3>1, <3>2, <4>1
  <2>2. CASE Precheck(t)
    BY <2>2, ReadingSet DEF Precheck
  <2>. QED
    BY <2>1, <2>2
<1>2. TypeOK'
  <2>1. ASSUME NEW k \in ReplyKinds, NEW at \in Nat, Reply(t, k, at)
        PROVE  TypeOK'
    BY <1>1, <2>1, ReadingSet DEF LockInv, TypeOK, files, Target, Resolution
  <2>2. CASE Goto(t, "status") /\ UNCHANGED reply
    BY <1>1, <2>2, ReadingSet DEF LockInv, TypeOK, files, Target, Resolution
  <2>. QED
    BY <1>1, <2>1, <2>2
<1>3. LockHeld'
  BY <1>1 DEF LockInv, TypeOK, LockHeld, files, Target, Resolution, File
<1>4. Checked'
  BY <1>1, ZenonT(60) DEF LockInv, TypeOK, Checked, files, Target, Resolution, File
<1>. QED
  BY <1>2, <1>3, <1>4 DEF LockInv

LEMMA LockStepEvaluate ==
  ASSUME LockInv, NEW t \in Threads,
         EvaluateStatus(t) \/ EvaluateHistory(t) \/ EvaluateRecords(t)
  PROVE  LockInv'
<1>. USE DEF Goto, Loading, Loaded
<1>1. PICK w \in Reading :
        /\ pc[t] = w /\ load' = [load EXCEPT ![t] = "check"]
        /\ UNCHANGED <<files, cache, lock, call, parsed, reply>>
        /\ \E f \in FoundType : found' = [found EXCEPT ![t] = f]
        /\ \E next \in Reading : Goto(t, next)
  <2>0. Resolution(t) \in Resolutions /\ found[t] \in FoundType
    BY ReadingSet DEF LockInv, TypeOK, EvaluateStatus, EvaluateHistory, EvaluateRecords
  <2>1. CASE EvaluateStatus(t)
    <3>1. List("status") \in Seq(DecisionType)
      BY <2>1, CachedList, ReadingSet, StoreOfRead, FileOfStore
         DEF EvaluateStatus, List, LockInv
    <3>2. EffectiveStatus(List("status"), Resolution(t)) \in Statuses
      BY <2>0, <3>1, StatusesHere
    <3>3. [found[t] EXCEPT !.status = EffectiveStatus(List("status"), Resolution(t))]
            \in FoundType
      BY <2>0, <3>2 DEF FoundType
    <3>. QED
      BY <2>1, <3>3, ReadingSet DEF EvaluateStatus, Learn, LockInv, TypeOK
  <2>2. CASE EvaluateHistory(t)
    <3>1. List("history") \in Seq(DecisionType)
      BY <2>2, CachedList, ReadingSet, StoreOfRead, FileOfStore
         DEF EvaluateHistory, List, LockInv
    <3>2. NewestDecision(List("history"), Resolution(t)) \in Nat
      BY <3>1, NewestIsDecision
    <3>3. [found[t] EXCEPT !.decision = NewestDecision(List("history"), Resolution(t))]
            \in FoundType
      BY <2>0, <3>2 DEF FoundType
    <3>. QED
      BY <2>2, <3>3, ReadingSet DEF EvaluateHistory, Learn, LockInv, TypeOK
  <2>3. CASE EvaluateRecords(t)
    <3>1. List("records") \in Seq(Evidence)
      BY <2>3, CachedList, ReadingSet, StoreOfRead, FileOfStore
         DEF EvaluateRecords, List, LockInv
    <3>2. Verified(List("records"), Resolution(t)) \in SUBSET Nat
      BY <3>1, PlacesAreNatural
    <3>3. [found[t] EXCEPT
             !.verified = Verified(List("records"), Resolution(t)),
             !.corrupted = Corrupted(List("records"), Resolution(t)) # {}]
            \in FoundType
      BY <2>0, <3>2 DEF FoundType
    <3>4. found' = [found EXCEPT ![t] =
            [found[t] EXCEPT
               !.verified = Verified(List("records"), Resolution(t)),
               !.corrupted = Corrupted(List("records"), Resolution(t)) # {}]]
      BY <2>3 DEF EvaluateRecords, LockInv, TypeOK
    <3>. QED
      BY <2>3, <3>3, <3>4, ReadingSet DEF EvaluateRecords
  <2>. QED
    BY <2>1, <2>2, <2>3
<1>2. TypeOK'
  BY <1>1, ReadingSet DEF LockInv, TypeOK, files, Target, Resolution
<1>3. LockHeld'
  BY <1>1, ReadingSet DEF LockInv, TypeOK, LockHeld, files, Target, File
<1>4. Checked'
  BY <1>1, ReadingSet, ZenonT(60) DEF LockInv, TypeOK, Checked, files, Target, Resolution
<1>. QED
  BY <1>2, <1>3, <1>4 DEF LockInv

LEMMA LockStepExisting ==
  ASSUME LockInv, NEW t \in Threads, EvaluateExisting(t)
  PROVE  LockInv'
<1>. USE DEF Goto, Loading, Loaded, Reply, Answer, ReplyKinds
<1>. DEFINE ready == Ready(Resolution(t), found[t], Closed(t))
<1>1. /\ pc[t] = "existing" /\ load' = [load EXCEPT ![t] = "check"]
      /\ UNCHANGED <<files, cache, lock, call, parsed>>
      /\ Verdict(t, ready)
  BY DEF EvaluateExisting
<1>2. ready => Ready(Resolution(t), found[t], FALSE)
  BY DEF Ready
<1>. HIDE DEF ready
<1>3. CASE Reply(t, "not_ready", 0) /\ found' = [found EXCEPT ![t] = Nothing]
  <2>1. TypeOK'
    BY <1>1, <1>3, ReadingSet DEF LockInv, TypeOK, files, Target, Resolution,
                                  FoundType, Nothing
  <2>2. LockHeld'
    BY <1>1, <1>3 DEF LockInv, TypeOK, LockHeld, files, Target, File
  <2>3. Checked'
    BY <1>1, <1>3 DEF LockInv, TypeOK, Checked, files, Target, Resolution
  <2>. QED
    BY <2>1, <2>2, <2>3 DEF LockInv
<1>4. CASE Reply(t, "ready", found[t].decision) /\ UNCHANGED found
  <2>0. found[t].decision \in Nat
    BY DEF LockInv, TypeOK, FoundType
  <2>1. TypeOK'
    BY <1>1, <1>4, <2>0, ReadingSet DEF LockInv, TypeOK, files, Target, Resolution
  <2>2. LockHeld'
    BY <1>1, <1>4 DEF LockInv, TypeOK, LockHeld, files, Target, File
  <2>3. Checked'
    BY <1>1, <1>4 DEF LockInv, TypeOK, Checked, files, Target, Resolution
  <2>. QED
    BY <2>1, <2>2, <2>3 DEF LockInv
<1>5. CASE ready /\ Goto(t, "lock") /\ UNCHANGED <<found, reply>>
  <2>1. TypeOK'
    BY <1>1, <1>5, ReadingSet DEF LockInv, TypeOK, files, Target, Resolution
  <2>2. LockHeld'
    BY <1>1, <1>5 DEF LockInv, TypeOK, LockHeld, files, Target, File
  <2>3. Checked'
    BY <1>1, <1>2, <1>5 DEF LockInv, TypeOK, Checked, files, Target, Resolution
  <2>. QED
    BY <2>1, <2>2, <2>3 DEF LockInv
<1>. QED
  BY <1>1, <1>3, <1>4, <1>5 DEF Verdict

\* Releasing its own lock, a thread leaves the others theirs.
LEMMA UnlockFacts ==
  ASSUME LockInv, NEW t \in Threads
  PROVE  /\ Unlocked(t) \in [{"evidence", "closures"} -> Threads \cup {NoThread}]
         /\ \A s \in {"evidence", "closures"} : \A u \in Threads :
              u # t /\ lock[s] = u => Unlocked(t)[s] = u
BY DEF Unlocked, LockInv, TypeOK

LEMMA LockStepAppend ==
  ASSUME LockInv, NEW t \in Threads, AppendLock(t) \/ AppendRead(t) \/ Reload(t)
  PROVE  LockInv'
<1>. USE DEF Goto, Reply, Raise, Answer, ReplyKinds, Nothing, FoundType
<1>1. CASE AppendLock(t)
  <2>1. TypeOK'
    BY <1>1, ReadingSet DEF AppendLock, LockInv, TypeOK, files, Target, Resolution
  <2>2. LockHeld'
    BY <1>1, CallsAssumption DEF AppendLock, LockInv, TypeOK, LockHeld, files,
                                 Target, File
  <2>3. Checked'
    BY <1>1 DEF AppendLock, LockInv, TypeOK, Checked, files, Target, Resolution
  <2>. QED
    BY <2>1, <2>2, <2>3 DEF LockInv
<1>2. CASE AppendRead(t)
  <2>0. /\ pc[t] = "locked"
        /\ UNCHANGED <<files, cache, load, call>>
    BY <1>2 DEF AppendRead
  <2>1. CASE /\ Target(t) = "evidence" \/ OfResolution(closures, Resolution(t)) = {}
             /\ parsed' = [parsed EXCEPT ![t] = File[Target(t)]]
             /\ Goto(t, "write")
             /\ UNCHANGED <<lock, found, reply>>
    <3>0. File[Target(t)] \in Lists[Target(t)]
      BY FileOfStore DEF Target, LockInv, TypeOK
    <3>1. TypeOK'
      BY <2>0, <2>1, <3>0, ReadingSet DEF LockInv, TypeOK, files, Target, Resolution
    <3>2. LockHeld'
      BY <2>0, <2>1 DEF LockInv, TypeOK, LockHeld, files, Target, File
    <3>3. Checked'
      BY <2>0, <2>1 DEF LockInv, TypeOK, Checked, files, Target, Resolution
    <3>. QED
      BY <3>1, <3>2, <3>3 DEF LockInv
  <2>2. CASE lock' = Unlocked(t) /\ Raise(t, "duplicate")
    <3>1. TypeOK'
      BY <2>0, <2>2, UnlockFacts, ReadingSet, ZenonT(60)
         DEF LockInv, TypeOK, files, Target, Resolution
    <3>2. LockHeld'
      BY <2>0, <2>2, UnlockFacts DEF LockInv, TypeOK, LockHeld, files, Target, File
    <3>3. Checked'
      BY <2>0, <2>2 DEF LockInv, TypeOK, Checked, files, Target, Resolution
    <3>. QED
      BY <3>1, <3>2, <3>3 DEF LockInv
  <2>. QED
    BY <1>2, <2>1, <2>2 DEF AppendRead
<1>3. CASE Reload(t)
  <2>0. Len(parsed[t]) + 1 \in Nat
    BY <1>3, FileOfStore, LenProperties DEF Reload, LockInv, TypeOK, Target
  <2>1. TypeOK'
    BY <1>3, <2>0, ReadingSet DEF Reload, Dropped, LockInv, TypeOK, files, Target,
                                  Resolution
  <2>2. LockHeld'
    BY <1>3 DEF Reload, LockInv, TypeOK, LockHeld, files, Target, File
  <2>3. Checked'
    BY <1>3 DEF Reload, LockInv, TypeOK, Checked, files, Target, Resolution
  <2>. QED
    BY <2>1, <2>2, <2>3 DEF LockInv
<1>. QED
  BY <1>1, <1>2, <1>3

\* What a writing thread appends is well-formed, and it appends it to the
\* file as it is.
LEMMA WriteAppends ==
  ASSUME LockInv, NEW t \in Threads
  PROVE  /\ WriteEvidence(t) =>
              /\ evidence' = Append(evidence, NewEvidence(Resolution(t)))
              /\ NewEvidence(Resolution(t)) \in Evidence
         /\ WriteClosure(t) =>
              /\ closures' = Append(closures, Closure(Resolution(t),
                               found[t].decision, found[t].verified))
              /\ Closure(Resolution(t), found[t].decision, found[t].verified)
                   \in ClosureType
              /\ OfResolution(closures, Resolution(t)) = {}
<1>1. ASSUME WriteEvidence(t)
      PROVE  /\ evidence' = Append(evidence, NewEvidence(Resolution(t)))
             /\ NewEvidence(Resolution(t)) \in Evidence
  BY <1>1, CallsAssumption, FileOfStore
     DEF WriteEvidence, LockInv, LockHeld, TypeOK
<1>2. ASSUME WriteClosure(t)
      PROVE  /\ closures' = Append(closures, Closure(Resolution(t),
                              found[t].decision, found[t].verified))
             /\ Closure(Resolution(t), found[t].decision, found[t].verified)
                  \in ClosureType
             /\ OfResolution(closures, Resolution(t)) = {}
  BY <1>2, FileOfStore
     DEF WriteClosure, LockInv, LockHeld, Checked, Ready, TypeOK, FoundType,
         Closure, ClosureType
<1>. QED
  BY <1>1, <1>2

LEMMA LockStepWrite ==
  ASSUME LockInv, NEW t \in Threads, WriteEvidence(t) \/ WriteClosure(t)
  PROVE  LockInv'
<1>. USE DEF Goto
<1>1. CASE WriteEvidence(t)
  <2>1. evidence' \in Seq(Evidence)
    <3>1. PICK e \in Evidence : evidence' = Append(evidence, e)
      BY <1>1, WriteAppends
    <3>. QED
      BY <3>1, AppendProperties DEF LockInv, TypeOK
  <2>2. TypeOK'
    BY <1>1, <2>1, UnlockFacts, ReadingSet
       DEF WriteEvidence, LockInv, TypeOK, Target, Resolution
  <2>3. LockHeld'
    BY <1>1, UnlockFacts DEF WriteEvidence, LockInv, TypeOK, LockHeld, Target, File
  <2>4. Checked'
    BY <1>1 DEF WriteEvidence, LockInv, TypeOK, Checked, Target, Resolution
  <2>. QED
    BY <2>2, <2>3, <2>4 DEF LockInv
<1>2. CASE WriteClosure(t)
  <2>1. closures' \in Seq(ClosureType)
    <3>1. PICK e \in ClosureType : closures' = Append(closures, e)
      BY <1>2, WriteAppends
    <3>. QED
      BY <3>1, AppendProperties DEF LockInv, TypeOK
  <2>2. TypeOK'
    BY <1>2, <2>1, UnlockFacts, ReadingSet
       DEF WriteClosure, LockInv, TypeOK, Target, Resolution
  <2>3. LockHeld'
    BY <1>2, UnlockFacts DEF WriteClosure, LockInv, TypeOK, LockHeld, Target, File
  <2>4. Checked'
    <3>. SUFFICES ASSUME NEW s \in Threads, Target(s)' = "closures",
                         pc'[s] \in {"lock", "locked", "write"}
                  PROVE  /\ Ready(Resolution(s), found[s], FALSE)'
                         /\ pc'[s] # "write"
      BY DEF Checked
    <3>1. s # t /\ pc[s] = pc'[s] /\ Target(s) = "closures"
      BY <1>2 DEF WriteClosure, LockInv, TypeOK, Target
    <3>2. pc[s] # "write"
      BY <1>2, <3>1 DEF WriteClosure, LockInv, LockHeld
    <3>. QED
      BY <1>2, <3>1, <3>2 DEF WriteClosure, LockInv, Checked, Resolution
  <2>. QED
    BY <2>2, <2>3, <2>4 DEF LockInv
<1>. QED
  BY <1>1, <1>2

LEMMA LockStepEnd ==
  ASSUME LockInv, (\E t \in Threads : Fails(t) \/ Deliver(t)) \/ Crash
  PROVE  LockInv'
<1>. USE CallsAssumption, EmptySeq
     DEF Goto, Reply, Raise, Loading, Answer, ReplyKinds, Silent, Nothing, FoundType
<1>1. ASSUME NEW t \in Threads, Fails(t)
      PROVE  LockInv'
  <2>1. TypeOK'
    BY <1>1, UnlockFacts, ReadingSet DEF Fails, LockInv, TypeOK, files, Target,
                                         Resolution
  <2>2. LockHeld'
    BY <1>1, UnlockFacts DEF Fails, LockInv, TypeOK, LockHeld, files, Target, File
  <2>3. Checked'
    BY <1>1 DEF Fails, LockInv, TypeOK, Checked, files, Target, Resolution
  <2>. QED
    BY <2>1, <2>2, <2>3 DEF LockInv
<1>2. ASSUME NEW t \in Threads, Deliver(t)
      PROVE  LockInv'
  <2>1. TypeOK'
    BY <1>2, ReadingSet DEF Deliver, LockInv, TypeOK, files, Target, Resolution
  <2>2. LockHeld' /\ Checked'
    BY <1>2 DEF Deliver, LockInv, TypeOK, LockHeld, Checked, files, Target,
                Resolution, File
  <2>. QED
    BY <2>1, <2>2 DEF LockInv
<1>3. CASE Crash
  <2>1. TypeOK'
    BY <1>3, ReadingSet DEF Crash, LockInv, TypeOK, files
  <2>2. LockHeld' /\ Checked'
    BY <1>3 DEF Crash, LockHeld, Checked
  <2>. QED
    BY <2>1, <2>2 DEF LockInv
<1>. QED
  BY <1>1, <1>2, <1>3

LEMMA LockStep == LockInv /\ [Next]_vars => LockInv'
<1>1. LockInv /\ UNCHANGED vars => LockInv'
  BY DEF vars, LockInv, TypeOK, LockHeld, Checked, Target, Resolution, File
<1>. QED
  BY <1>1, LockStepLoad, LockStepArrive, LockStepCurate, LockStepLook,
     LockStepEvaluate, LockStepExisting, LockStepAppend, LockStepWrite, LockStepEnd
     DEF Next, Handle, Evaluate, AppendTo

\* WasherClosure keeps its state well-typed.
THEOREM TypeCorrect == Spec => []TypeOK
<1>1. LockInv => TypeOK
  BY DEF LockInv
<1>. QED
  BY LockInit, LockStep, <1>1, PTL DEF Spec

(* ---- Every step leaves each file alone or appends one record. ---- *)

Grows(T, old, new) == new = old \/ \E e \in T : new = Append(old, e)

FilesGrow ==
  /\ Grows(DecisionType, decisions, decisions')
  /\ Grows(Evidence, evidence, evidence')
  /\ Grows(ClosureType, closures, closures')

\* Only three kinds of step write a file.
LEMMA QuietSteps ==
  ASSUME NEW t \in Threads,
         \/ Accept(t) \/ ReloadDecisions(t) \/ Load(t) \/ Look(t) \/ Evaluate(t)
         \/ AppendLock(t) \/ AppendRead(t) \/ Reload(t) \/ Fails(t) \/ Deliver(t)
  PROVE  UNCHANGED files
BY DEF Accept, ReloadDecisions, Load, LoadCheck, LoadRead, LoadFill, LoadedNone,
       Look, Loaded, Evaluate, Precheck, EvaluateStatus, EvaluateHistory,
       EvaluateRecords, EvaluateExisting, AppendLock, AppendRead, Reload, Fails,
       Deliver

LEMMA FileSteps ==
  ASSUME LockInv, [Next]_vars
  PROVE  FilesGrow
<1>1. CASE UNCHANGED files
  BY <1>1 DEF files, FilesGrow, Grows
<1>2. CASE Curate
  <2>1. PICK e \in Evidence : evidence' = Append(evidence, e)
    BY <1>2 DEF Curate
  <2>. QED
    BY <1>2, <2>1 DEF Curate, FilesGrow, Grows
<1>3. ASSUME NEW t \in Threads, RecordDecision(t)
      PROVE  FilesGrow
  BY <1>3, DecideAppends DEF RecordDecision, FilesGrow, Grows
<1>4. ASSUME NEW t \in Threads, WriteEvidence(t)
      PROVE  FilesGrow
  <2>1. PICK e \in Evidence : evidence' = Append(evidence, e)
    BY <1>4, WriteAppends
  <2>. QED
    BY <1>4, <2>1 DEF WriteEvidence, FilesGrow, Grows
<1>5. ASSUME NEW t \in Threads, WriteClosure(t)
      PROVE  FilesGrow
  <2>1. PICK e \in ClosureType : closures' = Append(closures, e)
    BY <1>5, WriteAppends
  <2>. QED
    BY <1>5, <2>1 DEF WriteClosure, FilesGrow, Grows
<1>6. CASE Crash \/ UNCHANGED vars
  BY <1>1, <1>6 DEF Crash, vars, files
<1>. QED
  BY <1>1, <1>2, <1>3, <1>4, <1>5, <1>6, QuietSteps DEF Next, Handle, AppendTo

(* ---- The caches. ---- *)

LEMMA PrefixOfGrown ==
  ASSUME NEW T, NEW old \in Seq(T), NEW new, Grows(T, old, new),
         NEW s \in Seq(T), Prefix(s, old)
  PROVE  Prefix(s, new)
<1>1. Len(s) \in 0 .. Len(old) /\ Len(old) \in Nat
  BY LenProperties DEF Prefix
<1>2. ASSUME NEW e \in T, new = Append(old, e)
      PROVE  Prefix(s, new)
  <2>1. Len(new) = Len(old) + 1 /\ SubSeq(new, 1, Len(s)) = SubSeq(old, 1, Len(s))
    BY <1>1, <1>2, AppendProperties, PrefixOfAppend
  <2>. QED
    BY <1>1, <2>1 DEF Prefix
<1>. QED
  BY <1>2 DEF Grows

LEMMA PrefixOfItself ==
  ASSUME NEW T, NEW s \in Seq(T)
  PROVE  Prefix(s, s)
BY SubSeqFull, LenProperties DEF Prefix

LEMMA PrefixStays ==
  ASSUME TypeOK, FilesGrow, NEW s \in Stores, NEW list \in Lists[s],
         Prefix(list, File[s])
  PROVE  Prefix(list, File'[s])
<1>1. CASE s = "decisions"
  BY <1>1, PrefixOfGrown, FileOfStore DEF File, FilesGrow, TypeOK
<1>2. CASE s = "evidence"
  BY <1>2, PrefixOfGrown, FileOfStore DEF File, FilesGrow, TypeOK
<1>3. CASE s = "closures"
  BY <1>3, PrefixOfGrown, FileOfStore DEF File, FilesGrow, TypeOK
<1>. QED
  BY <1>1, <1>2, <1>3 DEF Stores

\* A list a thread has parsed for a cache is a prefix of the file by then.
ParsedIsPrefix ==
  \A t \in Threads :
    load[t] = "fill" => Prefix(parsed[t], File[StoreAt[pc[t]]])

CachesInv == CachesArePrefixes /\ ParsedIsPrefix

LEMMA CachesInit == Init => CachesInv
BY DEF Init, CachesInv, CachesArePrefixes, ParsedIsPrefix

\* Only the end of a load puts anything into a cache.
LEMMA CacheEffect ==
  ASSUME TypeOK, [Next]_vars, NEW s \in Stores, cache'[s] # NotLoaded
  PROVE  \/ cache'[s] = cache[s]
         \/ \E t \in Threads :
              /\ LoadFill(t)
              /\ s = StoreAt[pc[t]]
              /\ cache'[s] = parsed[t]
<1>1. ASSUME NEW t \in Threads, LoadFill(t)
      PROVE  \/ cache'[s] = cache[s]
             \/ /\ s = StoreAt[pc[t]]
                /\ cache'[s] = parsed[t]
  BY <1>1 DEF LoadFill, TypeOK
<1>2. ASSUME NEW t \in Threads, ReloadDecisions(t) \/ Reload(t)
      PROVE  cache'[s] = cache[s]
  BY <1>2 DEF ReloadDecisions, Reload, Dropped, TypeOK
<1>3. ASSUME NEW t \in Threads,
             \/ Accept(t) \/ RecordDecision(t) \/ LoadCheck(t) \/ LoadRead(t)
             \/ LoadedNone(t) \/ Look(t) \/ Evaluate(t) \/ AppendLock(t)
             \/ AppendRead(t) \/ WriteEvidence(t) \/ WriteClosure(t) \/ Fails(t)
             \/ Deliver(t)
      PROVE  UNCHANGED cache
  BY <1>3 DEF Accept, RecordDecision, LoadCheck, LoadRead, LoadedNone, Look,
     Loaded, Evaluate, Precheck, EvaluateStatus, EvaluateHistory, EvaluateRecords,
     EvaluateExisting, AppendLock, AppendRead, WriteEvidence, WriteClosure, Fails,
     Deliver
<1>4. CASE Crash
  BY <1>4 DEF Crash
<1>5. CASE Curate \/ UNCHANGED vars
  BY <1>5 DEF Curate, vars
<1>. QED
  BY <1>1, <1>2, <1>3, <1>4, <1>5 DEF Next, Handle, Load, AppendTo

\* A thread with a parsed list has just parsed it or is still where it was.
LEMMA FillEffect ==
  ASSUME TypeOK, [Next]_vars, NEW t \in Threads, load'[t] = "fill"
  PROVE  \/ load[t] = "fill" /\ UNCHANGED <<pc[t], parsed[t]>>
         \/ LoadRead(t)
<1>. USE DEF Loading, Goto, Reply, Raise
<1>1. ASSUME NEW u \in Threads,
             \/ LoadCheck(u) \/ LoadFill(u) \/ LoadedNone(u)
             \/ Fails(u) \/ Look(u) \/ Evaluate(u)
      PROVE  load[t] = "fill" /\ u # t /\ UNCHANGED <<pc[t], parsed[t]>>
  BY <1>1 DEF LoadCheck, LoadFill, LoadedNone, Fails, Look, Loaded, Evaluate,
     Precheck, EvaluateStatus, EvaluateHistory, EvaluateRecords, EvaluateExisting,
     Verdict, TypeOK
<1>2. ASSUME NEW u \in Threads, u # t, LoadRead(u)
      PROVE  load[t] = "fill" /\ UNCHANGED <<pc[t], parsed[t]>>
  BY <1>2 DEF LoadRead, TypeOK
<1>3. ASSUME NEW u \in Threads,
             Accept(u) \/ RecordDecision(u) \/ ReloadDecisions(u) \/ Deliver(u)
      PROVE  load[t] = "fill" /\ UNCHANGED <<pc[t], parsed[t]>>
  BY <1>3, ReadingSet DEF Accept, RecordDecision, ReloadDecisions, Deliver, TypeOK
<1>4. ASSUME NEW u \in Threads, AppendTo(u)
      PROVE  load[t] = "fill" /\ UNCHANGED <<pc[t], parsed[t]>>
  BY <1>4, ReadingSet DEF AppendTo, AppendLock, AppendRead, WriteEvidence,
     WriteClosure, Reload, TypeOK
<1>5. CASE Crash
  BY <1>5 DEF Crash
<1>6. CASE Curate \/ UNCHANGED vars
  BY <1>6 DEF Curate, threadVars, vars
<1>. QED
  BY <1>1, <1>2, <1>3, <1>4, <1>5, <1>6 DEF Next, Handle, Load

LEMMA CachesStep == LockInv /\ CachesInv /\ [Next]_vars => CachesInv'
<1>. SUFFICES ASSUME LockInv, CachesInv, [Next]_vars
              PROVE  CachesInv'
  OBVIOUS
<1>. TypeOK /\ FilesGrow
  BY FileSteps DEF LockInv
<1>1. CachesArePrefixes'
  <2>. SUFFICES ASSUME NEW s \in Stores, cache'[s] # NotLoaded
                PROVE  Prefix(cache'[s], File'[s])
    BY DEF CachesArePrefixes
  <2>1. \/ cache'[s] = cache[s]
        \/ \E t \in Threads :
             /\ LoadFill(t)
             /\ s = StoreAt[pc[t]]
             /\ cache'[s] = parsed[t]
    BY CacheEffect
  <2>2. CASE cache'[s] = cache[s]
    BY <2>2, PrefixStays DEF CachesInv, CachesArePrefixes, TypeOK
  <2>3. ASSUME NEW t \in Threads, LoadFill(t), s = StoreAt[pc[t]],
               cache'[s] = parsed[t]
        PROVE  Prefix(cache'[s], File'[s])
    BY <2>3, PrefixStays DEF CachesInv, ParsedIsPrefix, TypeOK, LoadFill
  <2>. QED
    BY <2>1, <2>2, <2>3
<1>2. ParsedIsPrefix'
  <2>. SUFFICES ASSUME NEW t \in Threads, load'[t] = "fill"
                PROVE  Prefix(parsed'[t], File'[StoreAt[pc'[t]]])
    BY DEF ParsedIsPrefix
  <2>1. \/ load[t] = "fill" /\ UNCHANGED <<pc[t], parsed[t]>>
        \/ LoadRead(t)
    BY FillEffect
  <2>2. CASE load[t] = "fill" /\ UNCHANGED <<pc[t], parsed[t]>>
    <3>1. pc[t] \in Reading /\ StoreAt[pc[t]] \in Stores
      BY <2>2, StoreOfRead DEF TypeOK
    <3>. QED
      BY <2>2, <3>1, PrefixStays DEF CachesInv, ParsedIsPrefix, TypeOK
  <2>3. CASE LoadRead(t)
    <3>1. pc[t] \in Reading /\ StoreAt[pc[t]] \in Stores
      BY <2>3, StoreOfRead DEF LoadRead
    <3>2. /\ parsed'[t] = File[StoreAt[pc[t]]] /\ pc'[t] = pc[t]
          /\ UNCHANGED files
      BY <2>3 DEF LoadRead, TypeOK
    <3>3. File[StoreAt[pc[t]]] \in Lists[StoreAt[pc[t]]]
      BY <3>1, FileOfStore DEF Stores, TypeOK
    <3>4. Prefix(File[StoreAt[pc[t]]], File[StoreAt[pc[t]]])
      BY <3>1, FileOfStore, PrefixOfItself DEF Stores, TypeOK
    <3>. QED
      BY <3>1, <3>2, <3>3, <3>4, PrefixStays
  <2>. QED
    BY <2>1, <2>2, <2>3
<1>. QED
  BY <1>1, <1>2 DEF CachesInv

\* The caches lag behind the files at most; they never show anything else.
THEOREM CachesAreTrue == Spec => []CachesArePrefixes
<1>1. CachesInv => CachesArePrefixes
  BY DEF CachesInv
<1>. QED
  BY LockInit, LockStep, CachesInit, CachesStep, <1>1, PTL DEF Spec

(* ---- One closure per resolution. ---- *)

LEMMA OnlyWriteCloses ==
  ASSUME LockInv, [Next]_vars
  PROVE  UNCHANGED closures \/ \E t \in Threads : WriteClosure(t)
<1>1. ASSUME NEW t \in Threads, RecordDecision(t) \/ WriteEvidence(t)
      PROVE  UNCHANGED closures
  BY <1>1, DecideAppends DEF RecordDecision, WriteEvidence
<1>2. CASE Curate \/ Crash \/ UNCHANGED vars
  BY <1>2 DEF Curate, Crash, vars, files
<1>3. UNCHANGED files => UNCHANGED closures
  BY DEF files
<1>. QED
  BY <1>1, <1>2, <1>3, QuietSteps DEF Next, Handle, AppendTo

LEMMA OneClosureStep == LockInv /\ OneClosure /\ [Next]_vars => OneClosure'
<1>. SUFFICES ASSUME LockInv, OneClosure, [Next]_vars
              PROVE  OneClosure'
  OBVIOUS
<1>1. CASE UNCHANGED closures
  BY <1>1 DEF OneClosure
<1>2. ASSUME NEW t \in Threads, WriteClosure(t)
      PROVE  OneClosure'
  <2>1. PICK c \in ClosureType :
          closures' = Append(closures, c) /\ c.resolution = Resolution(t)
    BY <1>2, WriteAppends DEF Closure
  <2>2. \A i \in DOMAIN closures : closures[i].resolution # c.resolution
    BY <1>2, <2>1, WriteAppends DEF OfResolution
  <2>3. /\ Len(closures) \in Nat
        /\ DOMAIN closures = 1 .. Len(closures)
        /\ DOMAIN closures' = 1 .. (Len(closures) + 1)
        /\ \A i \in 1 .. Len(closures) : closures'[i] = closures[i]
        /\ closures'[Len(closures) + 1] = c
    BY <2>1, AppendProperties, LenProperties DEF LockInv, TypeOK
  <2>. QED
    BY <2>2, <2>3 DEF OneClosure
<1>. QED
  BY <1>1, <1>2, OnlyWriteCloses

\* However close requests overlap, a resolution is closed at most once.
THEOREM ClosedOnce == Spec => []OneClosure
<1>1. Init => OneClosure
  BY DEF Init, Ledger!Init, OneClosure
<1>. QED
  BY LockInit, LockStep, OneClosureStep, <1>1, PTL DEF Spec

(* ---- The abstract ledger. ---- *)

LEMMA PrefixesGrow ==
  ASSUME NEW T, NEW old \in Seq(T), NEW new, Grows(T, old, new)
  PROVE  Ledger!Prefixes(old) \subseteq Ledger!Prefixes(new)
<1>1. ASSUME NEW e \in T, new = Append(old, e), NEW k \in 0 .. Len(old)
      PROVE  k \in 0 .. Len(new) /\ SubSeq(new, 1, k) = SubSeq(old, 1, k)
  BY <1>1, AppendProperties, PrefixOfAppend, LenProperties
<1>. QED
  BY <1>1 DEF Grows, Ledger!Prefixes

LEMMA ListIsPrefix ==
  ASSUME NEW T, NEW old \in Seq(T), NEW list \in Seq(T), Prefix(list, old)
  PROVE  list \in Ledger!Prefixes(old)
<1>1. Len(list) \in 0 .. Len(old) /\ list = SubSeq(old, 1, Len(list))
  BY LenProperties DEF Prefix
<1>. QED
  BY <1>1 DEF Ledger!Prefixes

\* The list a read hands out was the file at some moment.
LEMMA ListFacts ==
  ASSUME LockInv, CachesInv, NEW w \in Reading, cache[StoreAt[w]] # NotLoaded
  PROVE  /\ List(w) \in Lists[StoreAt[w]]
         /\ Prefix(List(w), File[StoreAt[w]])
<1>1. List(w) \in Lists[StoreAt[w]]
  BY CachedList DEF List, LockInv
<1>. QED
  BY <1>1, StoreOfRead DEF List, CachesInv, CachesArePrefixes

SeenStatus(log, f, r) ==
  f.status \in Terminal =>
    \E known \in Ledger!Prefixes(log) : EffectiveStatus(known, r) \in Terminal

SeenDecision(log, f, r) ==
  f.decision # 0 =>
    \E known \in Ledger!Prefixes(log) : NewestDecision(known, r) = f.decision

SeenEvidence(log, f, r) ==
  f.verified # {} =>
    \E shown \in Ledger!Prefixes(log) :
      /\ Verified(shown, r) = f.verified
      /\ f.corrupted <=> Corrupted(shown, r) # {}

Seen(history, records, f, r) ==
  /\ SeenStatus(history, f, r)
  /\ SeenDecision(history, f, r)
  /\ SeenEvidence(records, f, r)

\* Whatever a request has found out was so at some moment.
FoundSeen ==
  \A t \in Threads :
    /\ pc[t] = "idle" => found[t] = Nothing
    /\ Seen(decisions, evidence, found[t], Resolution(t))

LEMMA NothingSeen ==
  ASSUME NEW history, NEW records, NEW r
  PROVE  Seen(history, records, Nothing, r)
BY DEF Seen, SeenStatus, SeenDecision, SeenEvidence, Nothing, Terminal

LEMMA SeenStays ==
  ASSUME TypeOK, FilesGrow, NEW f, NEW r, Seen(decisions, evidence, f, r)
  PROVE  Seen(decisions', evidence', f, r)
<1>1. /\ Ledger!Prefixes(decisions) \subseteq Ledger!Prefixes(decisions')
      /\ Ledger!Prefixes(evidence) \subseteq Ledger!Prefixes(evidence')
  BY PrefixesGrow DEF TypeOK, FilesGrow
<1>. QED
  BY <1>1 DEF Seen, SeenStatus, SeenDecision, SeenEvidence

\* What the three learning steps find out.
LEMMA SeenLearned ==
  ASSUME LockInv, CachesInv, FoundSeen, NEW t \in Threads,
         EvaluateStatus(t) \/ EvaluateHistory(t) \/ EvaluateRecords(t)
  PROVE  /\ Seen(decisions, evidence, found'[t], Resolution(t))
         /\ UNCHANGED files /\ UNCHANGED call
         /\ pc'[t] # "idle"
         /\ \A u \in Threads : u # t => UNCHANGED <<pc[u], found[u]>>
<1>. USE DEF Goto, Loaded
<1>. DEFINE f == found[t]  r == Resolution(t)
<1>0. TypeOK /\ f \in FoundType /\ Seen(decisions, evidence, f, r)
  BY DEF LockInv, TypeOK, FoundSeen
<1>1. CASE EvaluateStatus(t)
  <2>1. /\ pc[t] = "status" /\ cache[StoreAt["status"]] # NotLoaded
        /\ found'[t] = [f EXCEPT !.status = EffectiveStatus(List("status"), r)]
        /\ pc'[t] # "idle" /\ UNCHANGED files /\ UNCHANGED call
        /\ \A u \in Threads : u # t => UNCHANGED <<pc[u], found[u]>>
    BY <1>0, <1>1 DEF EvaluateStatus, Learn, TypeOK
  <2>2. List("status") \in Ledger!Prefixes(decisions)
    BY <1>0, <2>1, ListFacts, ListIsPrefix, ReadingSet, StoreOfRead, FileOfStore
       DEF TypeOK
  <2>3. /\ found'[t].status = EffectiveStatus(List("status"), r)
        /\ found'[t].decision = f.decision
        /\ found'[t].verified = f.verified
        /\ found'[t].corrupted = f.corrupted
    BY <1>0, <2>1 DEF FoundType
  <2>4. Seen(decisions, evidence, found'[t], r)
    BY <1>0, <2>2, <2>3 DEF Seen, SeenStatus, SeenDecision, SeenEvidence
  <2>. QED
    BY <2>1, <2>4
<1>2. CASE EvaluateHistory(t)
  <2>1. /\ pc[t] = "history" /\ cache[StoreAt["history"]] # NotLoaded
        /\ found'[t] = [f EXCEPT !.decision = NewestDecision(List("history"), r)]
        /\ pc'[t] # "idle" /\ UNCHANGED files /\ UNCHANGED call
        /\ \A u \in Threads : u # t => UNCHANGED <<pc[u], found[u]>>
    BY <1>0, <1>2 DEF EvaluateHistory, Learn, TypeOK
  <2>2. List("history") \in Ledger!Prefixes(decisions)
    BY <1>0, <2>1, ListFacts, ListIsPrefix, ReadingSet, StoreOfRead, FileOfStore
       DEF TypeOK
  <2>3. /\ found'[t].decision = NewestDecision(List("history"), r)
        /\ found'[t].status = f.status
        /\ found'[t].verified = f.verified
        /\ found'[t].corrupted = f.corrupted
    BY <1>0, <2>1 DEF FoundType
  <2>4. Seen(decisions, evidence, found'[t], r)
    BY <1>0, <2>2, <2>3 DEF Seen, SeenStatus, SeenDecision, SeenEvidence
  <2>. QED
    BY <2>1, <2>4
<1>3. CASE EvaluateRecords(t)
  <2>1. /\ pc[t] = "records" /\ cache[StoreAt["records"]] # NotLoaded
        /\ found'[t] = [f EXCEPT
             !.verified = Verified(List("records"), r),
             !.corrupted = Corrupted(List("records"), r) # {}]
        /\ pc'[t] # "idle" /\ UNCHANGED files /\ UNCHANGED call
        /\ \A u \in Threads : u # t => UNCHANGED <<pc[u], found[u]>>
    BY <1>0, <1>3 DEF EvaluateRecords, TypeOK
  <2>2. List("records") \in Ledger!Prefixes(evidence)
    BY <1>0, <2>1, ListFacts, ListIsPrefix, ReadingSet, StoreOfRead, FileOfStore
       DEF TypeOK
  <2>3. /\ found'[t].verified = Verified(List("records"), r)
        /\ found'[t].corrupted = (Corrupted(List("records"), r) # {})
        /\ found'[t].status = f.status
        /\ found'[t].decision = f.decision
    BY <1>0, <2>1 DEF FoundType
  <2>4. Seen(decisions, evidence, found'[t], r)
    BY <1>0, <2>2, <2>3 DEF Seen, SeenStatus, SeenDecision, SeenEvidence
  <2>. QED
    BY <2>1, <2>4
<1>. QED
  BY <1>1, <1>2, <1>3

\* Every other step keeps what a request has found out, or forgets it.
LEMMA FoundEffect ==
  ASSUME TypeOK, FoundSeen, NEW u \in Threads,
         \/ Accept(u) \/ RecordDecision(u) \/ ReloadDecisions(u) \/ Load(u)
         \/ Look(u) \/ Precheck(u) \/ EvaluateExisting(u) \/ AppendTo(u)
         \/ Fails(u) \/ Deliver(u),
         NEW t \in Threads
  PROVE  /\ found'[t] = Nothing \/ (found'[t] = found[t] /\ call'[t] = call[t])
         /\ pc'[t] = "idle" => found'[t] = Nothing
<1>. USE DEF Goto, Reply, Raise, Loaded
<1>1. CASE Accept(u)
  BY <1>1 DEF Accept, FoundSeen, TypeOK
<1>2. CASE RecordDecision(u) \/ ReloadDecisions(u)
  BY <1>2 DEF RecordDecision, ReloadDecisions, FoundSeen, TypeOK
<1>3. CASE Load(u)
  BY <1>3 DEF Load, LoadCheck, LoadRead, LoadFill, LoadedNone, FoundSeen, TypeOK
<1>4. CASE Look(u) \/ Precheck(u)
  BY <1>4 DEF Look, Precheck, FoundSeen, TypeOK
<1>5. CASE EvaluateExisting(u)
  BY <1>5 DEF EvaluateExisting, Verdict, FoundSeen, TypeOK
<1>6. CASE AppendTo(u)
  BY <1>6 DEF AppendTo, AppendLock, AppendRead, WriteEvidence, WriteClosure,
              Reload, FoundSeen, TypeOK
<1>7. CASE Fails(u) \/ Deliver(u)
  BY <1>7 DEF Fails, Deliver, FoundSeen, TypeOK
<1>. QED
  BY <1>1, <1>2, <1>3, <1>4, <1>5, <1>6, <1>7

LEMMA FoundInit == Init => FoundSeen
BY NothingSeen DEF Init, FoundSeen

LEMMA FoundStep == LockInv /\ CachesInv /\ FoundSeen /\ [Next]_vars => FoundSeen'
<1>. SUFFICES ASSUME LockInv, CachesInv, FoundSeen, [Next]_vars
              PROVE  FoundSeen'
  OBVIOUS
<1>. TypeOK /\ FilesGrow
  BY FileSteps DEF LockInv
<1>. SUFFICES ASSUME NEW t \in Threads
              PROVE  /\ pc'[t] = "idle" => found'[t] = Nothing
                     /\ Seen(decisions', evidence', found'[t], Resolution(t)')
  BY DEF FoundSeen
<1>1. ASSUME found'[t] = found[t], call'[t] = call[t]
      PROVE  Seen(decisions', evidence', found'[t], Resolution(t)')
  <2>1. Seen(decisions, evidence, found[t], Resolution(t))
    BY DEF FoundSeen
  <2>. QED
    BY <1>1, <2>1, SeenStays DEF Resolution
<1>2. ASSUME found'[t] = Nothing
      PROVE  Seen(decisions', evidence', found'[t], Resolution(t)')
  BY <1>2, NothingSeen
<1>3. ASSUME NEW u \in Threads,
             EvaluateStatus(u) \/ EvaluateHistory(u) \/ EvaluateRecords(u)
      PROVE  /\ pc'[t] = "idle" => found'[t] = Nothing
             /\ Seen(decisions', evidence', found'[t], Resolution(t)')
  <2>1. CASE u = t
    BY <1>3, <2>1, SeenLearned DEF Resolution, files
  <2>2. CASE u # t
    BY <1>1, <1>3, <2>2, SeenLearned DEF FoundSeen
  <2>. QED
    BY <2>1, <2>2
<1>4. ASSUME NEW u \in Threads,
             \/ Accept(u) \/ RecordDecision(u) \/ ReloadDecisions(u) \/ Load(u)
             \/ Look(u) \/ Precheck(u) \/ EvaluateExisting(u) \/ AppendTo(u)
             \/ Fails(u) \/ Deliver(u)
      PROVE  /\ pc'[t] = "idle" => found'[t] = Nothing
             /\ Seen(decisions', evidence', found'[t], Resolution(t)')
  BY <1>1, <1>2, <1>4, FoundEffect
<1>5. CASE Crash
  BY <1>2, <1>5 DEF Crash
<1>6. CASE Curate \/ UNCHANGED vars
  BY <1>1, <1>6 DEF Curate, threadVars, vars, FoundSeen
<1>. QED
  BY <1>3, <1>4, <1>5, <1>6 DEF Next, Handle, Evaluate

(* ---- The refinement. ---- *)

\* The instance's operators are this module's.
LEMMA SameOperators ==
  ASSUME NEW log, NEW r
  PROVE  /\ Ledger!OfResolution(log, r) = OfResolution(log, r)
         /\ Ledger!Verified(log, r) = Verified(log, r)
         /\ Ledger!Corrupted(log, r) = Corrupted(log, r)
         /\ Ledger!NewestDecision(log, r) = NewestDecision(log, r)
         /\ Ledger!EffectiveStatus(log, r) = EffectiveStatus(log, r)
         /\ Ledger!Blocked(r) = Blocked(r)
         /\ Ledger!Terminal = Terminal
         /\ \A d, v : Ledger!Closure(r, d, v) = Closure(r, d, v)
<1>1. Ledger!OfResolution(log, r) = OfResolution(log, r)
  BY DEF Ledger!OfResolution, OfResolution
<1>2. Ledger!Verified(log, r) = Verified(log, r)
  BY <1>1 DEF Ledger!Verified, Verified
<1>3. Ledger!Corrupted(log, r) = Corrupted(log, r)
  BY <1>1 DEF Ledger!Corrupted, Corrupted
<1>4. Ledger!History(log, r) = History(log, r)
  BY DEF Ledger!History, History
<1>5. Ledger!NewestDecision(log, r) = NewestDecision(log, r)
  BY <1>4 DEF Ledger!NewestDecision, NewestDecision, Ledger!Max, Max
<1>6. Ledger!EffectiveStatus(log, r) = EffectiveStatus(log, r)
  BY <1>4 DEF Ledger!EffectiveStatus, EffectiveStatus, Ledger!Max, Max
<1>7. Ledger!Blocked(r) = Blocked(r) /\ Ledger!Terminal = Terminal
  BY DEF Ledger!Blocked, Blocked, Ledger!Terminal, Terminal
<1>8. \A d, v : Ledger!Closure(r, d, v) = Closure(r, d, v)
  BY DEF Ledger!Closure, Closure
<1>. QED
  BY <1>1, <1>2, <1>3, <1>5, <1>6, <1>7, <1>8

LEMMA LedgerStep ==
  ASSUME LockInv, FoundSeen, [Next]_vars
  PROVE  Ledger!Next \/ UNCHANGED files
<1>1. ASSUME NEW t \in Threads, RecordDecision(t)
      PROVE  Ledger!Next
  BY <1>1 DEF RecordDecision, Ledger!Next
<1>2. CASE Curate
  BY <1>2 DEF Curate, Ledger!Next, Ledger!AddEvidence
<1>3. ASSUME NEW t \in Threads, WriteEvidence(t)
      PROVE  Ledger!Next
  BY <1>3, WriteAppends DEF WriteEvidence, Ledger!Next, Ledger!AddEvidence
<1>4. ASSUME NEW t \in Threads, WriteClosure(t)
      PROVE  Ledger!Next
  <2>. DEFINE f == found[t]  r == Resolution(t)
  <2>1. Ready(r, f, FALSE) /\ r \in Resolutions
    BY <1>4 DEF WriteClosure, LockInv, Checked, TypeOK
  <2>2. Seen(decisions, evidence, f, r)
    BY DEF FoundSeen
  <2>3. OfResolution(closures, r) = {}
    BY <1>4, WriteAppends
  <2>4. /\ closures' = Append(closures, Closure(r, f.decision, f.verified))
        /\ UNCHANGED <<decisions, evidence>>
    BY <1>4, WriteAppends DEF WriteClosure
  <2>. HIDE DEF f, r
  <2>5. PICK known \in Ledger!Prefixes(decisions) :
          EffectiveStatus(known, r) \in Terminal
    BY <2>1, <2>2 DEF Ready, Seen, SeenStatus
  <2>6. PICK last \in Ledger!Prefixes(decisions) :
          NewestDecision(last, r) = f.decision
    BY <2>1, <2>2 DEF Ready, Seen, SeenDecision
  <2>7. PICK shown \in Ledger!Prefixes(evidence) :
          Verified(shown, r) = f.verified /\ Corrupted(shown, r) = {}
    BY <2>1, <2>2 DEF Ready, Seen, SeenEvidence
  <2>8. Ledger!Close(r)
    <3>1. NewestDecision(last, r) # 0 /\ Verified(shown, r) # {} /\ ~Blocked(r)
      BY <2>1, <2>6, <2>7 DEF Ready
    <3>2. closures' = Append(closures, Closure(r, NewestDecision(last, r),
                                               Verified(shown, r)))
      BY <2>4, <2>6, <2>7
    <3>. QED
      BY <2>3, <2>4, <2>5, <2>6, <2>7, <3>1, <3>2, SameOperators DEF Ledger!Close
  <2>. QED
    BY <2>1, <2>8 DEF Ledger!Next
<1>5. CASE Crash \/ UNCHANGED vars
  BY <1>5 DEF Crash, vars, files
<1>. QED
  BY <1>1, <1>2, <1>3, <1>4, <1>5, QuietSteps DEF Next, Handle, AppendTo

\* The workflow is the abstract ledger: every closure rests on a terminal
\* status, a decision and undamaged verified evidence that were on record.
THEOREM Refinement == Spec => ImplementsLedger
<1>1. Init => Ledger!Init
  BY DEF Init
<1>2. LockInv /\ FoundSeen /\ [Next]_vars
        => [Ledger!Next]_<<decisions, evidence, closures>>
  BY LedgerStep DEF files
<1>. QED
  BY LockInit, LockStep, CachesInit, CachesStep, FoundInit, FoundStep, <1>1, <1>2,
     PTL DEF Spec, ImplementsLedger, Ledger!Spec

(* ---- The answers. ---- *)

Extends(old, new) == \A i \in DOMAIN old : i \in DOMAIN new /\ new[i] = old[i]

LEMMA GrownExtends ==
  ASSUME NEW T, NEW old \in Seq(T), NEW new, Grows(T, old, new)
  PROVE  Extends(old, new)
<1>1. ASSUME NEW e \in T, new = Append(old, e)
      PROVE  Extends(old, new)
  <2>1. /\ Len(old) \in Nat /\ DOMAIN old = 1 .. Len(old)
        /\ DOMAIN new = 1 .. (Len(old) + 1)
        /\ \A i \in 1 .. Len(old) : new[i] = old[i]
    BY <1>1, AppendProperties, LenProperties
  <2>. QED
    BY <2>1 DEF Extends
<1>. QED
  BY <1>1 DEF Grows, Extends

LEMMA PrefixExtends ==
  ASSUME NEW T, NEW log \in Seq(T), NEW known \in Ledger!Prefixes(log)
  PROVE  known \in Seq(T) /\ Extends(known, log)
<1>1. PICK k \in 0 .. Len(log) : known = SubSeq(log, 1, k)
  BY DEF Ledger!Prefixes
<1>2. /\ known \in Seq(T) /\ Len(known) = k
      /\ \A i \in 1 .. k : known[i] = log[i]
  BY <1>1, PrefixElements
<1>3. /\ DOMAIN known = 1 .. k
      /\ DOMAIN log = 1 .. Len(log) /\ Len(log) \in Nat
  BY <1>2, LenProperties
<1>. QED
  BY <1>2, <1>3 DEF Extends

\* What is on record in a log is on record in every longer one.
LEMMA RecordsStay ==
  ASSUME NEW old, NEW new, Extends(old, new), NEW r
  PROVE  /\ History(old, r) \subseteq History(new, r)
         /\ OfResolution(old, r) \subseteq OfResolution(new, r)
         /\ Verified(old, r) \subseteq Verified(new, r)
         /\ Corrupted(old, r) \subseteq Corrupted(new, r)
<1>1. OfResolution(old, r) \subseteq OfResolution(new, r)
  BY DEF Extends, OfResolution
<1>2. History(old, r) \subseteq History(new, r)
  BY DEF Extends, History
<1>3. Verified(old, r) \subseteq Verified(new, r)
  BY <1>1 DEF Extends, OfResolution, Verified
<1>4. Corrupted(old, r) \subseteq Corrupted(new, r)
  BY <1>1 DEF Extends, OfResolution, Corrupted
<1>. QED
  BY <1>1, <1>2, <1>3, <1>4

LEMMA FilesExtend ==
  ASSUME TypeOK, FilesGrow
  PROVE  /\ Extends(decisions, decisions') /\ Extends(evidence, evidence')
         /\ Extends(closures, closures')
         /\ \A s \in Stores : Extends(File[s], File'[s])
<1>1. /\ Extends(decisions, decisions') /\ Extends(evidence, evidence')
      /\ Extends(closures, closures')
  BY GrownExtends DEF TypeOK, FilesGrow
<1>2. /\ Extends(File["decisions"], File'["decisions"])
      /\ Extends(File["evidence"], File'["evidence"])
      /\ Extends(File["closures"], File'["closures"])
  BY <1>1 DEF File
<1>. QED
  BY <1>1, <1>2 DEF Stores

\* A list that was read shows nothing that is not in the file.
LEMMA ListExtends ==
  ASSUME LockInv, CachesInv, NEW w \in Reading, cache[StoreAt[w]] # NotLoaded
  PROVE  /\ w = "look_evidence" => Extends(List(w), evidence)
         /\ w = "precheck" => Extends(List(w), closures)
<1>1. List(w) \in Lists[StoreAt[w]] /\ Prefix(List(w), File[StoreAt[w]])
  BY ListFacts
<1>2. CASE w = "look_evidence"
  <2>1. List(w) \in Ledger!Prefixes(evidence)
    BY <1>1, <1>2, StoreOfRead, FileOfStore, ListIsPrefix DEF LockInv, TypeOK
  <2>. QED
    BY <1>2, <2>1, PrefixExtends DEF LockInv, TypeOK
<1>3. CASE w = "precheck"
  <2>1. List(w) \in Ledger!Prefixes(closures)
    BY <1>1, <1>3, StoreOfRead, FileOfStore, ListIsPrefix DEF LockInv, TypeOK
  <2>. QED
    BY <1>3, <2>1, PrefixExtends DEF LockInv, TypeOK
<1>. QED
  BY <1>2, <1>3

\* A thread that has appended finds its record where it put it.
Appended(t, at) ==
  /\ at \in DOMAIN File[Target(t)]
  /\ File[Target(t)][at].resolution = Resolution(t)
  /\ Target(t) = "closures" =>
       closures[at] = Closure(Resolution(t), found[t].decision, found[t].verified)

AppendedPlace ==
  \A t \in Threads : pc[t] = "reload" => Appended(t, Len(parsed[t]) + 1)

AnswersInv == AppendedPlace /\ AnswersJustified

LEMMA AppendedStays ==
  ASSUME TypeOK, FilesGrow, NEW t \in Threads, NEW at, Appended(t, at),
         UNCHANGED <<call[t], found[t]>>
  PROVE  Appended(t, at)'
<1>1. Target(t) \in Stores /\ Target(t)' = Target(t) /\ Resolution(t)' = Resolution(t)
  BY DEF Target, Stores, Resolution
<1>2. /\ at \in DOMAIN File'[Target(t)]
      /\ File'[Target(t)][at] = File[Target(t)][at]
  BY <1>1, FilesExtend DEF Extends, Appended
<1>3. Target(t) = "closures" => closures'[at] = closures[at]
  BY <1>2, FileOfStore DEF File
<1>. QED
  BY <1>1, <1>2, <1>3 DEF Appended

LEMMA AnswerStays ==
  ASSUME TypeOK, FilesGrow, NEW t \in Threads, AnswerJustified(t),
         UNCHANGED <<call[t], found[t], reply[t]>>
  PROVE  AnswerJustified(t)'
<1>. DEFINE r == Resolution(t)
<1>1. Target(t)' = Target(t) /\ r' = r
  BY DEF Target, Resolution
<1>2. /\ OfResolution(closures, r) \subseteq OfResolution(closures', r)
      /\ History(decisions, r) \subseteq History(decisions', r)
      /\ Verified(evidence, r) \subseteq Verified(evidence', r)
      /\ Corrupted(evidence, r) \subseteq Corrupted(evidence', r)
  BY FilesExtend, RecordsStay
<1>3. reply[t].kind = "appended" => Appended(t, reply[t].at)'
  BY AppendedStays DEF AnswerJustified, Appended
<1>. QED
  BY <1>1, <1>2, <1>3 DEF AnswerJustified, Appended

Locals(t) == <<pc[t], call[t], parsed[t], found[t], reply[t]>>

\* A step of one thread leaves what the others are doing alone.
LEMMA OthersStay ==
  ASSUME TypeOK, NEW u \in Threads,
         Accept(u) \/ RecordDecision(u) \/ Handle(u),
         NEW t \in Threads, t # u
  PROVE  UNCHANGED Locals(t)
<1>. USE DEF Goto, Reply, Raise, Loaded, Learn, Locals, TypeOK
<1>1. CASE Accept(u)
  BY <1>1 DEF Accept
<1>2. CASE RecordDecision(u) \/ ReloadDecisions(u)
  BY <1>2 DEF RecordDecision, ReloadDecisions
<1>3. CASE Load(u)
  BY <1>3 DEF Load, LoadCheck, LoadRead, LoadFill, LoadedNone
<1>4. CASE Look(u) \/ Precheck(u)
  BY <1>4 DEF Look, Precheck
<1>5. CASE EvaluateStatus(u) \/ EvaluateHistory(u) \/ EvaluateRecords(u)
  BY <1>5 DEF EvaluateStatus, EvaluateHistory, EvaluateRecords
<1>6. CASE EvaluateExisting(u)
  BY <1>6 DEF EvaluateExisting, Verdict
<1>7. CASE AppendTo(u)
  BY <1>7 DEF AppendTo, AppendLock, AppendRead, WriteEvidence, WriteClosure, Reload
<1>8. CASE Fails(u) \/ Deliver(u)
  BY <1>8 DEF Fails, Deliver
<1>. QED
  BY <1>1, <1>2, <1>3, <1>4, <1>5, <1>6, <1>7, <1>8 DEF Handle, Evaluate

\* A thread that is not writing reaches "reload" by no step.
LEMMA ReloadReached ==
  ASSUME TypeOK, NEW t \in Threads,
         Accept(t) \/ RecordDecision(t) \/ Handle(t), pc'[t] = "reload"
  PROVE  WriteEvidence(t) \/ WriteClosure(t)
<1>. USE CallsAssumption, ReadingSet DEF Goto, Reply, Raise, Loaded, TypeOK
<1>1. CASE Accept(t)
  <2>. PICK c \in Calls : pc'[t] \in {"done", FirstStep(c)}
    BY <1>1 DEF Accept
  <2>1. FirstStep(c) # "reload"
    BY DEF FirstStep, Operations
  <2>. HIDE DEF FirstStep
  <2>. QED
    BY <2>1
<1>2. CASE RecordDecision(t) \/ ReloadDecisions(t)
  BY <1>2 DEF RecordDecision, ReloadDecisions
<1>3. CASE Load(t)
  BY <1>3 DEF Load, LoadCheck, LoadRead, LoadFill, LoadedNone
<1>4. CASE Look(t) \/ Precheck(t)
  BY <1>4 DEF Look, Precheck
<1>5. CASE EvaluateStatus(t) \/ EvaluateHistory(t) \/ EvaluateRecords(t)
  BY <1>5 DEF EvaluateStatus, EvaluateHistory, EvaluateRecords
<1>6. CASE EvaluateExisting(t)
  BY <1>6 DEF EvaluateExisting, Verdict
<1>7. CASE AppendTo(t)
  BY <1>7 DEF AppendTo, AppendLock, AppendRead, Reload
<1>8. CASE Fails(t) \/ Deliver(t)
  BY <1>8 DEF Fails, Deliver
<1>. QED
  BY <1>1, <1>2, <1>3, <1>4, <1>5, <1>6, <1>7, <1>8 DEF Handle, Evaluate

LEMMA JustAppended ==
  ASSUME LockInv, NEW t \in Threads, WriteEvidence(t) \/ WriteClosure(t)
  PROVE  Appended(t, Len(parsed[t]) + 1)'
<1>1. CASE WriteEvidence(t)
  <2>1. /\ Target(t) = "evidence" /\ parsed[t] = evidence
        /\ Target(t)' = Target(t) /\ Resolution(t)' = Resolution(t)
        /\ UNCHANGED <<call, parsed, found>>
    BY <1>1, FileOfStore DEF WriteEvidence, LockInv, LockHeld, Target, Resolution
  <2>2. /\ Len(evidence) + 1 \in DOMAIN evidence'
        /\ evidence'[Len(evidence) + 1] = NewEvidence(Resolution(t))
    BY <1>1, WriteAppends, AppendProperties, LenProperties DEF LockInv, TypeOK
  <2>. QED
    BY <2>1, <2>2 DEF Appended, File, NewEvidence
<1>2. CASE WriteClosure(t)
  <2>1. /\ Target(t) = "closures" /\ parsed[t] = closures
        /\ Target(t)' = Target(t) /\ Resolution(t)' = Resolution(t)
        /\ UNCHANGED <<call, parsed, found>>
    BY <1>2, FileOfStore DEF WriteClosure, LockInv, LockHeld, Target, Resolution
  <2>2. /\ Len(closures) + 1 \in DOMAIN closures'
        /\ closures'[Len(closures) + 1]
             = Closure(Resolution(t), found[t].decision, found[t].verified)
    BY <1>2, WriteAppends, AppendProperties, LenProperties DEF LockInv, TypeOK
  <2>. QED
    BY <2>1, <2>2 DEF Appended, File, Closure
<1>. QED
  BY <1>1, <1>2

LEMMA PlaceStep == LockInv /\ AppendedPlace /\ [Next]_vars => AppendedPlace'
<1>. SUFFICES ASSUME LockInv, AppendedPlace, [Next]_vars,
                     NEW t \in Threads, pc'[t] = "reload"
              PROVE  Appended(t, Len(parsed[t]) + 1)'
  BY DEF AppendedPlace
<1>. TypeOK /\ FilesGrow
  BY FileSteps DEF LockInv
<1>1. CASE UNCHANGED Locals(t)
  <2>1. Appended(t, Len(parsed[t]) + 1)
    BY <1>1 DEF AppendedPlace, Locals
  <2>. QED
    BY <1>1, <2>1, AppendedStays DEF Locals
<1>2. CASE WriteEvidence(t) \/ WriteClosure(t)
  BY <1>2, JustAppended
<1>3. CASE Curate \/ UNCHANGED vars
  BY <1>1, <1>3 DEF Curate, threadVars, vars, Locals
<1>4. ~Crash
  BY DEF Crash
<1>. QED
  BY <1>1, <1>2, <1>3, <1>4, OthersStay, ReloadReached DEF Next

\* A resolution is called ready only with a decision and evidence on record.
LEMMA ReadyIsTrue ==
  ASSUME LockInv, FoundSeen, NEW t \in Threads,
         Ready(Resolution(t), found[t], FALSE)
  PROVE  /\ found[t].decision \in History(decisions, Resolution(t))
         /\ found[t].verified \cap Verified(evidence, Resolution(t)) # {}
<1>. DEFINE f == found[t]  r == Resolution(t)
<1>0. Seen(decisions, evidence, f, r) /\ f.decision # 0 /\ f.verified # {}
  BY DEF FoundSeen, Ready
<1>. HIDE DEF f, r
<1>1. PICK known \in Ledger!Prefixes(decisions) :
        NewestDecision(known, r) = f.decision
  BY <1>0 DEF Seen, SeenDecision
<1>2. known \in Seq(DecisionType) /\ Extends(known, decisions)
  BY PrefixExtends DEF LockInv, TypeOK
<1>3. f.decision \in History(decisions, r)
  BY <1>0, <1>1, <1>2, NewestIsDecision, RecordsStay
<1>4. PICK shown \in Ledger!Prefixes(evidence) : Verified(shown, r) = f.verified
  BY <1>0 DEF Seen, SeenEvidence
<1>5. Extends(shown, evidence)
  BY PrefixExtends DEF LockInv, TypeOK
<1>6. f.verified \subseteq Verified(evidence, r)
  BY <1>4, <1>5, RecordsStay
<1>. QED
  BY <1>0, <1>3, <1>6 DEF f, r

LEMMA AnswersStep ==
  /\ LockInv /\ CachesInv /\ FoundSeen /\ AnswersInv /\ [Next]_vars
  => AnswersJustified'
<1>. SUFFICES ASSUME LockInv, CachesInv, FoundSeen, AnswersInv, [Next]_vars,
                     NEW t \in Threads, pc'[t] = "done", call'[t] # NoCall
              PROVE  AnswerJustified(t)'
  BY DEF AnswersJustified
<1>. TypeOK /\ FilesGrow
  BY FileSteps DEF LockInv
<1>. DEFINE r == Resolution(t)
<1>. USE DEF Goto, Reply, Raise, Answer, Loaded
<1>1. CASE UNCHANGED Locals(t)
  BY <1>1, AnswerStays DEF AnswersInv, AnswersJustified, Locals
<1>2. CASE \/ Accept(t) \/ ReloadDecisions(t) \/ LoadedNone(t) \/ Fails(t)
  <2>1. CASE reply'[t].kind \in {"not_found", "blocked", "decided", "error"}
    BY <2>1 DEF AnswerJustified
  <2>2. CASE Accept(t)
    <3>1. PICK c \in Calls :
            \/ reply' = [reply EXCEPT ![t] = Answer("not_found", 0)]
            \/ reply' = [reply EXCEPT ![t] = Answer("blocked", 0)]
            \/ pc' = [pc EXCEPT ![t] = FirstStep(c)]
      BY <2>2 DEF Accept
    <3>2. FirstStep(c) # "done"
      BY CallsAssumption DEF FirstStep, Operations
    <3>. HIDE DEF FirstStep
    <3>. QED
      BY <2>1, <3>1, <3>2 DEF TypeOK
  <2>3. CASE ReloadDecisions(t) \/ LoadedNone(t) \/ Fails(t)
    BY <2>1, <2>3 DEF ReloadDecisions, LoadedNone, Fails, TypeOK
  <2>. QED
    BY <1>2, <2>2, <2>3
<1>3. CASE Look(t)
  <2>1. PICK w \in Looking :
          /\ Loaded(t, w)
          /\ \/ reply'[t].kind = "shown"
             \/ /\ w = "look_evidence"
                /\ Corrupted(List(w), r) # {}
                /\ reply'[t].kind = "integrity"
    BY <1>3 DEF Look, TypeOK
  <2>2. w \in Reading
    BY ReadingSet DEF Looking
  <2>3. CASE reply'[t].kind = "shown"
    BY <2>3 DEF AnswerJustified
  <2>4. CASE /\ w = "look_evidence" /\ Corrupted(List(w), r) # {}
             /\ reply'[t].kind = "integrity"
    <3>1. Corrupted(evidence, r) # {}
      BY <2>1, <2>2, <2>4, ListExtends, RecordsStay
    <3>2. r' = r /\ UNCHANGED evidence
      BY <2>1 DEF Resolution, files
    <3>. QED
      BY <2>4, <3>1, <3>2 DEF AnswerJustified
  <2>. QED
    BY <2>1, <2>3, <2>4
<1>4. CASE Precheck(t)
  <2>1. /\ OfResolution(List("precheck"), r) # {}
        /\ reply'[t].kind = "duplicate"
        /\ cache[StoreAt["precheck"]] # NotLoaded
        /\ r' = r /\ UNCHANGED closures
    BY <1>4 DEF Precheck, Resolution, files, TypeOK
  <2>2. OfResolution(closures, r) # {}
    BY <2>1, ReadingSet, ListExtends, RecordsStay
  <2>. QED
    BY <2>1, <2>2 DEF AnswerJustified
<1>5. CASE EvaluateExisting(t)
  <2>1. /\ r' = r /\ UNCHANGED <<decisions, evidence>>
        /\ \/ reply'[t].kind = "not_ready"
           \/ /\ Ready(r, found[t], Closed(t))
              /\ reply'[t].kind = "ready"
              /\ reply'[t].at = found[t].decision
              /\ found'[t] = found[t]
    BY <1>5 DEF EvaluateExisting, Verdict, Resolution, files, TypeOK
  <2>2. CASE reply'[t].kind = "not_ready"
    BY <2>2 DEF AnswerJustified
  <2>3. CASE /\ Ready(r, found[t], Closed(t))
             /\ reply'[t].kind = "ready"
             /\ reply'[t].at = found[t].decision
             /\ found'[t] = found[t]
    <3>1. Ready(r, found[t], FALSE)
      BY <2>3 DEF Ready
    <3>2. /\ found[t].decision \in History(decisions, r)
          /\ found[t].verified \cap Verified(evidence, r) # {}
      BY <3>1, ReadyIsTrue
    <3>. QED
      BY <2>1, <2>3, <3>2 DEF AnswerJustified
  <2>. QED
    BY <2>1, <2>2, <2>3
<1>6. CASE AppendRead(t)
  <2>1. /\ OfResolution(closures, r) # {}
        /\ reply'[t].kind = "duplicate"
        /\ r' = r /\ UNCHANGED closures
    BY <1>6 DEF AppendRead, Resolution, files, TypeOK
  <2>. QED
    BY <2>1 DEF AnswerJustified
<1>7. CASE Reload(t)
  <2>1. /\ reply'[t].kind = "appended" /\ reply'[t].at = Len(parsed[t]) + 1
        /\ UNCHANGED <<call, found>>
    BY <1>7 DEF Reload, TypeOK
  <2>2. Appended(t, Len(parsed[t]) + 1)
    BY <1>7 DEF Reload, AnswersInv, AppendedPlace
  <2>3. Target(t)' = Target(t) /\ r' = r /\ UNCHANGED <<closures, File>>
    BY <1>7 DEF Reload, Target, Resolution, files, File
  <2>. QED
    BY <2>1, <2>2, <2>3 DEF AnswerJustified, Appended
<1>8. CASE \/ RecordDecision(t) \/ LoadCheck(t) \/ LoadRead(t) \/ LoadFill(t)
           \/ AppendLock(t) \/ WriteEvidence(t) \/ WriteClosure(t)
           \/ EvaluateStatus(t) \/ EvaluateHistory(t) \/ EvaluateRecords(t)
           \/ Deliver(t) \/ Crash
  BY <1>8, ReadingSet DEF RecordDecision, LoadCheck, LoadRead, LoadFill, AppendLock,
     WriteEvidence, WriteClosure, EvaluateStatus, EvaluateHistory, EvaluateRecords,
     Deliver, Crash, TypeOK
<1>9. CASE Curate \/ UNCHANGED vars
  BY <1>1, <1>9 DEF Curate, threadVars, vars, Locals
<1>. QED
  BY <1>1, <1>2, <1>3, <1>4, <1>5, <1>6, <1>7, <1>8, <1>9, OthersStay
     DEF Next, Handle, Load, Evaluate, AppendTo

LEMMA AnswersInit == Init => AnswersInv
BY DEF Init, AnswersInv, AppendedPlace, AnswersJustified

\* Every answer is backed by the files, also when it rests on stale caches.
THEOREM AnswersAreTrue == Spec => []AnswersJustified
<1>1. Init => LockInv /\ CachesInv /\ FoundSeen /\ AnswersInv
  BY LockInit, CachesInit, FoundInit, AnswersInit
<1>2. LockInv /\ CachesInv /\ FoundSeen /\ AnswersInv /\ [Next]_vars
        => (LockInv /\ CachesInv /\ FoundSeen /\ AnswersInv)'
  BY LockStep, CachesStep, FoundStep, PlaceStep, AnswersStep DEF AnswersInv
<1>3. AnswersInv => AnswersJustified
  BY DEF AnswersInv
<1>. QED
  BY <1>1, <1>2, <1>3, PTL DEF Spec
===============================================================================
