------------------------- MODULE WasherClosureLedger -------------------------
(***************************************************************************)
(* What controlled closure really promises under concurrency: a resolution *)
(* is closed at most once, never while its source record is blocked, and a *)
(* closure rests on a terminal status, a decision and verified evidence    *)
(* that each were on record at some moment.  It does not promise that they *)
(* were on record together, or that the decision cited is the one that     *)
(* made the status terminal.  WasherClosure implements this module.        *)
(***************************************************************************)
EXTENDS WasherEvidence

VARIABLES decisions, evidence, closures

Prefixes(s) == {SubSeq(s, 1, k) : k \in 0 .. Len(s)}

Decisions == INSTANCE WasherLedger WITH log <- decisions

Decide == Decisions!Next /\ UNCHANGED <<evidence, closures>>

AddEvidence ==
  /\ \E e \in Evidence : evidence' = Append(evidence, e)
  /\ UNCHANGED <<decisions, closures>>

Close(r) ==
  /\ OfResolution(closures, r) = {}
  /\ ~Blocked(r)
  /\ \E known \in Prefixes(decisions) : EffectiveStatus(known, r) \in Terminal
  /\ \E known \in Prefixes(decisions), shown \in Prefixes(evidence) :
       /\ NewestDecision(known, r) # 0
       /\ Verified(shown, r) # {}
       /\ Corrupted(shown, r) = {}
       /\ closures' = Append(closures, Closure(r, NewestDecision(known, r),
                                               Verified(shown, r)))
  /\ UNCHANGED <<decisions, evidence>>

Init == decisions = <<>> /\ evidence = <<>> /\ closures = <<>>

Next == Decide \/ AddEvidence \/ \E r \in Resolutions : Close(r)

Spec == Init /\ [][Next]_<<decisions, evidence, closures>>
=============================================================================
