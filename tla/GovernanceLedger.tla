-------------------------- MODULE GovernanceLedger --------------------------
(***************************************************************************)
(* What the governance store promises a reader of ADR-0014: a ledger to    *)
(* which one decision at a time is added, each under a key and a decision  *)
(* id never used before and each a legal move from the aggregate's         *)
(* current status.  GovernanceService implements it as long as requests    *)
(* do not overlap.                                                         *)
(***************************************************************************)
EXTENDS GovernanceLifecycle

VARIABLE log

Record(c) ==
  LET previous == EffectiveStatus(log, c.aggregate, c.group) IN
  /\ FindByKey(log, c.key) = {}
  /\ FindByDecision(log, c.decision) = {}
  /\ Legal(c.group, previous, c.new)
  /\ c.complete
  /\ ~ExternallyOwned(c)
  /\ log' = Append(log, EventOf(c, previous))

Init == log = <<>>

Next == \E c \in Commands : Record(c)

Spec == Init /\ [][Next]_log
=============================================================================
