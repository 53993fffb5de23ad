----------------------------- MODULE WasherLedger -----------------------------
(***************************************************************************)
(* What the washer decision workflow really promises under concurrency: an *)
(* append-only ledger with one decision per idempotency key, each a legal  *)
(* move from a status its resolution had at some earlier length of the     *)
(* ledger.  That it is the current status is not promised: the status is   *)
(* read before the lock is taken.  WasherDecisions implements this module  *)
(* and WasherGovernanceSync is built on it.                                *)
(***************************************************************************)
EXTENDS WasherLifecycle

VARIABLE log

StatusAt(k, r) == EffectiveStatus(SubSeq(log, 1, k), r.resolution)

Record(r) ==
  /\ r.key # BlankKey
  /\ FindByKey(log, r.key) = {}
  /\ r.resolution \in Resolutions
  /\ r.complete
  /\ \E k \in 0 .. Len(log) :
       /\ Legal(StatusAt(k, r), r.new)
       /\ log' = Append(log, DecisionOf(r, StatusAt(k, r)))

Init == log = <<>>

Next == \E r \in Requests : Record(r)

Spec == Init /\ [][Next]_log
=============================================================================
