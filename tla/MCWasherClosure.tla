--------------------------- MODULE MCWasherClosure ---------------------------
(***************************************************************************)
(* Instances of WasherClosure: one open, one blocked and one unknown       *)
(* resolution, a decision that keeps the open one active and one that      *)
(* ends it, verified and damaged evidence from outside.                    *)
(***************************************************************************)
EXTENDS WasherClosure, TLC

CONSTANTS t1, t2, r1, rb, rx, k0, k1, k2

MCResolutions == {r1, rb}

MCSource == [r \in MCResolutions |->
               IF r = rb THEN "blocked_authoritative_source" ELSE "open"]

Request(new, key) ==
  [resolution |-> r1, new |-> new, key |-> key, body |-> "b", complete |-> TRUE]

\* The decision that ends the resolution.
TerminalRequests == {Request("resolved", k1)}

\* That decision and one that keeps the resolution active.
MCRequests == {Request("resolved", k1), Request("under_review", k2)}

Record(r, status, intact) ==
  [resolution |-> r, status |-> status, intact |-> intact]

MCEvidence == {NewEvidence(r) : r \in MCResolutions}
                \cup {Record(r1, "verified", TRUE), Record(r1, "verified", FALSE)}

Call(op, r) == [op |-> op, resolution |-> r]

ThreadSymmetry == Permutations(Threads)

\* Every operation, and the requests that are refused at once.
AllCalls ==
  {Call("evidence", r1), Call("readiness", r1), Call("close", r1),
   Call("look_evidence", r1),
   Call("close", rb), Call("readiness", rx)}

\* What competes for one closure.
ClosingCalls == {Call("close", r1), Call("look_decisions", r1)}
==============================================================================
