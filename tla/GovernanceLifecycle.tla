------------------------ MODULE GovernanceLifecycle ------------------------
(***************************************************************************)
(* The three governance lifecycles and the pure functions that read an     *)
(* append-only event log (src/backend/governance/{enums,transitions,       *)
(* models,service}.py).  A log is a sequence of events, oldest first; a    *)
(* status is never stored, it is always derived from the log.              *)
(***************************************************************************)
EXTENDS Naturals, Sequences, FiniteSetsExt

CONSTANTS
  Commands,     \* the commands clients may send
  BlankKey      \* the empty idempotency key, which no lookup ever finds

Groups == {"review", "publication", "resolution"}

InitialStatus ==
  [review |-> "draft", publication |-> "draft", resolution |-> "open"]

Transitions ==
  [review      |-> {<<"draft", "under_review">>,
                    <<"under_review", "approved">>,
                    <<"under_review", "rejected">>},
   publication |-> {<<"draft", "active">>,
                    <<"active", "superseded">>,
                    <<"active", "archived">>},
   resolution  |-> {<<"open", "resolved">>,
                    <<"open", "rejected">>,
                    <<"open", "waived">>}]

Statuses == {"draft", "under_review", "approved", "rejected", "active",
             "superseded", "archived", "open", "resolved", "waived"}

RestrictedTypes == {"washer_resolution"}

ASSUME CommandsAssumption ==
  \A c \in Commands :
    /\ DOMAIN c = {"aggregate", "type", "group", "new", "decision", "key",
                   "body", "complete", "via"}
    /\ c.group \in Groups
    /\ c.new \in Statuses
    /\ c.via \in {"http", "internal"}
    /\ c.complete \in BOOLEAN

----------------------------------------------------------------------------
(* Reading the log. *)

EventHistory(log, a, g) ==
  {i \in DOMAIN log : log[i].aggregate = a /\ log[i].group = g}

EffectiveStatus(log, a, g) ==
  IF EventHistory(log, a, g) = {}
    THEN InitialStatus[g]
    ELSE log[Max(EventHistory(log, a, g))].new

FindByKey(log, k) == {i \in DOMAIN log : log[i].key = k /\ k # BlankKey}

FindByDecision(log, d) == {i \in DOMAIN log : log[i].decision = d}

Legal(g, previous, new) == <<previous, new>> \in Transitions[g]

\* The generic HTTP surface may not write an externally owned type.
ExternallyOwned(c) == c.via = "http" /\ c.type \in RestrictedTypes

\* Everything of a request that determines its effect; previous_status,
\* event_id and occurred_at take no part in the comparison.
Normalized(r) ==
  <<r.aggregate, r.type, r.group, r.decision, r.new, r.body>>

EventOf(c, previous) ==
  [aggregate |-> c.aggregate, type |-> c.type, group |-> c.group,
   previous |-> previous, new |-> c.new, decision |-> c.decision,
   key |-> c.key, body |-> c.body]
=============================================================================
