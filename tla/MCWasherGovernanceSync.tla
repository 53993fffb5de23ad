----------------------- MODULE MCWasherGovernanceSync -----------------------
(***************************************************************************)
(* Instances of WasherGovernanceSync: one resolution with two rival        *)
(* terminal decisions and moves that have no governance counterpart, and   *)
(* another client of the governance API, which moves the same aggregate id *)
(* under another type and with one of the synchronization keys.            *)
(***************************************************************************)
EXTENDS WasherGovernanceSync

CONSTANTS t1, tool, r1, k0, k1, k2, k3

Request(new, key) ==
  [resolution |-> r1, new |-> new, key |-> key, body |-> "b", complete |-> TRUE]

MCRequests == {Request("resolved", k1), Request("accepted_as_is", k2),
               Request("under_review", k3), Request("open", k1)}

MCResolutions == {r1}

MCSource == [r \in MCResolutions |-> "open"]

Other(aggregate, key) ==
  [aggregate |-> aggregate, type |-> "joint", group |-> "resolution",
   new |-> "resolved", decision |-> 0, key |-> key,
   body |-> [source |-> 0, key |-> k0, stamp |-> tool],
   complete |-> TRUE, via |-> "http"]

MCOthers == {Other(r1, SyncKey(k1))}
=============================================================================
