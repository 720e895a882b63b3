------------------------------ MODULE MCTrust ------------------------------
(* An instance of Trust for TLC: key 1 is the root, 2 and 3 are successors,   *)
(* 4 belongs to whoever may revoke.                                           *)
EXTENDS Trust

MCPins ==
  { [key |-> 1, principal |-> "A", scope |-> {"record", "release", "transition"}],
    [key |-> 1, principal |-> "B", scope |-> {"record"}],
    [key |-> 2, principal |-> "A", scope |-> {"record", "transition"}],
    [key |-> 4, principal |-> "A", scope |-> {"revocation", "witness"}] }

T(o, n, h, v) == [old |-> o, new |-> n, heads |-> h, releases |-> h, valid |-> v]

MCTransitions ==
  { T(1, 2, {0}, TRUE), T(1, 3, {}, TRUE), T(2, 3, {1}, TRUE), T(3, 1, {0}, TRUE) }

R(o, k, h, s, v) ==
  [revoker |-> o, revoked |-> k, heads |-> h, releases |-> h, successors |-> s, valid |-> v]

MCRevocations ==
  { R(1, 1, {0}, {}, TRUE), R(4, 1, {1}, {2}, TRUE), R(4, 1, {0, 1}, {3}, TRUE),
    R(4, 2, {0}, {}, TRUE), R(2, 3, {}, {}, FALSE) }

MCObjects ==
  [kind : {"record", "release"}, id : {0, 1}] \cup {[kind |-> "witness", id |-> 0]}
=============================================================================
