---------------------------- MODULE EventDelivery ----------------------------
(***************************************************************************)
(* What the settlement listener promises: the final vault events that      *)
(* belong to our transfers are delivered to the engine in chain order,     *)
(* each exactly once, and only final ones.                                 *)
(***************************************************************************)
EXTENDS Integers, Sequences, SequencesExt

CONSTANT Events

VARIABLES
    final,       \* the logs of our events in final blocks
    delivered    \* the events applied to transfers, in commit order

\* A log is an event at its place in the chain.
Logs == [event : Events, block : Nat, index : Nat]

\* The order in which the chain holds logs.
Earlier(a, b) == a.block < b.block \/ (a.block = b.block /\ a.index < b.index)

isDelivered(e) == e \in ToSet(delivered)

Init ==
    /\ final = {}
    /\ delivered = <<>>

\* The chain makes more logs final, behind those that are; it never takes a
\* final one back.
Finalise ==
    /\ final' \in SUBSET Logs
    /\ final \subseteq final'
    /\ final # final'
    /\ \A log \in final, new \in final' \ final : Earlier(log, new)
    /\ UNCHANGED delivered

\* The earliest final event that was not delivered is delivered.
Deliver ==
    /\ \E log \in final :
          /\ ~isDelivered(log.event)
          /\ \A other \in final : Earlier(other, log) => isDelivered(other.event)
          /\ delivered' = Append(delivered, log.event)
    /\ UNCHANGED final

Next == Finalise \/ Deliver

Spec == Init /\ [][Next]_<<final, delivered>>
=============================================================================
