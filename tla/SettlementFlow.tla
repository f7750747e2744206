--------------------------- MODULE SettlementFlow ---------------------------
(***************************************************************************)
(* On-chain settlement from end to end: the transfer engine, the operator  *)
(* that calls the vault (settlement/client.rs), the vault itself, and the  *)
(* listener as EventDelivery promises it: the final events of a transfer   *)
(* reach the engine in chain order, each once, at any later time.          *)
(*                                                                         *)
(* The log of a transfer's ref is what the vault knows of it, so the vault *)
(* has no other state here.  A call of the client that is repeated, or     *)
(* whose answer is lost, changes nothing more: the vault refuses a second  *)
(* success, so the calls are their first successes.                        *)
(***************************************************************************)
EXTENDS TransferEngine

CONSTANT
    Ordered     \* transfers for which the operator keeps to the documented order

ASSUME OrderedAssumption == Ordered \subseteq Transfers

VARIABLES
    log,        \* the final vault events of each transfer's ref, in chain order
    rows        \* settlement_events: what was done with each one delivered

flowVars == <<vars, log, rows>>
-----------------------------------------------------------------------------
(* The vault: which event may follow which.                                *)

LastEvent(t) == IF log[t] = <<>> THEN "none" ELSE log[t][Len(log[t])]

\* A ref is locked once, then settled or cancelled, then returned, then refunded.
VaultEvents ==
    {"QuoteLocked", "SettlementInitiated", "SettlementReturned",
     "SettlementRefunded", "QuoteCancelled", "ExpiredQuoteCancelled"}

VaultAccepts(last, event) ==
    \/ last = "none" /\ event = "QuoteLocked"
    \/ /\ last = "QuoteLocked"
       /\ event \in {"SettlementInitiated", "QuoteCancelled", "ExpiredQuoteCancelled"}
    \/ last = "SettlementInitiated" /\ event = "SettlementReturned"
    \/ last = "SettlementReturned" /\ event = "SettlementRefunded"

Emit(t, event) ==
    /\ onchain
    /\ status[t] # None
    /\ VaultAccepts(LastEvent(t), event)
    /\ log' = [log EXCEPT ![t] = Append(@, event)]
    /\ UNCHANGED <<vars, rows>>

\* The vault does not know the backend's statuses, so only the operator's own
\* order keeps a call to those it is meant for.
InOrder(t, statuses) == t \in Ordered => status[t] \in statuses
-----------------------------------------------------------------------------
(* The operator's client and the partner.                                  *)

\* "Call when the customer confirms, before `expires_at`."
lock_quote(t) == Emit(t, "QuoteLocked")

\* Of a funded transfer: the event's effect is "SETTLING -> SETTLED".
settle(t) ==
    /\ Emit(t, "SettlementInitiated")
    /\ InOrder(t, {"FUNDED", "SETTLING"})

\* "For a transfer that expired or was rejected after its quote was locked."
cancel_quote(t) ==
    /\ \E event \in {"QuoteCancelled", "ExpiredQuoteCancelled"} : Emit(t, event)
    /\ InOrder(t, {"EXPIRED", "REJECTED"})

\* The partner's payout failed and it sends the tokens back.
returnSettlement(t) == Emit(t, "SettlementReturned")

\* "After the partner's `returnSettlement`": the vault allows nothing else.
refund(t) == Emit(t, "SettlementRefunded")
-----------------------------------------------------------------------------
(* The listener's transaction for one event: handle.                       *)

target_of(event) ==
    CASE event = "SettlementInitiated"   -> "Settled"
      [] event = "SettlementReturned"    -> "Reversing"
      [] event = "SettlementRefunded"    -> "Reversed"
      [] event = "QuoteCancelled"        -> "Cancelled"
      [] event = "ExpiredQuoteCancelled" -> "CancelledExpired"

\* The events of t that are final and not yet in settlement_events.
InTransit(t) == Len(rows[t]) < Len(log[t])

\* The row of the next event commits with what the event does to the transfer.
handle(t) ==
    /\ InTransit(t)
    /\ UNCHANGED log
    /\ LET event == log[t][Len(rows[t]) + 1]
       IN  IF event = "QuoteLocked"
             THEN /\ rows' = [rows EXCEPT ![t] = Append(@, "recorded")]
                  /\ UNCHANGED vars
             ELSE LET outcome == OnchainOutcome(target_of(event), status[t])
                  IN  /\ rows' = [rows EXCEPT ![t] = Append(@, outcome)]
                      /\ \/ apply_onchain(t, target_of(event))
                         \/ /\ outcome # "Applied"
                            /\ ForListener(t)
                            /\ UNCHANGED vars
-----------------------------------------------------------------------------
FlowInit ==
    /\ Init
    /\ log = [t \in Transfers |-> <<>>]
    /\ rows = [t \in Transfers |-> <<>>]

FlowBackend(t) ==
    /\ Backend(t)
    /\ UNCHANGED <<log, rows>>

Chain(t) ==
    \/ lock_quote(t)
    \/ settle(t)
    \/ cancel_quote(t)
    \/ returnSettlement(t)
    \/ refund(t)

FlowNext == \E t \in Transfers : FlowBackend(t) \/ Chain(t) \/ handle(t)

FlowSpec == FlowInit /\ [][FlowNext]_flowVars

\* The listener delivers every final event (FinalEventsDelivered of
\* SettlementListener) and drivers run; the operator and the partner need not act.
FairFlowSpec ==
    /\ FlowSpec
    /\ \A t \in Transfers :
          /\ WF_flowVars(handle(t))
          /\ WF_flowVars(Drive(t) /\ UNCHANGED <<log, rows>>)
-----------------------------------------------------------------------------
Outcomes == {"recorded", "Applied", "AlreadyApplied", "Ignored"}

\* Type invariant of what the flow adds to the engine's.
FlowTypeOK ==
    /\ TypeOK
    /\ log \in [Transfers -> Seq(VaultEvents)]
    /\ rows \in [Transfers -> Seq(Outcomes)]
    /\ \A t \in Transfers : Len(rows[t]) <= Len(log[t])

\* An operator who keeps to the documented order never has an event recorded as
\* ignored, whatever the drivers, the desks and the delays in delivery do: the
\* case "Left for ops" (apply_onchain) needs a call out of order.
OrderedNeverIgnored ==
    \A t \in Ordered : \A i \in 1 .. Len(rows[t]) : rows[t][i] # "Ignored"

\* The statuses that agree with the last thing the vault did.
AgreesWith(last) ==
    CASE last = "SettlementInitiated" -> {"SETTLED", "PAYING_OUT", "COMPLETED", "REVERSED"}
      [] last = "SettlementReturned"  -> {"REVERSING", "REVERSED"}
      [] last = "SettlementRefunded"  -> {"REVERSED"}
      [] last \in {"QuoteCancelled", "ExpiredQuoteCancelled"} -> {"EXPIRED", "REJECTED"}
      [] OTHER -> Statuses \ {"SETTLED", "PAYING_OUT", "COMPLETED", "REVERSING", "REVERSED"}

\* Once every event of a transfer is delivered, its status and its ledger agree
\* with the vault; in particular nothing but the chain settles it, pays it out or
\* reverses it (apply_onchain, advance_once; "only the chain settles").
BooksFollowChain ==
    \A t \in Ordered : onchain /\ status[t] # None /\ ~InTransit(t) =>
        /\ status[t] \in AgreesWith(LastEvent(t))
        /\ ~RejectedAfterFunding(t)

\* A transfer the vault has settled for an operator who keeps to the order is
\* settled in the books too, for good or until it is returned.
SettledIsSeen ==
    \A t \in Ordered :
        LastEvent(t) = "SettlementInitiated" ~>
            status[t] \in {"SETTLED", "PAYING_OUT", "COMPLETED", "REVERSING", "REVERSED"}

\* The composition only does to a transfer what the engine's specification allows.
EngineSpec == Spec
=============================================================================
