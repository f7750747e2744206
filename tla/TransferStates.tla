--------------------------- MODULE TransferStates ---------------------------
(***************************************************************************)
(* The transfer statuses and the explicit transition table of              *)
(* domain/transfers/state_machine.rs.  Constant operators only: the engine *)
(* and the listener modules read the table, nothing here has state.        *)
(***************************************************************************)

\* contract/transfer.rs, TransferStatus.
Statuses ==
    {"CREATED", "QUOTED", "SCREENED", "AWAITING_FUNDS", "FUNDED", "SETTLING",
     "SETTLED", "PAYING_OUT", "COMPLETED", "REJECTED", "EXPIRED", "REVERSING",
     "REVERSED"}

\* No status: the row does not exist yet, or a driver has not read it yet, or
\* forward_step returned None.
None == "NONE"

\* The explicit transition table: the statuses reachable in one transition.
allowed(from) ==
    CASE from = "CREATED"        -> {"QUOTED", "EXPIRED"}
      [] from = "QUOTED"         -> {"SCREENED", "EXPIRED"}
      [] from = "SCREENED"       -> {"AWAITING_FUNDS", "REJECTED", "EXPIRED"}
      [] from = "AWAITING_FUNDS" -> {"FUNDED", "REJECTED", "EXPIRED"}
      [] from = "FUNDED"         -> {"SETTLING", "REJECTED"}
      [] from = "SETTLING"       -> {"SETTLED", "REJECTED"}
      [] from = "SETTLED"        -> {"PAYING_OUT", "REVERSING"}
      [] from = "PAYING_OUT"     -> {"COMPLETED", "REVERSING"}
      [] from = "COMPLETED"      -> {"REVERSING"}
      [] from = "REVERSING"      -> {"REVERSED"}
      [] OTHER                   -> {}

\* The single forward step on the happy path, None at a waypoint or a terminal.
forward_step(from) ==
    CASE from = "CREATED"        -> "QUOTED"
      [] from = "QUOTED"         -> "SCREENED"
      [] from = "SCREENED"       -> "AWAITING_FUNDS"
      [] from = "AWAITING_FUNDS" -> "FUNDED"
      [] from = "FUNDED"         -> "SETTLING"
      [] from = "SETTLING"       -> "SETTLED"
      [] from = "SETTLED"        -> "PAYING_OUT"
      [] from = "PAYING_OUT"     -> "COMPLETED"
      [] OTHER                   -> None

\* What the timeline reports as terminal and what leaves the exposure sums.
\* COMPLETED is terminal and still has a transition, into REVERSING.
is_terminal(s) == s \in {"COMPLETED", "REJECTED", "EXPIRED", "REVERSED"}
=============================================================================
