---------------------------- MODULE MCOnboarding ----------------------------
(***************************************************************************)
(* Instance of Onboarding for TLC: a business rated low, one rated medium  *)
(* for its country and one rated high that has adverse media coverage;     *)
(* principals who pass, and one whose BVN does not resolve.                *)
(***************************************************************************)
EXTENDS Onboarding, TLC

Firm(markers, foreign) ==
    [markers |-> markers, high_risk_industry |-> FALSE, foreign |-> foreign]
LowMediumAdverse == {Firm({}, FALSE), Firm({}, TRUE), Firm({"highrisk", "adverse"}, TRUE)}
CleanOrBvn == {{}, {"bvn"}}
=============================================================================
