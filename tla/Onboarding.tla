----------------------------- MODULE Onboarding -----------------------------
(***************************************************************************)
(* domain/onboarding: one customer's application, from draft to decision.  *)
(* Saves, submits, document calls and the rescreening job run against one  *)
(* row without a lock; each statement or transaction is a step.  The       *)
(* documents are those of one type, the calls about another type touch     *)
(* other rows and other files.                                             *)
(*                                                                         *)
(* A file's name has the time in milliseconds and the client's file name:  *)
(* it is taken to be different for every upload.                           *)
(***************************************************************************)
EXTENDS Naturals

CONSTANTS
    Submits,            \* submit calls
    Rescreens,          \* runs of bin/rescreen
    Uploads, Removes,   \* document calls
    Businesses,         \* business details the customer may save
    Principals,         \* lists of principals the customer may save
    None

Markers == {"highrisk", "mediumrisk", "reject", "adverse"}   \* in the legal name
Flags == {"bvn", "sanction"}                                 \* on some principal
Ratings == {"Low", "Medium", "High"}

ASSUME OnboardingAssumption ==
    /\ Businesses \subseteq [markers : SUBSET Markers,
                             high_risk_industry : BOOLEAN, foreign : BOOLEAN]
    /\ Principals \subseteq SUBSET Flags
    /\ None \notin Businesses /\ None \notin Uploads /\ None \notin Ratings
    /\ Submits \cap Rescreens = {} /\ Uploads \cap Removes = {}

VARIABLES
    status,             \* onboarding_applications.status
    business,           \* its business column, None before the first save
    principals,         \* onboarding_principals
    approved_summary,   \* the rating of the summary, or None
    rejection_reasons,  \* the checks that the reasons name
    kyb_checks,         \* the recorded checks that failed
    limit,              \* customers.max_transfer_amount_minor, 0 for NULL
    pc,                 \* where each submit and each rescreening is
    local,              \* the application it has loaded
    document,           \* the onboarding_documents row of the type, or None
    files,              \* files in the storage directory
    doc_pc,             \* where each document call is
    found               \* the row a remove has found, or None

application == <<status, business, principals, approved_summary, rejection_reasons, kyb_checks, limit>>
calls == <<pc, local>>
documents == <<document, files, doc_pc, found>>
vars == <<application, calls, documents>>

Calls == Submits \cup Rescreens
NotLoaded == [status |-> "draft", business |-> None, principals |-> {}]
-----------------------------------------------------------------------------
\* kyb.rs

FailedChecks(app) ==
    (IF "reject" \in app.business.markers THEN {"cac_lookup"} ELSE {})
    \cup (IF "adverse" \in app.business.markers THEN {"adverse_media"} ELSE {})
    \cup (IF "bvn" \in app.principals THEN {"director_identity"} ELSE {})
    \cup (IF "sanction" \in app.principals THEN {"sanctions_pep"} ELSE {})

assess_risk_rating(app) ==
    LET b == app.business
    IN  CASE "highrisk" \in b.markers -> "High"
          [] "highrisk" \notin b.markers /\ "mediumrisk" \in b.markers -> "Medium"
          [] b.markers \cap {"highrisk", "mediumrisk"} = {} ->
                IF b.high_risk_industry /\ b.foreign THEN "High"
                ELSE IF b.high_risk_industry \/ b.foreign THEN "Medium" ELSE "Low"

\* Mutant of transaction_limit_minor: in whole units.
transaction_limit_whole(rating) ==
    CASE rating = "Low" -> 0 [] rating = "Medium" -> 50000 [] rating = "High" -> 10000

transaction_limit_minor(rating) ==
    CASE rating = "Low" -> 0 [] rating = "Medium" -> 5000000 [] rating = "High" -> 1000000
-----------------------------------------------------------------------------
Go(c, to) == pc' = [pc EXCEPT ![c] = to]
End(c) == Go(c, "done") /\ local' = [local EXCEPT ![c] = NotLoaded]

\* Mutant of patch_status: coalesce keeps what the patch does not carry.
patch_status_coalesce(to, summary, reasons) ==
    /\ status' = to
    /\ approved_summary' = IF summary = None THEN approved_summary ELSE summary
    /\ rejection_reasons' = IF reasons = {} THEN rejection_reasons ELSE reasons

patch_status(to, summary, reasons) ==
    /\ status' = to
    /\ approved_summary' = summary
    /\ rejection_reasons' = reasons

\* Mutant of set_transfer_limit: a NULL clears nothing.
set_transfer_limit_some(to) == limit' = IF to = 0 THEN limit ELSE to

set_transfer_limit(to) == limit' = to

replace_kyb_checks(failed) == kyb_checks' = failed
-----------------------------------------------------------------------------
\* The customer edits the application, whatever its status.
save_business_details ==
    /\ \E b \in Businesses : business' = b
    /\ UNCHANGED <<status, principals, approved_summary, rejection_reasons, kyb_checks, limit,
                   calls, documents>>

save_principals ==
    /\ \E p \in Principals : principals' = p
    /\ UNCHANGED <<status, business, approved_summary, rejection_reasons, kyb_checks, limit,
                   calls, documents>>
-----------------------------------------------------------------------------
\* find_by_customer and list_approved read the row; assemble reads the
\* principals in a statement of its own.
LoadRow(c) ==
    /\ pc[c] = "start"
    /\ IF c \in Rescreens /\ status # "approved"
       THEN End(c)
       ELSE /\ Go(c, "assemble")
            /\ local' = [local EXCEPT ![c] =
                                   [status |-> status, business |-> business, principals |-> {}]]
    /\ UNCHANGED <<application, documents>>

Assemble(c) ==
    /\ pc[c] = "assemble"
    /\ Go(c, IF c \in Submits THEN "guard" ELSE "rescreen")
    /\ local' = [local EXCEPT ![c].principals = principals]
    /\ UNCHANGED <<application, documents>>

\* "Add your business details", "already being reviewed".
SubmitRefused(c) ==
    /\ pc[c] = "guard"
    /\ local[c].business = None \/ local[c].status \in {"submitted", "in_review"}
    /\ End(c)
    /\ UNCHANGED <<application, documents>>

\* First transaction: submitted, then in_review.
SubmitOpens(c) ==
    /\ pc[c] = "guard"
    /\ local[c].business # None /\ local[c].status \notin {"submitted", "in_review"}
    /\ patch_status("in_review", None, {})
    /\ Go(c, "decide")
    /\ UNCHANGED <<business, principals, kyb_checks, limit, local, documents>>

\* Second transaction, on the outcome of run_checks for the application as it
\* was loaded.
SubmitApproves(c) ==
    /\ pc[c] = "decide"
    /\ FailedChecks(local[c]) = {}
    /\ replace_kyb_checks({})
    /\ patch_status("approved", assess_risk_rating(local[c]), {})
    /\ set_transfer_limit(transaction_limit_minor(assess_risk_rating(local[c])))
    /\ End(c)
    /\ UNCHANGED <<business, principals, documents>>

\* Mutant of SubmitRejects: returns early, before the transaction.
SubmitReturns(c) ==
    /\ pc[c] = "decide"
    /\ FailedChecks(local[c]) # {}
    /\ End(c)
    /\ UNCHANGED <<application, documents>>

SubmitRejects(c) ==
    /\ pc[c] = "decide"
    /\ FailedChecks(local[c]) # {}
    /\ replace_kyb_checks(FailedChecks(local[c]))
    /\ patch_status("rejected", None, FailedChecks(local[c]))
    /\ End(c)
    /\ UNCHANGED <<business, principals, limit, documents>>

\* rescreen_approved_customers, the turn of this customer: the status written
\* is the one that was loaded, maybe long before.
RescreenCommit(c) ==
    /\ pc[c] = "rescreen"
    /\ replace_kyb_checks(FailedChecks(local[c]))
    /\ patch_status(local[c].status, assess_risk_rating(local[c]), {})
    /\ set_transfer_limit(transaction_limit_minor(assess_risk_rating(local[c])))
    /\ End(c)
    /\ UNCHANGED <<business, principals, documents>>

\* The call is dropped by the request timeout, fails (two overlapping decisions
\* insert the same check keys) or crashes; a rescreening also ends with the
\* error of an earlier customer.
Dropped(c) ==
    /\ pc[c] \notin {"start", "done"}
    /\ Go(c, "dropped")
    /\ local' = [local EXCEPT ![c] = NotLoaded]
    /\ UNCHANGED <<application, documents>>
-----------------------------------------------------------------------------
\* Mutant of storage_key: no time in the name.
storage_key_untimed(u) == CHOOSE k \in Uploads : TRUE

storage_key(u) == u

DocGo(d, to) == doc_pc' = [doc_pc EXCEPT ![d] = to]

\* upload_document: the file first, then the row.
UploadPut(u) ==
    /\ doc_pc[u] = "start"
    /\ files' = files \cup {storage_key(u)}
    /\ DocGo(u, "upsert")
    /\ UNCHANGED <<application, calls, document, found>>

\* upsert_document: a row of the type keeps its id.
UploadRow(u) ==
    /\ doc_pc[u] = "upsert"
    /\ document' = [id |-> IF document = None THEN u ELSE document.id, key |-> storage_key(u)]
    /\ DocGo(u, "done")
    /\ UNCHANGED <<application, calls, files, found>>

\* remove_document: find_document, delete_document by id, then the file.
RemoveFind(r) ==
    /\ doc_pc[r] = "start"
    /\ document # None
    /\ found' = [found EXCEPT ![r] = document]
    /\ DocGo(r, "row")
    /\ UNCHANGED <<application, calls, document, files>>

RemoveRow(r) ==
    /\ doc_pc[r] = "row"
    /\ document' = IF document # None /\ document.id = found[r].id THEN None ELSE document
    /\ DocGo(r, "file")
    /\ UNCHANGED <<application, calls, files, found>>

RemoveFile(r) ==
    /\ doc_pc[r] = "file"
    /\ files' = files \ {found[r].key}
    /\ found' = [found EXCEPT ![r] = None]
    /\ DocGo(r, "done")
    /\ UNCHANGED <<application, calls, document>>
-----------------------------------------------------------------------------
Init ==
    /\ status = "draft" /\ business = None /\ principals = {}
    /\ approved_summary = None /\ rejection_reasons = {} /\ kyb_checks = {} /\ limit = 0
    /\ pc = [c \in Calls |-> "start"]
    /\ local = [c \in Calls |-> NotLoaded]
    /\ document = None /\ files = {}
    /\ doc_pc = [d \in Uploads \cup Removes |-> "start"]
    /\ found = [r \in Removes |-> None]

Work(c) ==
    \/ LoadRow(c) \/ Assemble(c)
    \/ SubmitRefused(c) \/ SubmitOpens(c) \/ SubmitApproves(c) \/ SubmitRejects(c)
    \/ RescreenCommit(c)

Next ==
    \/ save_business_details \/ save_principals
    \/ \E c \in Calls : Work(c) \/ Dropped(c)
    \/ \E u \in Uploads : UploadPut(u) \/ UploadRow(u)
    \/ \E r \in Removes : RemoveFind(r) \/ RemoveRow(r) \/ RemoveFile(r)

Spec == Init /\ [][Next]_vars

\* A call that has begun is polled until it ends; nothing makes one begin.
FairSpec == Spec /\ \A c \in Calls : WF_vars(pc[c] # "start" /\ Work(c))
-----------------------------------------------------------------------------
\* Amounts of minor units that are a ceiling; 0 for none.
Ceilings == {0, 1000000, 5000000}

\* Type invariant of the rows and the calls.
TypeOK ==
    /\ status \in {"draft", "in_review", "approved", "rejected"}
    /\ business \in Businesses \cup {None} /\ principals \in Principals \cup {{}}
    /\ approved_summary \in Ratings \cup {None}
    /\ {rejection_reasons, kyb_checks} \subseteq
          SUBSET {"cac_lookup", "adverse_media", "director_identity", "sanctions_pep"}
    /\ limit \in Ceilings
    /\ pc \in [Calls -> {"start", "assemble", "guard", "decide", "rescreen", "done", "dropped"}]
    /\ local \in [Calls -> [status : {"draft", "in_review", "approved", "rejected"},
                            business : Businesses \cup {None},
                            principals : Principals \cup {{}}]]
    /\ document \in [id : Uploads, key : Uploads] \cup {None}
    /\ files \subseteq Uploads
    /\ doc_pc \in [Uploads \cup Removes -> {"start", "upsert", "row", "file", "done"}]
    /\ found \in [Removes -> [id : Uploads, key : Uploads] \cup {None}]

\* What the customer is told is what was decided, however submits overlap: a
\* summary exactly while approved, reasons exactly while rejected and the
\* recorded failures are those; nobody is approved on a failed check unless a
\* rescreening recorded it.
StatusMatchesDecision ==
    /\ (status = "approved") <=> (approved_summary # None)
    /\ (status = "rejected") <=> (rejection_reasons # {})
    /\ status = "rejected" => rejection_reasons = kyb_checks
    /\ (status = "approved" /\ \A j \in Rescreens : pc[j] # "done") => kyb_checks = {}

\* "the risk-derived override": while approved, the ceiling that transfers are
\* held to is the one of the rating the customer is shown.
LimitMatchesRating == status = "approved" => limit = transaction_limit_minor(approved_summary)

\* A document row always has its file: an upload that races a removal never
\* loses the file of the row that stays.
DocumentHasFile == document # None => document.key \in files

\* "then commits approved or rejected": a review ends, unless its submit was
\* dropped between its two transactions.
ReviewEnds ==
    (status = "in_review") ~> (status # "in_review" \/ \E c \in Submits : pc[c] = "dropped")

\* "No status transition": a rescreening leaves the status as it is.
RescreenKeepsStatus ==
    [][\A c \in Rescreens :
          (pc[c] = "rescreen" /\ pc'[c] = "done") => status' = status]_vars
=============================================================================
