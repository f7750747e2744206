--------------------------- MODULE OnboardingProofs ---------------------------
(***************************************************************************)
(* Proofs about Onboarding for every set of calls, businesses and          *)
(* principals: what the customer is told is what was decided, the ceiling  *)
(* is the one of the rating shown, and a document has its file.            *)
(***************************************************************************)
EXTENDS Onboarding, TLAPS

Checks == {"cac_lookup", "adverse_media", "director_identity", "sanctions_pep"}

\* A call that decides has loaded an application with business details; a
\* rescreening has loaded an approved one.
CallAt(c) ==
    /\ c \in Submits => pc[c] \in {"start", "assemble", "guard", "decide", "done", "dropped"}
    /\ c \in Rescreens => pc[c] \in {"start", "assemble", "rescreen", "done", "dropped"}
    /\ pc[c] = "decide" => local[c].business # None
    /\ c \in Rescreens /\ pc[c] \in {"assemble", "rescreen"} =>
          local[c].status = "approved" /\ local[c].business # None
    /\ local[c].business # None => business # None

\* The row agrees with the last decision.
ApplicationAt ==
    /\ status = "approved" => business # None
    /\ StatusMatchesDecision
    /\ LimitMatchesRating

UploadAt(u) ==
    /\ doc_pc[u] \in {"start", "upsert", "done"}
    /\ doc_pc[u] = "upsert" => u \in files

\* The file of the row is there, and its upload is over: no later row has it.
DocumentAt ==
    document # None => document.key \in files /\ doc_pc[document.key] = "done"

\* A file that a remove has found was only ever named by the row it found, and
\* once that row is deleted no row names it.
RemoveAt(r) ==
    /\ doc_pc[r] \in {"start", "row", "file", "done"}
    /\ doc_pc[r] \in {"row", "file"} =>
          /\ found[r] # None
          /\ doc_pc[found[r].key] = "done"
          /\ document # None /\ document.key = found[r].key => document.id = found[r].id
    /\ doc_pc[r] = "file" /\ document # None => document.key # found[r].key

ApplicationInv == TypeOK /\ (\A c \in Calls : CallAt(c)) /\ ApplicationAt
DocumentInv == (\A u \in Uploads : UploadAt(u)) /\ DocumentAt /\ (\A r \in Removes : RemoveAt(r))
IInv == ApplicationInv /\ DocumentInv
-----------------------------------------------------------------------------
(* What the checks and the rating of a loaded application can be.          *)

\* run_checks fails only checks there are.
LEMMA FailedChecksType == ASSUME NEW app PROVE FailedChecks(app) \subseteq Checks
  BY DEF FailedChecks, Checks

\* assess_risk_rating rates every application that has business details.
LEMMA RatingType ==
    ASSUME NEW app, app.business \in Businesses
    PROVE  assess_risk_rating(app) \in Ratings
  BY DEF assess_risk_rating, Ratings

\* transaction_limit_minor has a ceiling for each rating.
LEMMA LimitType ==
    ASSUME NEW rating \in Ratings
    PROVE  transaction_limit_minor(rating) \in Ceilings
  BY SMT DEF transaction_limit_minor, Ratings, Ceilings

\* A call that ends leaves the locals of the right type.
LEMMA EndTyped ==
    ASSUME TypeOK, NEW c \in Calls, End(c)
    PROVE  /\ pc' = [pc EXCEPT ![c] = "done"]
           /\ local' = [local EXCEPT ![c] = NotLoaded]
           /\ pc' \in [Calls -> {"start", "assemble", "guard", "decide", "rescreen", "done", "dropped"}]
           /\ local' \in [Calls -> [status : {"draft", "in_review", "approved", "rejected"},
                                    business : Businesses \cup {None},
                                    principals : Principals \cup {{}}]]
           /\ local'[c].business = None
  BY DEF End, Go, TypeOK, NotLoaded
-----------------------------------------------------------------------------
\* The invariant holds initially.
LEMMA InitInv == Init => IInv
  <1>1. 0 \in Ceilings
    BY SMT DEF Ceilings
  <1> QED BY <1>1, OnboardingAssumption DEF Init, IInv, ApplicationInv, DocumentInv, TypeOK, CallAt, ApplicationAt,
     StatusMatchesDecision, LimitMatchesRating, UploadAt, DocumentAt, RemoveAt, Calls, NotLoaded, Ratings
-----------------------------------------------------------------------------
(* The steps of the calls.                                                 *)

\* An edit of the customer's leaves an application that has business details.
LEMMA SaveInv ==
    ASSUME ApplicationInv, save_business_details \/ save_principals
    PROVE  ApplicationInv'
  <1>1. business' \in Businesses \/ business' = business
    BY DEF save_business_details, save_principals
  <1>2. UNCHANGED <<status, approved_summary, rejection_reasons, kyb_checks, limit, calls, documents>>
    BY DEF save_business_details, save_principals
  <1>3. principals' \in Principals \cup {{}}
    BY DEF save_business_details, save_principals, ApplicationInv, TypeOK
  <1>4. TypeOK'
    BY <1>1, <1>2, <1>3 DEF ApplicationInv, TypeOK, calls, documents
  <1>5. business # None => business' # None
    BY <1>1, OnboardingAssumption
  <1>6. \A c \in Calls : CallAt(c)'
    BY <1>2, <1>5 DEF ApplicationInv, CallAt, calls
  <1>7. ApplicationAt'
    BY <1>2, <1>5 DEF ApplicationInv, ApplicationAt, StatusMatchesDecision, LimitMatchesRating, calls
  <1> QED BY <1>4, <1>6, <1>7 DEF ApplicationInv

\* A rescreening loads only an approved application.
LEMMA LoadRowInv ==
    ASSUME ApplicationInv, NEW c \in Calls, LoadRow(c)
    PROVE  ApplicationInv'
  <1>1. UNCHANGED <<application, documents>> /\ pc[c] = "start"
    BY DEF LoadRow
  <1>2. CASE c \in Rescreens /\ status # "approved"
    <2>1. End(c)
      BY <1>2 DEF LoadRow
    <2> QED BY <1>1, <2>1, EndTyped DEF ApplicationInv, TypeOK, CallAt, ApplicationAt,
            StatusMatchesDecision, LimitMatchesRating, application, documents, Calls
  <1>3. CASE ~(c \in Rescreens /\ status # "approved")
    <2>1. /\ pc' = [pc EXCEPT ![c] = "assemble"]
          /\ local' = [local EXCEPT ![c] =
                         [status |-> status, business |-> business, principals |-> {}]]
      BY <1>3 DEF LoadRow, Go
    <2>2. local' \in [Calls -> [status : {"draft", "in_review", "approved", "rejected"},
                                business : Businesses \cup {None},
                                principals : Principals \cup {{}}]]
      BY <2>1 DEF ApplicationInv, TypeOK
    <2>3. /\ local'[c].status = status /\ local'[c].business = business
          /\ \A o \in Calls : o # c => local'[o] = local[o]
      BY <2>1 DEF ApplicationInv, TypeOK
    <2>4. TypeOK'
      BY <1>1, <2>1, <2>2 DEF ApplicationInv, TypeOK, application, documents
    <2>5. \A o \in Calls : CallAt(o)'
      BY <1>1, <1>3, <2>1, <2>3, OnboardingAssumption
         DEF ApplicationInv, TypeOK, CallAt, ApplicationAt, application, Calls
    <2>6. ApplicationAt'
      BY <1>1, <2>1 DEF ApplicationInv, TypeOK, ApplicationAt, StatusMatchesDecision,
         LimitMatchesRating, application, Calls
    <2> QED BY <2>4, <2>5, <2>6 DEF ApplicationInv
  <1> QED BY <1>2, <1>3

\* The principals are read, the row as it was loaded stays.
LEMMA AssembleInv ==
    ASSUME ApplicationInv, NEW c \in Calls, Assemble(c)
    PROVE  ApplicationInv'
  <1>1. /\ UNCHANGED <<application, documents>> /\ pc[c] = "assemble"
        /\ pc' = [pc EXCEPT ![c] = IF c \in Submits THEN "guard" ELSE "rescreen"]
        /\ local' = [local EXCEPT ![c].principals = principals]
    BY DEF Assemble, Go
  <1>2. TypeOK'
    BY <1>1 DEF ApplicationInv, TypeOK, application, documents
  <1>3. \A o \in Calls : CallAt(o)'
    BY <1>1, OnboardingAssumption DEF ApplicationInv, TypeOK, CallAt, application, Calls
  <1>4. ApplicationAt'
    BY <1>1 DEF ApplicationInv, TypeOK, ApplicationAt, StatusMatchesDecision, LimitMatchesRating,
       application, Calls
  <1> QED BY <1>2, <1>3, <1>4 DEF ApplicationInv

\* A refused submit changes nothing.
LEMMA SubmitRefusedInv ==
    ASSUME ApplicationInv, NEW c \in Calls, SubmitRefused(c)
    PROVE  ApplicationInv'
  <1>1. UNCHANGED <<application, documents>> /\ End(c)
    BY DEF SubmitRefused
  <1> QED BY <1>1, EndTyped DEF ApplicationInv, TypeOK, CallAt, ApplicationAt,
          StatusMatchesDecision, LimitMatchesRating, application, documents, Calls

\* A submit that opens a review has found business details.
LEMMA SubmitOpensInv ==
    ASSUME ApplicationInv, NEW c \in Calls, SubmitOpens(c)
    PROVE  ApplicationInv'
  <1>1. /\ pc[c] = "guard" /\ local[c].business # None
        /\ pc' = [pc EXCEPT ![c] = "decide"]
        /\ status' = "in_review" /\ approved_summary' = None /\ rejection_reasons' = {}
        /\ UNCHANGED <<business, principals, kyb_checks, limit, local, documents>>
    BY DEF SubmitOpens, patch_status, Go
  <1>2. TypeOK'
    BY <1>1 DEF ApplicationInv, TypeOK, documents
  <1>3. \A o \in Calls : CallAt(o)'
    BY <1>1 DEF ApplicationInv, TypeOK, CallAt, Calls
  <1>4. ApplicationAt'
    BY <1>1 DEF ApplicationAt, StatusMatchesDecision, LimitMatchesRating
  <1> QED BY <1>2, <1>3, <1>4 DEF ApplicationInv

\* A call that ends forgets its application, and the other calls keep theirs.
LEMMA EndCallAt ==
    ASSUME ApplicationInv, NEW c \in Calls, End(c), business' = business
    PROVE  \A o \in Calls : CallAt(o)'
  BY EndTyped DEF ApplicationInv, TypeOK, CallAt, Calls

\* An approval rates the application that passed, and sets its ceiling.
LEMMA SubmitApprovesInv ==
    ASSUME ApplicationInv, NEW c \in Calls, SubmitApproves(c)
    PROVE  ApplicationInv'
  <1> DEFINE rating == assess_risk_rating(local[c])
  <1>1. /\ pc[c] = "decide" /\ End(c)
        /\ status' = "approved" /\ approved_summary' = rating /\ rejection_reasons' = {}
        /\ kyb_checks' = {} /\ limit' = transaction_limit_minor(rating)
        /\ UNCHANGED <<business, principals, documents>>
    BY DEF SubmitApproves, patch_status, replace_kyb_checks, set_transfer_limit
  <1>2. local[c].business \in Businesses /\ business # None
    BY <1>1 DEF ApplicationInv, TypeOK, CallAt
  <1>3. rating \in Ratings /\ rating # None
    BY <1>2, RatingType, OnboardingAssumption
  <1> HIDE DEF rating
  <1>4. limit' \in Ceilings
    BY <1>1, <1>3, LimitType
  <1>5. TypeOK'
    BY <1>1, <1>3, <1>4, EndTyped DEF ApplicationInv, TypeOK, documents
  <1>6. \A o \in Calls : CallAt(o)'
    BY <1>1, EndCallAt
  <1>7. ApplicationAt'
    BY <1>1, <1>2, <1>3 DEF ApplicationAt, StatusMatchesDecision, LimitMatchesRating
  <1> QED BY <1>5, <1>6, <1>7 DEF ApplicationInv

\* A rejection records what failed and gives it as its reasons.
LEMMA SubmitRejectsInv ==
    ASSUME ApplicationInv, NEW c \in Calls, SubmitRejects(c)
    PROVE  ApplicationInv'
  <1> DEFINE failed == FailedChecks(local[c])
  <1>1. /\ failed # {} /\ End(c)
        /\ status' = "rejected" /\ approved_summary' = None /\ rejection_reasons' = failed
        /\ kyb_checks' = failed /\ UNCHANGED <<business, principals, limit, documents>>
    BY DEF SubmitRejects, patch_status, replace_kyb_checks
  <1>2. failed \subseteq Checks
    BY FailedChecksType
  <1> HIDE DEF failed
  <1>3. TypeOK'
    BY <1>1, <1>2, EndTyped DEF ApplicationInv, TypeOK, documents, Checks
  <1>4. \A o \in Calls : CallAt(o)'
    BY <1>1, EndCallAt
  <1>5. ApplicationAt'
    BY <1>1 DEF ApplicationAt, StatusMatchesDecision, LimitMatchesRating
  <1> QED BY <1>3, <1>4, <1>5 DEF ApplicationInv

\* A rescreening writes an approval, whose rating and ceiling it sets too.
LEMMA RescreenCommitInv ==
    ASSUME ApplicationInv, NEW c \in Rescreens, RescreenCommit(c)
    PROVE  ApplicationInv'
  <1> DEFINE rating == assess_risk_rating(local[c])
             failed == FailedChecks(local[c])
  <1>0. c \in Calls
    BY DEF Calls
  <1>1. /\ pc[c] = "rescreen" /\ End(c)
        /\ status' = local[c].status /\ approved_summary' = rating /\ rejection_reasons' = {}
        /\ kyb_checks' = failed /\ limit' = transaction_limit_minor(rating)
        /\ UNCHANGED <<business, principals, documents>>
    BY DEF RescreenCommit, patch_status, replace_kyb_checks, set_transfer_limit
  <1>2. local[c].status = "approved" /\ local[c].business \in Businesses /\ business # None
    BY <1>0, <1>1 DEF ApplicationInv, TypeOK, CallAt
  <1>3. rating \in Ratings /\ rating # None
    BY <1>2, RatingType, OnboardingAssumption
  <1>4. failed \subseteq Checks
    BY FailedChecksType
  <1> HIDE DEF rating, failed
  <1>5. limit' \in Ceilings
    BY <1>1, <1>3, LimitType
  <1>6. TypeOK'
    BY <1>0, <1>1, <1>2, <1>3, <1>4, <1>5, EndTyped DEF ApplicationInv, TypeOK, documents, Checks
  <1>7. \A o \in Calls : CallAt(o)'
    BY <1>0, <1>1, EndCallAt
  <1>8. pc'[c] = "done"
    BY <1>0, <1>1, EndTyped DEF ApplicationInv, TypeOK
  <1>9. ApplicationAt'
    BY <1>1, <1>2, <1>3, <1>8 DEF ApplicationAt, StatusMatchesDecision, LimitMatchesRating
  <1> QED BY <1>6, <1>7, <1>9 DEF ApplicationInv

\* A call that is lost leaves the row as its last transaction left it.
LEMMA DroppedInv ==
    ASSUME ApplicationInv, NEW c \in Calls, Dropped(c)
    PROVE  ApplicationInv'
  <1>1. /\ pc[c] \notin {"start", "done"} /\ pc' = [pc EXCEPT ![c] = "dropped"]
        /\ local' = [local EXCEPT ![c] = NotLoaded] /\ UNCHANGED <<application, documents>>
    BY DEF Dropped, Go
  <1>2. TypeOK'
    BY <1>1 DEF ApplicationInv, TypeOK, NotLoaded, application, documents
  <1>3. \A o \in Calls : CallAt(o)'
    BY <1>1 DEF ApplicationInv, TypeOK, CallAt, NotLoaded, application, Calls
  <1>4. ApplicationAt'
    BY <1>1 DEF ApplicationInv, TypeOK, ApplicationAt, StatusMatchesDecision, LimitMatchesRating,
       application, Calls
  <1> QED BY <1>2, <1>3, <1>4 DEF ApplicationInv
-----------------------------------------------------------------------------
(* The steps of the document calls.                                        *)

\* They leave the application and the calls about it alone.
LEMMA DocumentsApart ==
    ASSUME ApplicationInv, UNCHANGED <<application, calls>>,
           document' \in [id : Uploads, key : Uploads] \cup {None}, files' \subseteq Uploads,
           doc_pc' \in [Uploads \cup Removes -> {"start", "upsert", "row", "file", "done"}],
           found' \in [Removes -> [id : Uploads, key : Uploads] \cup {None}]
    PROVE  ApplicationInv'
  BY DEF ApplicationInv, TypeOK, CallAt, ApplicationAt, StatusMatchesDecision, LimitMatchesRating,
     application, calls

\* The file is there before a row names it.
LEMMA UploadPutInv ==
    ASSUME IInv, NEW u \in Uploads, UploadPut(u)
    PROVE  IInv'
  <1>1. /\ doc_pc[u] = "start" /\ files' = files \cup {u}
        /\ doc_pc' = [doc_pc EXCEPT ![u] = "upsert"]
        /\ UNCHANGED <<application, calls, document, found>>
    BY DEF UploadPut, storage_key, DocGo
  <1>2. ApplicationInv'
    BY <1>1, DocumentsApart DEF IInv, ApplicationInv, TypeOK
  <1>3. DocumentInv'
    BY <1>1, OnboardingAssumption
       DEF IInv, ApplicationInv, TypeOK, DocumentInv, UploadAt, DocumentAt, RemoveAt
  <1> QED BY <1>2, <1>3 DEF IInv

\* The row names the new file, which no remove has found.
LEMMA UploadRowInv ==
    ASSUME IInv, NEW u \in Uploads, UploadRow(u)
    PROVE  IInv'
  <1>1. /\ doc_pc[u] = "upsert"
        /\ document' = [id |-> IF document = None THEN u ELSE document.id, key |-> u]
        /\ doc_pc' = [doc_pc EXCEPT ![u] = "done"]
        /\ UNCHANGED <<application, calls, files, found>>
    BY DEF UploadRow, storage_key, DocGo
  <1>2. ApplicationInv'
    BY <1>1, DocumentsApart DEF IInv, ApplicationInv, TypeOK
  <1>3. DocumentInv'
    BY <1>1, OnboardingAssumption
       DEF IInv, ApplicationInv, TypeOK, DocumentInv, UploadAt, DocumentAt, RemoveAt
  <1> QED BY <1>2, <1>3 DEF IInv

\* The row that a remove finds is the one that has its file.
LEMMA RemoveFindInv ==
    ASSUME IInv, NEW r \in Removes, RemoveFind(r)
    PROVE  IInv'
  <1>1. /\ doc_pc[r] = "start" /\ document # None
        /\ found' = [found EXCEPT ![r] = document]
        /\ doc_pc' = [doc_pc EXCEPT ![r] = "row"]
        /\ UNCHANGED <<application, calls, document, files>>
    BY DEF RemoveFind, DocGo
  <1>2. ApplicationInv'
    BY <1>1, DocumentsApart DEF IInv, ApplicationInv, TypeOK
  <1>3. DocumentInv'
    BY <1>1, OnboardingAssumption
       DEF IInv, ApplicationInv, TypeOK, DocumentInv, UploadAt, DocumentAt, RemoveAt
  <1> QED BY <1>2, <1>3 DEF IInv

\* After the deletion no row has the file that was found.
LEMMA RemoveRowInv ==
    ASSUME IInv, NEW r \in Removes, RemoveRow(r)
    PROVE  IInv'
  <1>1. /\ doc_pc[r] = "row"
        /\ document' = IF document # None /\ document.id = found[r].id THEN None ELSE document
        /\ doc_pc' = [doc_pc EXCEPT ![r] = "file"]
        /\ UNCHANGED <<application, calls, files, found>>
    BY DEF RemoveRow, DocGo
  <1>2. ApplicationInv'
    BY <1>1, DocumentsApart DEF IInv, ApplicationInv, TypeOK
  <1>3. DocumentInv'
    BY <1>1, OnboardingAssumption
       DEF IInv, ApplicationInv, TypeOK, DocumentInv, UploadAt, DocumentAt, RemoveAt
  <1> QED BY <1>2, <1>3 DEF IInv

\* The file that goes is the row's no more.
LEMMA RemoveFileInv ==
    ASSUME IInv, NEW r \in Removes, RemoveFile(r)
    PROVE  IInv'
  <1>1. /\ doc_pc[r] = "file" /\ files' = files \ {found[r].key}
        /\ found' = [found EXCEPT ![r] = None]
        /\ doc_pc' = [doc_pc EXCEPT ![r] = "done"]
        /\ UNCHANGED <<application, calls, document>>
    BY DEF RemoveFile, DocGo
  <1>2. ApplicationInv'
    BY <1>1, DocumentsApart DEF IInv, ApplicationInv, TypeOK
  <1>3. DocumentInv'
    BY <1>1, OnboardingAssumption
       DEF IInv, ApplicationInv, TypeOK, DocumentInv, UploadAt, DocumentAt, RemoveAt
  <1> QED BY <1>2, <1>3 DEF IInv
-----------------------------------------------------------------------------
\* IInv is inductive: a rescreening never submits, a submit never rescreens.
LEMMA NextInv == IInv /\ [Next]_vars => IInv'
  <1> SUFFICES ASSUME IInv, [Next]_vars PROVE IInv'
    OBVIOUS
  <1>1. ASSUME UNCHANGED documents PROVE DocumentInv'
    BY <1>1 DEF IInv, DocumentInv, UploadAt, DocumentAt, RemoveAt, documents
  <1>2. CASE save_business_details \/ save_principals
    <2>1. UNCHANGED documents
      BY <1>2 DEF save_business_details, save_principals
    <2> QED BY <1>1, <1>2, <2>1, SaveInv DEF IInv
  <1>3. ASSUME NEW c \in Calls, Work(c) PROVE IInv'
    <2>1. UNCHANGED documents
      BY <1>3 DEF Work, LoadRow, Assemble, SubmitRefused, SubmitOpens, SubmitApproves,
         SubmitRejects, RescreenCommit
    <2>2. RescreenCommit(c) => c \in Rescreens
      BY DEF RescreenCommit, IInv, ApplicationInv, CallAt, Calls
    <2> QED BY <1>1, <1>3, <2>1, <2>2, LoadRowInv, AssembleInv, SubmitRefusedInv, SubmitOpensInv,
            SubmitApprovesInv, SubmitRejectsInv, RescreenCommitInv DEF IInv, Work
  <1>4. ASSUME NEW c \in Calls, Dropped(c) PROVE IInv'
    <2>1. UNCHANGED documents
      BY <1>4 DEF Dropped
    <2> QED BY <1>1, <1>4, <2>1, DroppedInv DEF IInv
  <1>5. CASE UNCHANGED vars
    BY <1>5 DEF vars, application, calls, documents, IInv, ApplicationInv, DocumentInv, TypeOK, CallAt,
       ApplicationAt, StatusMatchesDecision, LimitMatchesRating, UploadAt, DocumentAt, RemoveAt
  <1> QED BY <1>2, <1>3, <1>4, <1>5, UploadPutInv, UploadRowInv, RemoveFindInv, RemoveRowInv,
          RemoveFileInv DEF Next

\* ... and so it always holds.
LEMMA Invariant == Spec => []IInv
  BY InitInv, NextInv, PTL DEF Spec
-----------------------------------------------------------------------------
(* What onboarding promises.                                               *)

\* Type correctness of the rows and the calls.
THEOREM TypeCorrect == Spec => []TypeOK
  <1>1. IInv => TypeOK
    BY DEF IInv, ApplicationInv
  <1> QED BY <1>1, Invariant, PTL

\* Status, summary, reasons and recorded checks agree, however submits, rescreenings
\* and edits overlap (submit, rescreen_approved_customers, patch_status).
THEOREM DecisionIsTold == Spec => []StatusMatchesDecision
  <1>1. IInv => StatusMatchesDecision
    BY DEF IInv, ApplicationInv, ApplicationAt
  <1> QED BY <1>1, Invariant, PTL

\* While approved, the ceiling is the one of the rating shown (set_transfer_limit).
THEOREM CeilingIsRatings == Spec => []LimitMatchesRating
  <1>1. IInv => LimitMatchesRating
    BY DEF IInv, ApplicationInv, ApplicationAt
  <1> QED BY <1>1, Invariant, PTL

\* A document row has its file, however uploads and removals overlap
\* (upload_document, remove_document).
THEOREM DocumentKeepsFile == Spec => []DocumentHasFile
  <1>1. IInv => DocumentHasFile
    BY DEF IInv, DocumentInv, DocumentAt, DocumentHasFile
  <1> QED BY <1>1, Invariant, PTL
=============================================================================
