---------------------------- MODULE SessionsProofs ----------------------------
(***************************************************************************)
(* Proofs about Sessions for every set of calls, spellings, passwords and  *)
(* numbers: one whole account per address, a session serves the account    *)
(* whose credentials were presented, and what a call answers is true.      *)
(***************************************************************************)
EXTENDS Sessions, FiniteSetTheorems, TLAPS

\* A session row, and a call that was let in, belong to an account with the
\* credentials that the call has presented.
Presented(u, c) == u \in users /\ Email(u) = Email(c) /\ Password[u] = Password[c]

\* A register call that has its index entries excludes every other from them,
\* and is a user once it has committed.
CallAt(c) ==
    /\ c \in Registers => pc[c] \notin {"found", "verified"}
    /\ c \notin Registers => pc[c] \in {"idle", "found", "verified", "committed", "done"}
    /\ pc[c] \in {"numbered", "customer"} => local[c] \in Numbers
    /\ HoldsEmail(c) => EmailFree(c)
    /\ HoldsNumber(c) => local[c] \notin Taken
    /\ pc[c] \in {"found", "verified"} => Presented(local[c], c)
    /\ pc[c] = "committed" \/ answer[c] = "session" => sessions[c] # None
    /\ sessions[c] # None =>
          /\ Presented(sessions[c].user, c)
          /\ c \in Registers => sessions[c].user = c

\* Two open registrations have different addresses and different numbers.
Apart(c, d) ==
    /\ HoldsEmail(c) /\ HoldsEmail(d) => Email(c) # Email(d)
    /\ HoldsNumber(c) /\ HoldsNumber(d) => local[c] # local[d]

\* A user has one customer and a number has one.
BooksAt ==
    /\ \A u, v \in users : Email(u) = Email(v) => u = v
    /\ \A j, k \in customers : j.user = k.user => j = k
    /\ applications = users /\ {k.user : k \in customers} = users
    /\ IsFiniteSet(customers) /\ IsFiniteSet(Taken)
    /\ Cardinality(Taken) = Cardinality(customers)

IInv ==
    /\ TypeOK
    /\ \A c \in Calls : CallAt(c)
    /\ \A c, d \in Calls : c # d => Apart(c, d)
    /\ BooksAt

\* What the calls know of the tables.
Rows == UNCHANGED <<users, customers, applications>>
-----------------------------------------------------------------------------
\* The invariant holds initially.
LEMMA InitInv == Init => IInv
  <1> SUFFICES ASSUME Init PROVE IInv
    OBVIOUS
  <1>1. TypeOK
    BY SessionsAssumption DEF Init, TypeOK, Steps, Answers
  <1>2. \A c \in Calls : CallAt(c)
    BY DEF Init, CallAt, HoldsEmail, HoldsNumber
  <1>3. \A c, d \in Calls : Apart(c, d)
    BY DEF Init, Apart, HoldsEmail, HoldsNumber
  <1>4. Taken = {} /\ {k.user : k \in customers} = {}
    BY DEF Init, Taken
  <1>5. BooksAt
    BY <1>4, FS_EmptySet DEF Init, BooksAt
  <1> QED BY <1>1, <1>2, <1>3, <1>5 DEF IInv

\* BooksAt speaks of the tables only.
LEMMA BooksKept == ASSUME BooksAt, Rows PROVE BooksAt'
  BY DEF BooksAt, Rows, Taken, Email
-----------------------------------------------------------------------------
(* The steps.                                                              *)

\* Each action preserves the invariant.
LEMMA CheckInv ==
    ASSUME IInv, NEW c \in Calls, Check(c)
    PROVE  IInv'
  <1>1. /\ c \in Registers /\ pc[c] = "idle"
        /\ \/ pc' = [pc EXCEPT ![c] = "checked"] /\ answer' = answer
           \/ pc' = [pc EXCEPT ![c] = "done"] /\ answer' = [answer EXCEPT ![c] = "conflict"]
        /\ UNCHANGED <<now, tables, local>>
    BY DEF Check, Go, Reply
  <1>2. TypeOK'
    BY <1>1 DEF IInv, TypeOK, tables, Steps, Answers
  <1>3. \A d \in Calls : CallAt(d)'
    BY <1>1 DEF IInv, TypeOK, tables, CallAt, Presented, HoldsEmail, HoldsNumber, EmailFree, Email, Taken
  <1>4. \A d, e \in Calls : d # e => Apart(d, e)'
    BY <1>1 DEF IInv, TypeOK, tables, Apart, HoldsEmail, HoldsNumber, Email
  <1>5. BooksAt'
    BY <1>1, BooksKept DEF IInv, tables, Rows
  <1> QED BY <1>2, <1>3, <1>4, <1>5 DEF IInv

\* The address is free, and no open registration has it.
LEMMA InsertUserInv ==
    ASSUME IInv, NEW c \in Calls, insert_user(c)
    PROVE  IInv'
  <1>1. /\ pc[c] = "checked" /\ \A o \in Calls \ {c} : HoldsEmail(o) => Email(o) # Email(c)
        /\ \/ EmailFree(c) /\ pc' = [pc EXCEPT ![c] = "user"] /\ answer' = answer
           \/ pc' = [pc EXCEPT ![c] = "done"] /\ answer' = [answer EXCEPT ![c] = "server_error"]
        /\ UNCHANGED <<now, tables, local>>
    BY DEF insert_user, Go, Reply
  <1>2. TypeOK'
    BY <1>1 DEF IInv, TypeOK, tables, Steps, Answers
  <1>3. \A d \in Calls : CallAt(d)'
    BY <1>1 DEF IInv, TypeOK, tables, CallAt, Presented, HoldsEmail, HoldsNumber, EmailFree, Email, Taken
  <1>4. \A d, e \in Calls : d # e => Apart(d, e)'
    BY <1>1 DEF IInv, TypeOK, tables, Apart, HoldsEmail, HoldsNumber, Email
  <1>5. BooksAt'
    BY <1>1, BooksKept DEF IInv, tables, Rows
  <1> QED BY <1>2, <1>3, <1>4, <1>5 DEF IInv

\* A number is only a candidate until it is inserted.
LEMMA GenerateInv ==
    ASSUME IInv, NEW c \in Calls, NEW n \in Numbers, generate_account_number(c, n)
    PROVE  IInv'
  <1>1. /\ pc[c] = "user" /\ pc' = [pc EXCEPT ![c] = "numbered"] /\ answer' = answer
        /\ local' = [local EXCEPT ![c] = n] /\ UNCHANGED <<now, tables>>
    BY DEF generate_account_number, Go
  <1>2. TypeOK'
    BY <1>1 DEF IInv, TypeOK, tables, Steps, Answers
  <1>3. \A d \in Calls : CallAt(d)'
    BY <1>1 DEF IInv, TypeOK, tables, CallAt, Presented, HoldsEmail, HoldsNumber, EmailFree, Email, Taken
  <1>4. \A d, e \in Calls : d # e => Apart(d, e)'
    BY <1>1 DEF IInv, TypeOK, tables, Apart, HoldsEmail, HoldsNumber, Email
  <1>5. BooksAt'
    BY <1>1, BooksKept DEF IInv, tables, Rows
  <1> QED BY <1>2, <1>3, <1>4, <1>5 DEF IInv

\* The number is free, and no open registration has inserted it.
LEMMA InsertCustomerInv ==
    ASSUME IInv, NEW c \in Calls, insert_customer(c)
    PROVE  IInv'
  <1>1. /\ pc[c] = "numbered" /\ \A o \in Calls \ {c} : HoldsNumber(o) => local[o] # local[c]
        /\ \/ local[c] \notin Taken /\ pc' = [pc EXCEPT ![c] = "customer"] /\ answer' = answer
           \/ pc' = [pc EXCEPT ![c] = "done"] /\ answer' = [answer EXCEPT ![c] = "server_error"]
        /\ UNCHANGED <<now, tables, local>>
    BY DEF insert_customer, Go, Reply
  <1>2. TypeOK'
    BY <1>1 DEF IInv, TypeOK, tables, Steps, Answers
  <1>3. \A d \in Calls : CallAt(d)'
    BY <1>1 DEF IInv, TypeOK, tables, CallAt, Presented, HoldsEmail, HoldsNumber, EmailFree, Email, Taken
  <1>4. \A d, e \in Calls : d # e => Apart(d, e)'
    BY <1>1 DEF IInv, TypeOK, tables, Apart, HoldsEmail, HoldsNumber, Email
  <1>5. BooksAt'
    BY <1>1, BooksKept DEF IInv, tables, Rows
  <1> QED BY <1>2, <1>3, <1>4, <1>5 DEF IInv

\* The commit makes one user with one customer; the address and the number that
\* it takes were free and are no other registration's.
LEMMA CommitRegisterInv ==
    ASSUME IInv, NEW c \in Calls, CommitRegister(c)
    PROVE  IInv'
  <1> DEFINE row == [user |-> c, number |-> local[c]]
  <1>1. /\ pc[c] = "customer" /\ pc' = [pc EXCEPT ![c] = "committed"] /\ answer' = answer
        /\ users' = users \cup {c} /\ customers' = customers \cup {row}
        /\ applications' = applications \cup {c}
        /\ sessions' = [sessions EXCEPT ![c] = SessionRow(c)]
        /\ UNCHANGED <<now, local>>
    BY DEF CommitRegister, Go
  <1>2. c \in Registers /\ HoldsEmail(c) /\ HoldsNumber(c) /\ local[c] \in Numbers
    BY <1>1 DEF IInv, CallAt, HoldsEmail, HoldsNumber
  <1>3. EmailFree(c) /\ local[c] \notin Taken /\ c \notin users
    BY <1>2 DEF IInv, CallAt, EmailFree
  <1> HIDE DEF row
  <1>4. /\ Taken' = Taken \cup {local[c]}
        /\ {k.user : k \in customers'} = {k.user : k \in customers} \cup {c}
    <2>1. row.user = c /\ row.number = local[c]
      BY DEF row
    <2>2. customers' = customers \cup {row}
      BY <1>1
    <2>3. {k.user : k \in customers'} = {k.user : k \in customers} \cup {c}
      BY <2>1, <2>2
    <2>4. {k.number : k \in customers'} = {k.number : k \in customers} \cup {local[c]}
      BY <2>1, <2>2
    <2> QED BY <2>3, <2>4 DEF Taken
  <1>5. SessionRow(c) \in [user : Registers, expires_at : 0 .. End + SESSION_TTL, revoked : BOOLEAN]
    BY <1>2, SessionsAssumption DEF SessionRow, IInv, TypeOK
  <1>6. SessionRow(c).user = c /\ SessionRow(c) # None
    BY <1>5, SessionsAssumption DEF SessionRow
  <1>7. TypeOK'
    BY <1>1, <1>2, <1>5 DEF IInv, TypeOK, Steps, Answers, row
  <1>8. ASSUME NEW d \in Calls PROVE CallAt(d)'
    <2>1. CASE d = c
      BY <1>1, <1>2, <1>6, <2>1 DEF IInv, TypeOK, CallAt, Presented, HoldsEmail, HoldsNumber, Email
    <2>2. CASE d # c
      <3>1. Apart(c, d) /\ CallAt(d)
        BY <2>2 DEF IInv
      <3>2. pc'[d] = pc[d] /\ sessions'[d] = sessions[d]
        BY <1>1, <2>2 DEF IInv, TypeOK
      <3> QED BY <1>1, <1>2, <1>4, <3>1, <3>2 DEF CallAt, Apart, Presented, HoldsEmail, HoldsNumber,
              EmailFree, Email
    <2> QED BY <2>1, <2>2
  <1>9. \A d, e \in Calls : d # e => Apart(d, e)'
    BY <1>1 DEF IInv, TypeOK, Apart, HoldsEmail, HoldsNumber, Email
  <1>10. BooksAt'
    <2>1. row \notin customers /\ \A k \in customers : k.user # c
      BY <1>3 DEF IInv, BooksAt, row
    <2>2. /\ IsFiniteSet(customers') /\ Cardinality(customers') = Cardinality(customers) + 1
          /\ IsFiniteSet(Taken') /\ Cardinality(Taken') = Cardinality(Taken) + 1
      BY <1>1, <1>3, <1>4, <2>1, FS_AddElement DEF IInv, BooksAt
    <2>3. \A u, v \in users' : Email(u)' = Email(v)' => u = v
      BY <1>1, <1>3 DEF IInv, BooksAt, EmailFree, Email
    <2>4. \A j, k \in customers' : j.user = k.user => j = k
      BY <1>1, <2>1 DEF IInv, BooksAt, row
    <2>5. applications' = users' /\ {k.user : k \in customers'} = users'
      BY <1>1, <1>4 DEF IInv, BooksAt
    <2> QED BY <2>2, <2>3, <2>4, <2>5 DEF IInv, BooksAt
  <1> QED BY <1>7, <1>8, <1>9, <1>10 DEF IInv

\* Only the credentials of an account let a login in.
LEMMA VerifyInv ==
    ASSUME IInv, NEW c \in Calls, Verify(c)
    PROVE  IInv'
  <1> DEFINE match == {u \in find_user_by_email(Spelling[c]) : Password[u] = Password[c]}
  <1>1. /\ c \notin Registers /\ pc[c] = "idle" /\ UNCHANGED <<now, tables>>
        /\ \/ /\ pc' = [pc EXCEPT ![c] = "done"] /\ answer' = [answer EXCEPT ![c] = "unauthorized"]
              /\ local' = local
           \/ /\ pc' = [pc EXCEPT ![c] = "found"] /\ answer' = answer
              /\ \E u \in match : local' = [local EXCEPT ![c] = u]
    BY DEF Verify, Go, Reply
  <1>2. \A u \in match : Presented(u, c)
    BY DEF find_user_by_email, Presented, Email
  <1> HIDE DEF match
  <1>3. \A u \in match : u \in Registers
    BY <1>2 DEF Presented, IInv, TypeOK
  <1>4. TypeOK'
    BY <1>1, <1>3 DEF IInv, TypeOK, tables, Steps, Answers
  <1>5. \A d \in Calls : CallAt(d)'
    BY <1>1, <1>2 DEF IInv, TypeOK, tables, CallAt, Presented, HoldsEmail, HoldsNumber, EmailFree, Email, Taken
  <1>6. \A d, e \in Calls : d # e => Apart(d, e)'
    BY <1>1 DEF IInv, TypeOK, tables, Apart, HoldsEmail, HoldsNumber, Email
  <1>7. BooksAt'
    BY <1>1, BooksKept DEF IInv, tables, Rows
  <1> QED BY <1>4, <1>5, <1>6, <1>7 DEF IInv

\* The user that was found is the user that is let in.
LEMMA ContextInv ==
    ASSUME IInv, NEW c \in Calls, find_session_context(c)
    PROVE  IInv'
  <1>1. /\ pc[c] = "found" /\ UNCHANGED <<now, tables, local>>
        /\ \/ pc' = [pc EXCEPT ![c] = "done"] /\ answer' = [answer EXCEPT ![c] = "unauthorized"]
           \/ pc' = [pc EXCEPT ![c] = "verified"] /\ answer' = answer
    BY DEF find_session_context, Go, Reply
  <1>2. TypeOK'
    BY <1>1 DEF IInv, TypeOK, tables, Steps, Answers
  <1>3. \A d \in Calls : CallAt(d)'
    BY <1>1 DEF IInv, TypeOK, tables, CallAt, Presented, HoldsEmail, HoldsNumber, EmailFree, Email, Taken
  <1>4. \A d, e \in Calls : d # e => Apart(d, e)'
    BY <1>1 DEF IInv, TypeOK, tables, Apart, HoldsEmail, HoldsNumber, Email
  <1>5. BooksAt'
    BY <1>1, BooksKept DEF IInv, tables, Rows
  <1> QED BY <1>2, <1>3, <1>4, <1>5 DEF IInv

\* The session is the user's whose credentials matched.
LEMMA CommitLoginInv ==
    ASSUME IInv, NEW c \in Calls, CommitLogin(c)
    PROVE  IInv'
  <1>1. /\ pc[c] = "verified" /\ pc' = [pc EXCEPT ![c] = "committed"] /\ answer' = answer
        /\ sessions' = [sessions EXCEPT ![c] = SessionRow(local[c])]
        /\ UNCHANGED <<now, users, customers, applications, local>>
    BY DEF CommitLogin, Go
  <1>2. Presented(local[c], c) /\ local[c] \in Registers /\ c \notin Registers
    BY <1>1 DEF IInv, TypeOK, CallAt, Presented
  <1>3. SessionRow(local[c]) \in [user : Registers, expires_at : 0 .. End + SESSION_TTL, revoked : BOOLEAN]
    BY <1>2, SessionsAssumption DEF SessionRow, IInv, TypeOK
  <1>4. SessionRow(local[c]).user = local[c] /\ SessionRow(local[c]) # None
    BY <1>3, SessionsAssumption DEF SessionRow
  <1>5. TypeOK'
    BY <1>1, <1>3 DEF IInv, TypeOK, Steps, Answers
  <1>6. \A d \in Calls : CallAt(d)'
    BY <1>1, <1>2, <1>4 DEF IInv, TypeOK, CallAt, Presented, HoldsEmail, HoldsNumber, EmailFree, Email, Taken
  <1>7. \A d, e \in Calls : d # e => Apart(d, e)'
    BY <1>1 DEF IInv, TypeOK, Apart, HoldsEmail, HoldsNumber, Email
  <1>8. BooksAt'
    BY <1>1, BooksKept DEF IInv, Rows
  <1> QED BY <1>5, <1>6, <1>7, <1>8 DEF IInv

\* A call that ends, with its answer or without, changes no table.
LEMMA EndsInv ==
    ASSUME IInv, NEW c \in Calls, Answer(c) \/ Cut(c)
    PROVE  IInv'
  <1>1. /\ pc[c] # "idle" /\ pc' = [pc EXCEPT ![c] = "done"] /\ UNCHANGED <<now, tables, local>>
        /\ \/ answer' = [answer EXCEPT ![c] = "cut"]
           \/ pc[c] = "committed" /\ answer' = [answer EXCEPT ![c] = "session"]
    BY DEF Answer, Cut, Reply
  <1>2. TypeOK'
    BY <1>1 DEF IInv, TypeOK, tables, Steps, Answers
  <1>3. \A d \in Calls : CallAt(d)'
    BY <1>1 DEF IInv, TypeOK, tables, CallAt, Presented, HoldsEmail, HoldsNumber, EmailFree, Email, Taken
  <1>4. \A d, e \in Calls : d # e => Apart(d, e)'
    BY <1>1 DEF IInv, TypeOK, tables, Apart, HoldsEmail, HoldsNumber, Email
  <1>5. BooksAt'
    BY <1>1, BooksKept DEF IInv, tables, Rows
  <1> QED BY <1>2, <1>3, <1>4, <1>5 DEF IInv

\* A logout leaves whose session it was.
LEMMA RevokeInv ==
    ASSUME IInv, NEW c \in Calls, revoke_session(c)
    PROVE  IInv'
  <1>1. /\ answer[c] = "session" /\ sessions' = [sessions EXCEPT ![c].revoked = TRUE]
        /\ UNCHANGED <<now, users, customers, applications, pc, local, answer>>
    BY DEF revoke_session
  <1>2. sessions[c] \in [user : Registers, expires_at : 0 .. End + SESSION_TTL, revoked : BOOLEAN]
    BY <1>1 DEF IInv, TypeOK, CallAt
  <1>3. /\ sessions'[c] \in [user : Registers, expires_at : 0 .. End + SESSION_TTL, revoked : BOOLEAN]
        /\ sessions'[c].user = sessions[c].user
    BY <1>1, <1>2 DEF IInv, TypeOK
  <1>4. sessions'[c] # None
    BY <1>3, SessionsAssumption
  <1>5. \A d \in Calls : d # c => sessions'[d] = sessions[d]
    BY <1>1 DEF IInv, TypeOK
  <1>6. TypeOK'
    BY <1>1, <1>3, <1>5 DEF IInv, TypeOK
  <1>7. ASSUME NEW d \in Calls PROVE CallAt(d)'
    BY <1>1, <1>3, <1>4, <1>5 DEF IInv, CallAt, Presented, HoldsEmail, HoldsNumber, EmailFree, Email, Taken
  <1>8. \A d, e \in Calls : d # e => Apart(d, e)'
    BY <1>1 DEF IInv, Apart, HoldsEmail, HoldsNumber, Email
  <1>9. BooksAt'
    BY <1>1, BooksKept DEF IInv, Rows
  <1> QED BY <1>6, <1>7, <1>8, <1>9 DEF IInv

\* IInv is inductive.
LEMMA NextInv == IInv /\ [Next]_vars => IInv'
  <1> SUFFICES ASSUME IInv, [Next]_vars PROVE IInv'
    OBVIOUS
  <1>1. CASE Tick \/ UNCHANGED vars
    <2>1. UNCHANGED <<tables, pc, local, answer>> /\ now' \in 0 .. End
      BY <1>1, SessionsAssumption DEF Tick, vars, tables, IInv, TypeOK
    <2>2. TypeOK'
      BY <2>1 DEF IInv, TypeOK, tables
    <2>3. \A d \in Calls : CallAt(d)'
      BY <2>1 DEF IInv, tables, CallAt, Presented, HoldsEmail, HoldsNumber, EmailFree, Email, Taken
    <2>4. \A d, e \in Calls : d # e => Apart(d, e)'
      BY <2>1 DEF IInv, Apart, HoldsEmail, HoldsNumber, Email
    <2>5. BooksAt'
      BY <2>1, BooksKept DEF IInv, tables, Rows
    <2> QED BY <2>2, <2>3, <2>4, <2>5 DEF IInv
  <1>2. ASSUME NEW c \in Calls, Call(c) PROVE IInv'
    BY <1>2, CheckInv, InsertUserInv, GenerateInv, InsertCustomerInv, CommitRegisterInv, VerifyInv,
       ContextInv, CommitLoginInv, EndsInv DEF Call
  <1> QED BY <1>1, <1>2, EndsInv, RevokeInv DEF Next

\* ... and so it always holds.
LEMMA Invariant == Spec => []IInv
  BY InitInv, NextInv, PTL DEF Spec
-----------------------------------------------------------------------------
(* What registration and login promise.                                    *)

\* Type correctness of the tables and of the calls.
THEOREM TypeCorrect == Spec => []TypeOK
  <1>1. IInv => TypeOK
    BY DEF IInv
  <1> QED BY <1>1, Invariant, PTL

\* An address has one account and an account is whole, however registrations race
\* (register, the unique indexes), and a token is served as the account whose
\* credentials were presented for it (login, the Session extractor).
THEOREM AccountsAreWhole == Spec => []AccountsWhole
  <1>1. IInv => AccountsWhole
    <2> SUFFICES ASSUME IInv PROVE AccountsWhole
      OBVIOUS
    <2>1. ASSUME NEW u \in users PROVE Cardinality(CustomerOf(u)) = 1
      <3>1. PICK k \in customers : k.user = u
        BY DEF IInv, BooksAt
      <3>2. CustomerOf(u) = {k}
        BY <3>1 DEF IInv, BooksAt, CustomerOf
      <3> QED BY <3>2, FS_Singleton
    <2>2. ASSUME NEW c \in Calls, NEW k \in Session(c)
          PROVE  Email(k.user) = Email(c) /\ Password[k.user] = Password[c]
      <3>1. sessions[c] # None /\ k.user = sessions[c].user
        BY <2>2 DEF Session, CustomerOf
      <3> QED BY <3>1 DEF IInv, CallAt, Presented
    <2>3. \A c \in Calls : sessions[c] # None => sessions[c].user \in users
      BY DEF IInv, CallAt, Presented
    <2> QED BY <2>1, <2>2, <2>3 DEF IInv, BooksAt, AccountsWhole
  <1> QED BY <1>1, Invariant, PTL

\* What a call answers is true of the tables (register, login).
THEOREM AnswersAreTrue == Spec => AnswersTrue
  <1>1. ASSUME IInv, NEW c \in Calls, Call(c)
        PROVE  \E what \in Answers : answer' = [answer EXCEPT ![c] = what]
                                        /\ (what # answer[c] => Justified(c, what))
    <2>1. CASE UNCHANGED answer
      <3>1. answer' = [answer EXCEPT ![c] = answer[c]] /\ answer[c] \in Answers
        BY <1>1, <2>1 DEF IInv, TypeOK
      <3> QED BY <3>1
    <2>2. CASE Check(c) /\ answer' = [answer EXCEPT ![c] = "conflict"]
      <3>1. answer' = answer \/ \E u \in users : Email(u) = Email(c)
        BY <2>2 DEF Check, Go, Reply, find_user_by_email, Email
      <3> QED BY <2>1, <2>2, <3>1 DEF Justified, Answers
    <2>3. CASE insert_user(c) /\ answer' = [answer EXCEPT ![c] = "server_error"]
      <3>1. answer' = answer \/ ~EmailFree(c)
        BY <2>3 DEF insert_user, Go, Reply
      <3> QED BY <2>1, <2>3, <3>1 DEF Justified, EmailFree, Answers
    <2>4. CASE insert_customer(c) /\ answer' = [answer EXCEPT ![c] = "server_error"]
      <3>1. answer' = answer \/ local[c] \in Taken
        BY <2>4 DEF insert_customer, Go, Reply
      <3> QED BY <2>1, <2>4, <3>1 DEF Justified, Answers
    <2>5. CASE Verify(c) /\ answer' = [answer EXCEPT ![c] = "unauthorized"]
      <3> DEFINE match == {u \in find_user_by_email(Spelling[c]) : Password[u] = Password[c]}
      <3>1. answer' = answer \/ match = {}
        BY <2>5 DEF Verify, Go, Reply
      <3>2. match = {} => ~\E u \in users : Email(u) = Email(c) /\ Password[u] = Password[c]
        BY DEF find_user_by_email, Email
      <3> QED BY <2>1, <2>5, <3>1, <3>2 DEF Justified, Answers
    <2>7. CASE find_session_context(c)
      <3>1. local[c] \in users
        BY <1>1, <2>7 DEF find_session_context, IInv, CallAt, Presented
      <3>2. CustomerOf(local[c]) # {}
        BY <1>1, <3>1 DEF IInv, BooksAt, CustomerOf
      <3> QED BY <2>1, <2>7, <3>2 DEF find_session_context, Go
    <2>6. CASE Answer(c)
      <3>1. sessions[c] # None /\ (c \in Registers => sessions[c].user = c)
        BY <1>1, <2>6 DEF Answer, IInv, CallAt
      <3> QED BY <2>6, <3>1 DEF Answer, Reply, Justified, Answers
    <2> QED
      BY <1>1, <2>1, <2>2, <2>3, <2>4, <2>5, <2>6, <2>7 DEF Call, Check, insert_user, insert_customer, Verify,
         generate_account_number, CommitRegister, CommitLogin, Go, Reply
  <1>2. ASSUME NEW c \in Calls, Cut(c)
        PROVE  \E what \in Answers : answer' = [answer EXCEPT ![c] = what] /\ Justified(c, what)
    BY <1>2 DEF Cut, Reply, Justified, Answers
  <1>3. ASSUME IInv, [Next]_vars
        PROVE  \A c \in Calls : answer'[c] # answer[c] => Justified(c, answer'[c])
    <2>1. CASE UNCHANGED answer
      BY <2>1
    <2>2. CASE \E c \in Calls : Call(c) \/ Cut(c)
      <3>1. PICK c \in Calls : Call(c) \/ Cut(c)
        BY <2>2
      <3>2. PICK what \in Answers : /\ answer' = [answer EXCEPT ![c] = what]
                                    /\ what # answer[c] => Justified(c, what)
        BY <1>1, <1>2, <1>3, <3>1
      <3>3. answer'[c] = what /\ \A d \in Calls : d # c => answer'[d] = answer[d]
        BY <1>3, <3>2 DEF IInv, TypeOK
      <3> QED BY <3>2, <3>3
    <2> QED BY <1>3, <2>1, <2>2 DEF Next, Tick, revoke_session, vars
  <1>4. IInv /\ [Next]_vars =>
          [\A c \in Calls : answer'[c] # answer[c] => Justified(c, answer'[c])]_vars
    BY <1>3
  <1> QED BY <1>4, Invariant, PTL DEF Spec, AnswersTrue
=============================================================================
