------------------------------- MODULE Sessions -------------------------------
(***************************************************************************)
(* Registration, login and logout (domain/auth) and the Session extractor  *)
(* (http/auth.rs): concurrent calls, statement by statement, with the      *)
(* unique indexes of migrations 008 and 013 they wait on, and requests     *)
(* that are cut off at any point.                                          *)
(*                                                                         *)
(* A call makes at most one session, so the call also names its token.     *)
(***************************************************************************)
EXTENDS Integers, FiniteSets

CONSTANTS
    Calls,          \* POST /register and /login calls
    Registers,      \* which of them register
    Spelling,       \* [Calls -> the e-mail address as typed]
    Password,       \* [Calls -> the password as typed]
    Lower,          \* lower() on those addresses; no address is trimmed
    Numbers,        \* account numbers
    SESSION_TTL,    \* SESSION_TTL_DAYS
    End,            \* bound on the clock
    None

ASSUME SessionsAssumption ==
    /\ Registers \subseteq Calls
    /\ DOMAIN Spelling = Calls /\ DOMAIN Password = Calls
    /\ \A c \in Calls : Spelling[c] \in DOMAIN Lower
    /\ SESSION_TTL \in Nat \ {0} /\ End \in Nat
    /\ None \notin Calls \cup Numbers
    /\ None \notin [user : Registers, expires_at : 0 .. End + SESSION_TTL, revoked : BOOLEAN]

VARIABLES
    now,            \* the database's and the server's clock
    users,          \* committed users: the call that inserted each
    customers,      \* committed customers: [user, number]
    applications,   \* committed onboarding_applications: the user of each
    sessions,       \* [Calls -> committed session row, or None]
    pc,             \* where each call is
    local,          \* its candidate account number, or the user it logs in
    answer          \* what it answered

vars == <<now, users, customers, applications, sessions, pc, local, answer>>
tables == <<users, customers, applications, sessions>>
-----------------------------------------------------------------------------
Email(c) == Lower[Spelling[c]]

\* Mutant of find_user_by_email: the address is compared as typed.
find_exactly(spelling) == {u \in users : Spelling[u] = spelling}

\* The committed users of an address, whatever its case.
find_user_by_email(spelling) == {u \in users : Email(u) = Lower[spelling]}

\* The customer the `users join customers` lookup finds.
CustomerOf(u) == {k \in customers : k.user = u}

\* Where the open transaction of a register call holds an index entry.
HoldsEmail(c) == c \in Registers /\ pc[c] \in {"user", "numbered", "customer"}
HoldsNumber(c) == c \in Registers /\ pc[c] = "customer"

Go(c, to) ==
    /\ pc' = [pc EXCEPT ![c] = to]
    /\ UNCHANGED answer

Reply(c, what) ==
    /\ pc' = [pc EXCEPT ![c] = "done"]
    /\ answer' = [answer EXCEPT ![c] = what]
-----------------------------------------------------------------------------
(* register.                                                               *)

\* The lookup, on the pool: nothing is locked for what follows.
Check(c) ==
    /\ c \in Registers
    /\ pc[c] = "idle"
    /\ IF find_user_by_email(Spelling[c]) # {} THEN Reply(c, "conflict") ELSE Go(c, "checked")
    /\ UNCHANGED <<now, tables, local>>

\* Mutant of EmailFree: the index is on the address as typed.
EmailFreeAsTyped(c) == \A u \in users : Spelling[u] # Spelling[c]
EmailFree(c) == \A u \in users : Email(u) # Email(c)

\* insert_user waits for another transaction's entry in the unique index; a
\* violation is a database error, which answers 500.
insert_user(c) ==
    /\ pc[c] = "checked"
    /\ \A o \in Calls \ {c} : HoldsEmail(o) => Email(o) # Email(c)
    /\ IF EmailFree(c) THEN Go(c, "user") ELSE Reply(c, "server_error")
    /\ UNCHANGED <<now, tables, local>>

Taken == {k.number : k \in customers}

\* generate_account_number: one that no committed customer has.
generate_account_number(c, n) ==
    /\ pc[c] = "user"
    /\ n \notin Taken
    /\ local' = [local EXCEPT ![c] = n]
    /\ Go(c, "numbered")
    /\ UNCHANGED <<now, tables>>

\* insert_customer, with the number generated; it waits in the same way.
insert_customer(c) ==
    /\ pc[c] = "numbered"
    /\ \A o \in Calls \ {c} : HoldsNumber(o) => local[o] # local[c]
    /\ IF local[c] \notin Taken THEN Go(c, "customer") ELSE Reply(c, "server_error")
    /\ UNCHANGED <<now, tables, local>>

SessionRow(u) == [user |-> u, expires_at |-> now + SESSION_TTL, revoked |-> FALSE]

\* The draft application and the session, and the commit of all four rows.
CommitRegister(c) ==
    /\ pc[c] = "customer"
    /\ users' = users \cup {c}
    /\ customers' = customers \cup {[user |-> c, number |-> local[c]]}
    /\ applications' = applications \cup {c}
    /\ sessions' = [sessions EXCEPT ![c] = SessionRow(c)]
    /\ Go(c, "committed")
    /\ UNCHANGED <<now, local>>
-----------------------------------------------------------------------------
(* login.                                                                  *)

\* The user by address, and the password.
Verify(c) ==
    /\ c \in Calls \ Registers
    /\ pc[c] = "idle"
    /\ LET match == {u \in find_user_by_email(Spelling[c]) : Password[u] = Password[c]}
       IN  IF match = {} THEN Reply(c, "unauthorized") /\ UNCHANGED local
           ELSE /\ local' = [local EXCEPT ![c] = CHOOSE u \in match : TRUE]
                /\ Go(c, "found")
    /\ UNCHANGED <<now, tables>>

\* The customer of the user.
find_session_context(c) ==
    /\ pc[c] = "found"
    /\ IF CustomerOf(local[c]) = {} THEN Reply(c, "unauthorized") ELSE Go(c, "verified")
    /\ UNCHANGED <<now, tables, local>>

\* Mutant of CommitLogin: the row refers to the call and not to the user found.
CommitLoginUnresolved(c) ==
    /\ pc[c] = "verified"
    /\ sessions' = [sessions EXCEPT ![c] = SessionRow(c)]
    /\ Go(c, "committed")
    /\ UNCHANGED <<now, users, customers, applications, local>>

\* insert_session in a transaction of its own; earlier sessions stay.
CommitLogin(c) ==
    /\ pc[c] = "verified"
    /\ sessions' = [sessions EXCEPT ![c] = SessionRow(local[c])]
    /\ Go(c, "committed")
    /\ UNCHANGED <<now, users, customers, applications, local>>
-----------------------------------------------------------------------------
\* The answer carries the cookie.
Answer(c) ==
    /\ pc[c] = "committed"
    /\ Reply(c, "session")
    /\ UNCHANGED <<now, tables, local>>

\* The call is dropped or the database fails it: its 15 s are over, the
\* connection or the server is gone.  An open transaction rolls back, a
\* committed one stays.
Cut(c) ==
    /\ pc[c] \notin {"idle", "done"}
    /\ Reply(c, "cut")
    /\ UNCHANGED <<now, tables, local>>

\* logout with the cookie that an answer carried.
revoke_session(c) ==
    /\ answer[c] = "session"
    /\ ~sessions[c].revoked
    /\ sessions' = [sessions EXCEPT ![c].revoked = TRUE]
    /\ UNCHANGED <<now, users, customers, applications, pc, local, answer>>

Tick ==
    /\ now < End
    /\ now' = now + 1
    /\ UNCHANGED <<tables, pc, local, answer>>

\* The Session extractor: the account a request with this token is served as.
Session(c) ==
    IF /\ sessions[c] # None
       /\ ~sessions[c].revoked
       /\ sessions[c].expires_at > now
    THEN CustomerOf(sessions[c].user) ELSE {}
-----------------------------------------------------------------------------
Init ==
    /\ now = 0
    /\ users = {} /\ customers = {} /\ applications = {}
    /\ sessions = [c \in Calls |-> None]
    /\ pc = [c \in Calls |-> "idle"]
    /\ local = [c \in Calls |-> None]
    /\ answer = [c \in Calls |-> "none"]

Call(c) ==
    \/ Check(c)
    \/ insert_user(c)
    \/ \E n \in Numbers : generate_account_number(c, n)
    \/ insert_customer(c)
    \/ CommitRegister(c)
    \/ Verify(c)
    \/ find_session_context(c)
    \/ CommitLogin(c)
    \/ Answer(c)

Next == Tick \/ \E c \in Calls : Call(c) \/ Cut(c) \/ revoke_session(c)

Spec == Init /\ [][Next]_vars
-----------------------------------------------------------------------------
Steps == {"idle", "checked", "user", "numbered", "customer", "found", "verified", "committed", "done"}
Answers == {"none", "session", "conflict", "unauthorized", "server_error", "cut"}

\* Type invariant of the tables and of the calls.
TypeOK ==
    /\ now \in 0 .. End
    /\ users \subseteq Registers /\ applications \subseteq Registers
    /\ customers \subseteq [user : Registers, number : Numbers]
    /\ sessions \in [Calls -> {None} \cup [user : Registers, expires_at : 0 .. End + SESSION_TTL,
                                           revoked : BOOLEAN]]
    /\ pc \in [Calls -> Steps]
    /\ local \in [Calls -> {None} \cup Numbers \cup Registers]
    /\ answer \in [Calls -> Answers]

\* However registrations race and wherever they are cut off, an address has one
\* account; an account has its one customer, with a number of its own, and its
\* application; and a request with a session's token is served as the account
\* whose address and password were presented for it.
AccountsWhole ==
    /\ \A u, v \in users : Email(u) = Email(v) => u = v
    /\ \A u \in users : Cardinality(CustomerOf(u)) = 1
    /\ Cardinality(Taken) = Cardinality(customers)
    /\ applications = users /\ {k.user : k \in customers} = users
    /\ \A c \in Calls : sessions[c] # None => sessions[c].user \in users
    /\ \A c \in Calls : \A k \in Session(c) :
          Email(k.user) = Email(c) /\ Password[k.user] = Password[c]

\* Why a call may answer what it answers.
Justified(c, what) ==
    CASE what = "conflict" -> \E u \in users : Email(u) = Email(c)
      [] what = "server_error" ->
            (\E u \in users : Email(u) = Email(c)) \/ local[c] \in Taken
      [] what = "unauthorized" ->
            ~\E u \in users : Email(u) = Email(c) /\ Password[u] = Password[c]
      [] what = "session" ->
            /\ sessions[c] # None
            /\ c \in Registers => sessions[c].user = c
      [] what = "cut" -> TRUE

\* What a call answers is true of the tables it leaves, also when another call
\* committed between its check and its insert: a conflict or an error of a
\* registration has an account that took its address or number, credentials are
\* refused only when no account has them, and a session that is given is stored.
AnswersTrue ==
    [][\A c \in Calls : answer'[c] # answer[c] => Justified(c, answer'[c])]_vars
=============================================================================
