----------------------------- MODULE Sessions -----------------------------
(***************************************************************************)
(* user-service: accounts and refresh tokens.  A refresh token is a signed *)
(* JWT of the user and of times in whole seconds, so a user's tokens of    *)
(* one second are equal; the table of tokens has their hashes, UNIQUE.  A  *)
(* profile update reads the account and writes it back, all columns but    *)
(* the role and the active flag.                                           *)
(*                                                                         *)
(* Requests are processes that may overlap in any way.                     *)
(***************************************************************************)
EXTENDS Naturals, FiniteSets

CONSTANTS
    Users,          \* email addresses, and the account of each
    Registers, Logins, Refreshes, Logouts, Profiles, Switches,  \* requests, by endpoint
    NoUser,         \* no account
    Empty,          \* an empty field
    NoToken,        \* no token
    Lifetime,       \* seconds until a token expires (seven days)
    MaxTime,        \* bound on the clock
    MaxInFlight     \* bound: how many requests are between two of their steps

Requests == Registers \cup Logins \cup Refreshes \cup Logouts \cup Profiles \cup Switches

ASSUME SessionsAssumption ==
    /\ Registers \cap (Logins \cup Refreshes \cup Logouts \cup Profiles \cup Switches) = {}
    /\ Logins \cap (Refreshes \cup Logouts \cup Profiles \cup Switches) = {}
    /\ Refreshes \cap (Logouts \cup Profiles \cup Switches) = {}
    /\ Logouts \cap (Profiles \cup Switches) = {}
    /\ Profiles \cap Switches = {}
    /\ IsFiniteSet(Logins) /\ IsFiniteSet(Logouts)
    /\ NoUser \notin Users
    /\ Empty \notin Requests
    /\ Lifetime \in Nat \ {0}
    /\ MaxTime \in Nat
    /\ MaxInFlight \in Nat \ {0}

\* A field holds the name of the request that gave it its value.
Account == [name : Requests, phone : Requests \cup {Empty}, active : BOOLEAN]
Token == [user : Users, second : Nat]

ASSUME NullAssumption == NoUser \notin Account /\ NoToken \notin Token

VARIABLES
    users,      \* table users, by email, which is UNIQUE
    tokens,     \* table refresh_tokens
    clock,      \* time.Now() in seconds
    pc,         \* pc[q] : the next step of request q, or its answer
    account,    \* account[q] : the user that request q found
    token,      \* token[q] : the token that q generated or was sent
    draft,      \* draft[q] : the account that a profile update will write
    saved,      \* the logins whose INSERT took effect
    revoked,    \* the logouts whose DELETE took effect
    switched,   \* switched[u] : the flag last set by SetStatus, TRUE before
    base        \* base[q] : the row that a profile update read

\* Only the properties look at the history.
history == <<saved, revoked, switched, base>>
vars == <<users, tokens, clock, pc, account, token, draft, history>>

InProgress == {"generate", "save", "find", "user", "revoke", "write"}
Answered == {"ok", "failed"}

Admit == Cardinality({q \in Requests : pc[q] \in InProgress}) < MaxInFlight

\* The variables of a profile update are gone when it ends.
Forget(q) ==
    /\ draft' = [p \in Profiles |-> IF p = q THEN NoUser ELSE draft[p]]
    /\ base' = [p \in Profiles |-> IF p = q THEN NoUser ELSE base[p]]

Goto(q, next) == pc' = [pc EXCEPT ![q] = next]

\* The answer of a statement that took effect may be lost.  Only a login
\* answers something that is used again.
Answer(q) ==
    \E answer \in IF q \in Logins THEN Answered ELSE {"ok"} : Goto(q, answer)

----------------------------------------------------------------------------
(* Requests that end without a statement that takes effect                  *)

\* A body that does not decode or validate, a wrong password, a caller who is
\* not an admin, a lookup or its row that is missing.
Reject(q) ==
    /\ pc[q] = "new"
    /\ Goto(q, "failed")
    /\ UNCHANGED <<users, tokens, clock, account, token, draft, history>>

\* A statement fails, the client goes away, the process stops.
Abort(q) ==
    /\ pc[q] \in InProgress
    /\ Goto(q, "failed")
    /\ Forget(q)
    /\ UNCHANGED <<users, tokens, clock, account, token, saved, revoked, switched>>

----------------------------------------------------------------------------
(* service/auth                                                             *)

\* One INSERT, the phone may be empty; a second account for the email is refused.
Register(q, u, phone) ==
    /\ pc[q] = "new" /\ users[u] = NoUser
    /\ users' = [users EXCEPT ![u] = [name |-> q, phone |-> phone, active |-> TRUE]]
    /\ Answer(q)
    /\ UNCHANGED <<tokens, clock, account, token, draft, history>>

LoginFind_DropsUser(q, u) ==
    /\ pc[q] = "new" /\ Admit
    /\ users[u] # NoUser /\ users[u].active
    /\ Goto(q, "generate")
    /\ UNCHANGED <<users, tokens, clock, account, token, draft, history>>

\* Login: FindByEmail, the password, the flag.
LoginFind(q, u) ==
    /\ pc[q] = "new" /\ Admit
    /\ users[u] # NoUser /\ users[u].active
    /\ account' = [account EXCEPT ![q] = u]
    /\ Goto(q, "generate")
    /\ UNCHANGED <<users, tokens, clock, token, draft, history>>

\* GenerateRefreshToken: the claims are the user and the second.
GenerateRefreshToken(q) ==
    /\ pc[q] = "generate"
    /\ token' = [token EXCEPT ![q] = [user |-> account[q], second |-> clock]]
    /\ Goto(q, "save")
    /\ UNCHANGED <<users, tokens, clock, account, draft, history>>

Save_Upsert(q) ==
    /\ pc[q] = "save"
    /\ tokens' = tokens \cup {token[q]}
    /\ saved' = saved \cup {q}
    /\ Answer(q)
    /\ UNCHANGED <<users, clock, account, token, draft, revoked, switched, base>>

\* The INSERT of the hash; the hash is UNIQUE.
Save(q) ==
    /\ pc[q] = "save"
    /\ IF token[q] \notin tokens
       THEN tokens' = tokens \cup {token[q]} /\ saved' = saved \cup {q} /\ Answer(q)
       ELSE Goto(q, "failed") /\ UNCHANGED <<tokens, saved>>
    /\ UNCHANGED <<users, clock, account, token, draft, revoked, switched, base>>

\* The tokens that clients hold: a login gave them.
Received == {token[l] : l \in {l \in Logins : pc[l] = "ok"}}

\* ValidateRefreshToken: the signature and the expiry, before the table is asked.
ValidateRefreshToken(q, t, next) ==
    /\ pc[q] = "new" /\ Admit
    /\ clock < t.second + Lifetime
    /\ token' = [token EXCEPT ![q] = t]
    /\ Goto(q, next)
    /\ UNCHANGED <<users, tokens, clock, account, draft, history>>

\* RefreshToken: the hash is in the table.
FindByTokenHash(q) ==
    /\ pc[q] = "find" /\ token[q] \in tokens
    /\ Goto(q, "user")
    /\ UNCHANGED <<users, tokens, clock, account, token, draft, history>>

\* FindByID and a new access token.  The active flag is not looked at.
RefreshUser(q) ==
    /\ pc[q] = "user"
    /\ users[token[q].user] # NoUser
    /\ Goto(q, "ok")
    /\ UNCHANGED <<users, tokens, clock, account, token, draft, history>>

Revoke_AllOfUser(q) ==
    /\ pc[q] = "revoke" /\ token[q] \in tokens
    /\ tokens' = {t \in tokens : t.user # token[q].user}
    /\ revoked' = revoked \cup {q} /\ Answer(q)
    /\ UNCHANGED <<users, clock, account, token, draft, saved, switched, base>>

\* Logout: one DELETE, an error if it deleted nothing.
Revoke(q) ==
    /\ pc[q] = "revoke"
    /\ IF token[q] \in tokens
       THEN tokens' = tokens \ {token[q]} /\ revoked' = revoked \cup {q} /\ Answer(q)
       ELSE Goto(q, "failed") /\ UNCHANGED <<tokens, revoked>>
    /\ UNCHANGED <<users, clock, account, token, draft, saved, switched, base>>

----------------------------------------------------------------------------
(* service/user                                                             *)

UpdateProfile_BlankPhone(q, u, fields) ==
    /\ pc[q] = "new" /\ Admit
    /\ users[u] # NoUser
    /\ account' = [account EXCEPT ![q] = u]
    /\ draft' = [draft EXCEPT ![q] =
          [name |-> IF "name" \in fields THEN q ELSE users[u].name,
           phone |-> IF "phone" \in fields THEN q ELSE Empty,
           active |-> users[u].active]]
    /\ base' = [base EXCEPT ![q] = users[u]]
    /\ Goto(q, "write")
    /\ UNCHANGED <<users, tokens, clock, token, saved, revoked, switched>>

\* UpdateProfile: FindByID; empty fields of the request keep what was read.
UpdateProfile(q, u, fields) ==
    /\ pc[q] = "new" /\ Admit
    /\ users[u] # NoUser
    /\ account' = [account EXCEPT ![q] = u]
    /\ draft' = [draft EXCEPT ![q] =
          [name |-> IF "name" \in fields THEN q ELSE users[u].name,
           phone |-> IF "phone" \in fields THEN q ELSE users[u].phone,
           active |-> users[u].active]]
    /\ base' = [base EXCEPT ![q] = users[u]]
    /\ Goto(q, "write")
    /\ UNCHANGED <<users, tokens, clock, token, saved, revoked, switched>>

Update_WholeRow(q) ==
    /\ pc[q] = "write"
    /\ users' = [users EXCEPT ![account[q]] = draft[q]]
    /\ Forget(q)
    /\ Answer(q)
    /\ UNCHANGED <<tokens, clock, account, token, saved, revoked, switched>>

\* The UPDATE of name, phone and password_hash; is_active is not among them.
Update(q) ==
    /\ pc[q] = "write"
    /\ users' = [users EXCEPT ![account[q]] =
          [name |-> draft[q].name, phone |-> draft[q].phone, active |-> users[account[q]].active]]
    /\ Forget(q)
    /\ Answer(q)
    /\ UNCHANGED <<tokens, clock, account, token, saved, revoked, switched>>

\* SetAccountStatus of an admin: one UPDATE.
SetStatus(q, u, active) ==
    /\ pc[q] = "new"
    /\ users[u] # NoUser
    /\ users' = [users EXCEPT ![u] =
          [name |-> users[u].name, phone |-> users[u].phone, active |-> active]]
    /\ switched' = [switched EXCEPT ![u] = active]
    /\ Answer(q)
    /\ UNCHANGED <<tokens, clock, account, token, draft, saved, revoked, base>>

Tick ==
    /\ clock < MaxTime
    /\ clock' = clock + 1
    /\ UNCHANGED <<users, tokens, pc, account, token, draft, history>>

----------------------------------------------------------------------------
Init ==
    /\ users = [u \in Users |-> NoUser]
    /\ tokens = {}
    /\ clock = 0
    /\ pc = [q \in Requests |-> "new"]
    /\ account = [q \in Logins \cup Profiles |-> NoUser]
    /\ token = [q \in Logins \cup Refreshes \cup Logouts |-> NoToken]
    /\ draft = [q \in Profiles |-> NoUser]
    /\ saved = {}
    /\ revoked = {}
    /\ switched = [u \in Users |-> TRUE]
    /\ base = [q \in Profiles |-> NoUser]

AuthStep(q) ==
    \/ q \in Registers /\ \E u \in Users, phone \in {q, Empty} : Register(q, u, phone)
    \/ q \in Logins /\ (GenerateRefreshToken(q) \/ Save(q) \/ \E u \in Users : LoginFind(q, u))
    \/ q \in Refreshes /\ (FindByTokenHash(q) \/ RefreshUser(q))
    \/ q \in Refreshes /\ \E t \in Received : ValidateRefreshToken(q, t, "find")
    \/ q \in Logouts /\ (Revoke(q) \/ \E t \in Received : ValidateRefreshToken(q, t, "revoke"))

UserStep(q) ==
    \/ q \in Profiles /\ Update(q)
    \/ q \in Profiles /\ \E u \in Users, fields \in SUBSET {"name", "phone"} :
                             UpdateProfile(q, u, fields)
    \/ q \in Switches /\ \E u \in Users, active \in BOOLEAN : SetStatus(q, u, active)

Next ==
    \/ \E q \in Requests : AuthStep(q) \/ UserStep(q) \/ Reject(q) \/ Abort(q)
    \/ Tick

Spec == Init /\ [][Next]_vars

----------------------------------------------------------------------------
(* Properties                                                               *)

\* Every variable has its type.
TypeOK ==
    /\ users \in [Users -> Account \cup {NoUser}]
    /\ tokens \in SUBSET Token
    /\ clock \in Nat
    /\ pc \in [Requests -> {"new"} \cup InProgress \cup Answered]
    /\ account \in [Logins \cup Profiles -> Users \cup {NoUser}]
    /\ token \in [Logins \cup Refreshes \cup Logouts -> Token \cup {NoToken}]
    /\ draft \in [Profiles -> Account \cup {NoUser}]
    /\ saved \in SUBSET Logins
    /\ revoked \in SUBSET Logouts
    /\ switched \in [Users -> BOOLEAN]
    /\ base \in [Profiles -> Account \cup {NoUser}]

With(requests, t) == {q \in requests : token[q] = t}

\* Sessions are conserved: however logins and logouts of one second interleave,
\* and whatever answers are lost, every login that was saved is one logout that
\* took effect or the row in the table.  No logout ends two sessions.
TokensAccounted ==
    \A t \in {token[q] : q \in Logins \cup Logouts} \ {NoToken} :
        Cardinality(With(saved, t)) =
            Cardinality(With(revoked, t)) + IF t \in tokens THEN 1 ELSE 0

\* Who is answered holds what the answer says: a login answered 200 was saved,
\* and its token is in the table until a logout that sent this very token took
\* effect, whichever other sessions of the user end meanwhile.
SessionsLast ==
    \A q \in Logins : pc[q] = "ok" =>
        q \in saved /\ (token[q] \in tokens \/ With(revoked, token[q]) # {})

\* The flag of an account is the one last set by SetStatus; profile updates that
\* read the account before and write it after do not bring the old flag back.
FlagIsLastSet ==
    \A u \in Users : users[u] # NoUser => users[u].active = switched[u]

\* A profile update changes a field that its request left empty only if another
\* request changed that field between its read and its write.
EmptyFieldsKept ==
    [][\A q \in Profiles : pc[q] = "write" /\ users' # users /\ pc'[q] # pc[q] =>
          LET u == account[q] IN
          \A f \in {"name", "phone"} :
             draft[q][f] # q /\ users[u][f] = base[q][f] => users'[u][f] = users[u][f]]_vars
=============================================================================
