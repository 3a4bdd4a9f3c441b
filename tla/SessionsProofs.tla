-------------------------- MODULE SessionsProofs --------------------------
(***************************************************************************)
(* Sessions: its types, that no profile update brings an old active flag   *)
(* back, and that sessions are conserved, for any number of accounts and   *)
(* requests.                                                               *)
(***************************************************************************)
EXTENDS Sessions, FiniteSetTheorems, TLAPS

\* A request never is of two endpoints, and each kind of request is a request.
LEMMA Kinds ==
    /\ Registers \subseteq Requests /\ Logins \subseteq Requests
    /\ Refreshes \subseteq Requests /\ Logouts \subseteq Requests
    /\ Profiles \subseteq Requests /\ Switches \subseteq Requests
BY DEF Requests

\* What a request has found or generated when it comes to its next step.
Prepared ==
    /\ \A q \in Logins : pc[q] = "generate" => account[q] \in Users
    /\ \A q \in Logins : pc[q] \in {"save", "ok"} => token[q] \in Token
    /\ \A q \in Profiles : pc[q] = "write" =>
          /\ account[q] \in Users /\ draft[q] \in Account /\ users[account[q]] \in Account
          /\ draft[q].name # q => draft[q].name = base[q].name
          /\ draft[q].phone # q => draft[q].phone = base[q].phone

\* An account that is not there yet has no flag set.
UnsetIsActive == \A u \in Users : users[u] = NoUser => switched[u] = TRUE

IInv ==
    /\ TypeOK
    /\ Prepared
    /\ FlagIsLastSet
    /\ UnsetIsActive

\* Where the answer of q is looked up.
LEMMA AnswerStep ==
  ASSUME TypeOK, NEW q \in Requests, Answer(q)
  PROVE  /\ pc' \in [Requests -> {"new"} \cup InProgress \cup Answered]
         /\ \A r \in Requests \ {q} : pc'[r] = pc[r]
         /\ pc'[q] \in Answered
         /\ q \notin Logins => pc'[q] = "ok"
BY DEF TypeOK, Answer, Answered, Goto

\* The same of a step that says where q goes.
LEMMA GotoStep ==
  ASSUME TypeOK, NEW q \in Requests, NEW next \in {"new"} \cup InProgress \cup Answered,
         Goto(q, next)
  PROVE  /\ pc' \in [Requests -> {"new"} \cup InProgress \cup Answered]
         /\ \A r \in Requests \ {q} : pc'[r] = pc[r]
         /\ pc'[q] = next
BY DEF TypeOK, Goto

\* An account is not NoUser.
LEMMA UserTypes ==
  ASSUME TypeOK
  PROVE  \A u \in Users : users[u] # NoUser =>
            /\ users[u] \in Account
            /\ users[u].name \in Requests
            /\ users[u].phone \in Requests \cup {Empty}
            /\ users[u].active \in BOOLEAN
<1>1. \A u \in Users : users[u] # NoUser => users[u] \in Account
  BY DEF TypeOK
<1> QED BY <1>1 DEF Account

LEMMA InitInv == Init => IInv
BY Kinds, SessionsAssumption, NullAssumption
   DEF Init, IInv, TypeOK, Prepared, FlagIsLastSet, UnsetIsActive, InProgress, Answered

----------------------------------------------------------------------------
(* The actions that leave the accounts alone                                *)

\* A rejected or aborted request.
LEMMA FailStep ==
  ASSUME IInv, NEW q \in Requests, Reject(q) \/ Abort(q)
  PROVE  IInv'
<1>1. /\ UNCHANGED <<users, tokens, clock, account, token, saved, revoked, switched>>
      /\ draft' \in [Profiles -> Account \cup {NoUser}]
      /\ base' \in [Profiles -> Account \cup {NoUser}]
      /\ \A p \in Profiles \ {q} : draft'[p] = draft[p] /\ base'[p] = base[p]
  BY DEF Reject, Abort, Forget, history, IInv, TypeOK
<1>2. Goto(q, "failed")
  BY DEF Reject, Abort
<1>3. /\ pc' \in [Requests -> {"new"} \cup InProgress \cup Answered]
      /\ \A r \in Requests \ {q} : pc'[r] = pc[r]
      /\ pc'[q] = "failed"
  BY <1>2, GotoStep DEF IInv, Answered
<1>4. TypeOK'
  BY <1>1, <1>3 DEF IInv, TypeOK
<1>5. Prepared'
  BY <1>1, <1>3, Kinds DEF IInv, Prepared
<1>6. FlagIsLastSet' /\ UnsetIsActive'
  BY <1>1 DEF IInv, FlagIsLastSet, UnsetIsActive
<1> QED BY <1>4, <1>5, <1>6 DEF IInv

\* The steps of a login.
LEMMA LoginStep ==
  ASSUME IInv, NEW q \in Logins,
         GenerateRefreshToken(q) \/ Save(q) \/ \E u \in Users : LoginFind(q, u)
  PROVE  IInv'
<1>0. q \in Requests /\ q \notin Profiles
  BY Kinds, SessionsAssumption
<1>1. CASE GenerateRefreshToken(q)
  <2>1. Goto(q, "save") /\ pc[q] = "generate" /\ account[q] \in Users
    BY <1>1 DEF GenerateRefreshToken, IInv, Prepared
  <2>2. /\ pc' \in [Requests -> {"new"} \cup InProgress \cup Answered]
        /\ \A r \in Requests \ {q} : pc'[r] = pc[r]
        /\ pc'[q] = "save"
    BY <1>0, <2>1, GotoStep DEF IInv, InProgress
  <2>3. [user |-> account[q], second |-> clock] \in Token
    BY <2>1 DEF Token, IInv, TypeOK
  <2>4. /\ token' \in [Logins \cup Refreshes \cup Logouts -> Token \cup {NoToken}]
        /\ token'[q] \in Token
        /\ \A l \in Logins \ {q} : token'[l] = token[l]
    BY <1>1, <2>3 DEF GenerateRefreshToken, IInv, TypeOK
  <2>5. UNCHANGED <<users, tokens, clock, account, draft, history>>
    BY <1>1 DEF GenerateRefreshToken
  <2>6. TypeOK'
    BY <2>2, <2>4, <2>5 DEF IInv, TypeOK, history
  <2>7. Prepared'
    BY <1>0, <2>2, <2>4, <2>5, Kinds DEF IInv, Prepared, history
  <2>8. FlagIsLastSet' /\ UnsetIsActive'
    BY <2>5 DEF IInv, FlagIsLastSet, UnsetIsActive, history
  <2> QED BY <2>6, <2>7, <2>8 DEF IInv
<1>2. CASE Save(q)
  <2>1. /\ pc' \in [Requests -> {"new"} \cup InProgress \cup Answered]
        /\ \A r \in Requests \ {q} : pc'[r] = pc[r]
        /\ pc'[q] \in Answered
    <3>1. Answer(q) \/ Goto(q, "failed")
      BY <1>2 DEF Save
    <3> QED BY <1>0, <3>1, AnswerStep, GotoStep DEF IInv, Answered
  <2>2. token[q] \in Token
    BY <1>2 DEF Save, IInv, Prepared
  <2>3. /\ tokens' \in SUBSET Token /\ saved' \in SUBSET Logins
        /\ UNCHANGED <<users, clock, account, token, draft, revoked, switched, base>>
    BY <1>2, <2>2 DEF Save, IInv, TypeOK
  <2>4. TypeOK'
    BY <2>1, <2>3 DEF IInv, TypeOK
  <2>5. Prepared'
    BY <1>0, <2>1, <2>2, <2>3, Kinds DEF IInv, Prepared, Answered
  <2>6. FlagIsLastSet' /\ UnsetIsActive'
    BY <2>3 DEF IInv, FlagIsLastSet, UnsetIsActive
  <2> QED BY <2>4, <2>5, <2>6 DEF IInv
<1>3. ASSUME NEW u \in Users, LoginFind(q, u) PROVE IInv'
  <2>1. Goto(q, "generate")
    BY <1>3 DEF LoginFind
  <2>2. /\ pc' \in [Requests -> {"new"} \cup InProgress \cup Answered]
        /\ \A r \in Requests \ {q} : pc'[r] = pc[r]
        /\ pc'[q] = "generate"
    BY <1>0, <2>1, GotoStep DEF IInv, InProgress
  <2>3. /\ account' \in [Logins \cup Profiles -> Users \cup {NoUser}]
        /\ account'[q] \in Users
        /\ \A r \in (Logins \cup Profiles) \ {q} : account'[r] = account[r]
        /\ UNCHANGED <<users, tokens, clock, token, draft, history>>
    BY <1>3 DEF LoginFind, IInv, TypeOK
  <2>4. TypeOK'
    BY <2>2, <2>3 DEF IInv, TypeOK, history
  <2>5. Prepared'
    BY <1>0, <2>2, <2>3, Kinds DEF IInv, Prepared, history
  <2>6. FlagIsLastSet' /\ UnsetIsActive'
    BY <2>3 DEF IInv, FlagIsLastSet, UnsetIsActive, history
  <2> QED BY <2>4, <2>5, <2>6 DEF IInv
<1> QED BY <1>1, <1>2, <1>3

\* A token that a client holds is a token.
LEMMA ReceivedType == IInv => Received \subseteq Token
BY DEF IInv, Prepared, Received

\* The steps of a refresh or a logout.
LEMMA TokenStep ==
  ASSUME IInv, NEW q \in Refreshes \cup Logouts,
         \/ FindByTokenHash(q) \/ RefreshUser(q)
         \/ q \in Logouts /\ Revoke(q)
         \/ \E t \in Received, next \in {"find", "revoke"} : ValidateRefreshToken(q, t, next)
  PROVE  IInv'
<1>0. q \in Requests /\ q \notin Logins /\ q \notin Profiles
  BY Kinds, SessionsAssumption
<1>1. /\ pc' \in [Requests -> {"new"} \cup InProgress \cup Answered]
      /\ \A r \in Requests \ {q} : pc'[r] = pc[r]
  <2>1. Answer(q) \/ \E next \in InProgress \cup Answered : Goto(q, next)
    BY DEF FindByTokenHash, RefreshUser, Revoke, ValidateRefreshToken, InProgress, Answered
  <2> QED BY <1>0, <2>1, AnswerStep, GotoStep DEF IInv
<1>2. /\ tokens' \in SUBSET Token
      /\ token' \in [Logins \cup Refreshes \cup Logouts -> Token \cup {NoToken}]
      /\ \A l \in Logins : token'[l] = token[l]
      /\ UNCHANGED <<users, clock, account, draft, saved, switched, base>>
  <2>1. CASE FindByTokenHash(q) \/ RefreshUser(q) \/ Revoke(q)
    BY <2>1 DEF FindByTokenHash, RefreshUser, Revoke, IInv, TypeOK, history
  <2>2. CASE \E t \in Received, next \in {"find", "revoke"} : ValidateRefreshToken(q, t, next)
    BY <1>0, <2>2, ReceivedType DEF ValidateRefreshToken, IInv, TypeOK, history
  <2> QED BY <2>1, <2>2
<1>3. revoked' \in SUBSET Logouts
  <2>1. revoked' = revoked \/ (q \in Logouts /\ revoked' = revoked \cup {q})
    BY DEF FindByTokenHash, RefreshUser, Revoke, ValidateRefreshToken, history
  <2> QED BY <2>1 DEF IInv, TypeOK
<1>4. TypeOK'
  BY <1>1, <1>2, <1>3 DEF IInv, TypeOK
<1>5. Prepared'
  BY <1>0, <1>1, <1>2, Kinds DEF IInv, Prepared
<1>6. FlagIsLastSet' /\ UnsetIsActive'
  BY <1>2 DEF IInv, FlagIsLastSet, UnsetIsActive
<1> QED BY <1>4, <1>5, <1>6 DEF IInv

----------------------------------------------------------------------------
(* The actions that change an account                                       *)

\* A registration sets the flag of an account that nobody has set yet.
LEMMA RegisterStep ==
  ASSUME IInv, NEW q \in Registers, NEW u \in Users, NEW phone \in {q, Empty},
         Register(q, u, phone)
  PROVE  IInv'
<1>0. q \in Requests /\ q \notin Logins /\ q \notin Profiles
  BY Kinds, SessionsAssumption
<1> DEFINE row == [name |-> q, phone |-> phone, active |-> TRUE]
<1>1. row \in Account /\ row # NoUser /\ row.active = TRUE
  <2>1. phone \in Requests \cup {Empty}
    BY <1>0
  <2>2. row \in Account
    BY <1>0, <2>1 DEF Account
  <2> QED BY <2>2, NullAssumption
<1>2. /\ users[u] = NoUser
      /\ users' = [users EXCEPT ![u] = row]
      /\ Answer(q)
      /\ UNCHANGED <<tokens, clock, account, token, draft, history>>
  BY DEF Register
<1> HIDE DEF row
<1>3. /\ pc' \in [Requests -> {"new"} \cup InProgress \cup Answered]
      /\ \A r \in Requests \ {q} : pc'[r] = pc[r]
  BY <1>0, <1>2, AnswerStep DEF IInv
<1>4. /\ users' \in [Users -> Account \cup {NoUser}]
      /\ users'[u] = row
      /\ \A w \in Users \ {u} : users'[w] = users[w]
  BY <1>1, <1>2 DEF IInv, TypeOK
<1>5. TypeOK'
  BY <1>2, <1>3, <1>4 DEF IInv, TypeOK, history
<1>6. Prepared'
  BY <1>0, <1>1, <1>2, <1>3, <1>4, Kinds DEF IInv, Prepared, history
<1>7. FlagIsLastSet'
  BY <1>1, <1>2, <1>4 DEF IInv, FlagIsLastSet, UnsetIsActive, history
<1>8. UnsetIsActive'
  BY <1>1, <1>2, <1>4 DEF IInv, UnsetIsActive, history
<1> QED BY <1>5, <1>6, <1>7, <1>8 DEF IInv

\* What a profile update read, with the fields of its request, is an account.
LEMMA ReadStep ==
  ASSUME IInv, NEW q \in Profiles, NEW u \in Users, NEW fields \in SUBSET {"name", "phone"},
         UpdateProfile(q, u, fields)
  PROVE  IInv'
<1>0. q \in Requests /\ q \notin Logins
  BY Kinds, SessionsAssumption
<1> DEFINE row == [name |-> IF "name" \in fields THEN q ELSE users[u].name,
                   phone |-> IF "phone" \in fields THEN q ELSE users[u].phone,
                   active |-> users[u].active]
<1>1. /\ users[u] # NoUser
      /\ account' = [account EXCEPT ![q] = u]
      /\ draft' = [draft EXCEPT ![q] = row]
      /\ base' = [base EXCEPT ![q] = users[u]]
      /\ Goto(q, "write")
      /\ UNCHANGED <<users, tokens, clock, token, saved, revoked, switched>>
  BY DEF UpdateProfile
<1>2. /\ users[u] \in Account
      /\ users[u].name \in Requests
      /\ users[u].phone \in Requests \cup {Empty}
      /\ users[u].active \in BOOLEAN
  BY <1>1, UserTypes DEF IInv
<1>3. row \in Account
  BY <1>0, <1>2 DEF Account
<1> HIDE DEF row
<1>4. /\ pc' \in [Requests -> {"new"} \cup InProgress \cup Answered]
      /\ \A r \in Requests \ {q} : pc'[r] = pc[r]
      /\ pc'[q] = "write"
  BY <1>0, <1>1, GotoStep DEF IInv, InProgress
<1>5. /\ account' \in [Logins \cup Profiles -> Users \cup {NoUser}]
      /\ account'[q] = u
      /\ \A r \in (Logins \cup Profiles) \ {q} : account'[r] = account[r]
      /\ draft' \in [Profiles -> Account \cup {NoUser}]
      /\ draft'[q] = row
      /\ \A p \in Profiles \ {q} : draft'[p] = draft[p]
      /\ base' \in [Profiles -> Account \cup {NoUser}]
      /\ \A p \in Profiles \ {q} : base'[p] = base[p]
      /\ base'[q] = users[u]
  BY <1>1, <1>2, <1>3 DEF IInv, TypeOK
<1>6. TypeOK'
  BY <1>1, <1>4, <1>5 DEF IInv, TypeOK
<1>7. Prepared'
  <2>1. /\ row.name # q => row.name = users[u].name
        /\ row.phone # q => row.phone = users[u].phone
    BY DEF row
  <2> QED BY <1>0, <1>1, <1>2, <1>3, <1>4, <1>5, <2>1, Kinds DEF IInv, Prepared
<1>8. FlagIsLastSet' /\ UnsetIsActive'
  BY <1>1 DEF IInv, FlagIsLastSet, UnsetIsActive
<1> QED BY <1>6, <1>7, <1>8 DEF IInv

\* The write of a profile update leaves the flag of the row as it is by now.
LEMMA WriteStep ==
  ASSUME IInv, NEW q \in Profiles, Update(q)
  PROVE  IInv'
<1>0. q \in Requests /\ q \notin Logins
  BY Kinds, SessionsAssumption
<1> DEFINE u == account[q]
           row == [name |-> draft[q].name, phone |-> draft[q].phone, active |-> users[u].active]
<1>1. u \in Users /\ draft[q] \in Account /\ users[u] \in Account
  BY DEF Update, IInv, Prepared
<1>2. /\ users' = [users EXCEPT ![u] = row]
      /\ Forget(q) /\ Answer(q)
      /\ UNCHANGED <<tokens, clock, account, token, saved, revoked, switched>>
  BY DEF Update
<1>3. row \in Account /\ row # NoUser /\ users[u] # NoUser /\ row.active = users[u].active
  BY <1>1, NullAssumption DEF Account
<1> HIDE DEF u, row
<1>4. /\ pc' \in [Requests -> {"new"} \cup InProgress \cup Answered]
      /\ \A r \in Requests \ {q} : pc'[r] = pc[r]
      /\ pc'[q] = "ok"
  BY <1>0, <1>2, AnswerStep DEF IInv
<1>5. /\ users' \in [Users -> Account \cup {NoUser}]
      /\ users'[u] = row
      /\ \A w \in Users \ {u} : users'[w] = users[w]
      /\ draft' \in [Profiles -> Account \cup {NoUser}]
      /\ \A p \in Profiles \ {q} : draft'[p] = draft[p]
      /\ base' \in [Profiles -> Account \cup {NoUser}]
      /\ \A p \in Profiles \ {q} : base'[p] = base[p]
  BY <1>1, <1>2, <1>3 DEF Forget, IInv, TypeOK
<1>6. TypeOK'
  BY <1>2, <1>4, <1>5 DEF IInv, TypeOK
<1>7. Prepared'
  BY <1>0, <1>2, <1>3, <1>4, <1>5, Kinds DEF IInv, Prepared
<1>8. FlagIsLastSet'
  BY <1>1, <1>2, <1>3, <1>5 DEF IInv, FlagIsLastSet
<1>9. UnsetIsActive'
  BY <1>2, <1>3, <1>5 DEF IInv, UnsetIsActive
<1> QED BY <1>6, <1>7, <1>8, <1>9 DEF IInv

\* SetStatus sets the flag and is what last set it.
LEMMA SwitchStep ==
  ASSUME IInv, NEW q \in Switches, NEW u \in Users, NEW active \in BOOLEAN,
         SetStatus(q, u, active)
  PROVE  IInv'
<1>0. q \in Requests /\ q \notin Logins /\ q \notin Profiles
  BY Kinds, SessionsAssumption
<1> DEFINE row == [name |-> users[u].name, phone |-> users[u].phone, active |-> active]
<1>1. /\ users[u] # NoUser
      /\ users' = [users EXCEPT ![u] = row]
      /\ switched' = [switched EXCEPT ![u] = active]
      /\ Answer(q)
      /\ UNCHANGED <<tokens, clock, account, token, draft, saved, revoked, base>>
  BY DEF SetStatus
<1>2. row \in Account /\ row # NoUser /\ row.active = active
  BY <1>1, UserTypes, NullAssumption DEF IInv, Account
<1> HIDE DEF row
<1>3. /\ pc' \in [Requests -> {"new"} \cup InProgress \cup Answered]
      /\ \A r \in Requests \ {q} : pc'[r] = pc[r]
  BY <1>0, <1>1, AnswerStep DEF IInv
<1>4. /\ users' \in [Users -> Account \cup {NoUser}]
      /\ users'[u] = row
      /\ \A w \in Users \ {u} : users'[w] = users[w]
      /\ switched' \in [Users -> BOOLEAN]
      /\ switched'[u] = active
      /\ \A w \in Users \ {u} : switched'[w] = switched[w]
  BY <1>1, <1>2 DEF IInv, TypeOK
<1>5. TypeOK'
  BY <1>1, <1>3, <1>4 DEF IInv, TypeOK
<1>6. Prepared'
  BY <1>0, <1>1, <1>2, <1>3, <1>4, Kinds DEF IInv, Prepared
<1>7. FlagIsLastSet' /\ UnsetIsActive'
  BY <1>2, <1>4 DEF IInv, FlagIsLastSet, UnsetIsActive
<1> QED BY <1>5, <1>6, <1>7 DEF IInv

----------------------------------------------------------------------------
(* The theorems                                                             *)

LEMMA NextInv == IInv /\ [Next]_vars => IInv'
<1> SUFFICES ASSUME IInv, [Next]_vars PROVE IInv'
  OBVIOUS
<1>1. ASSUME NEW q \in Requests, AuthStep(q) PROVE IInv'
  BY <1>1, RegisterStep, LoginStep, TokenStep DEF AuthStep
<1>2. ASSUME NEW q \in Requests, UserStep(q) PROVE IInv'
  BY <1>2, ReadStep, WriteStep, SwitchStep DEF UserStep
<1>3. ASSUME NEW q \in Requests, Reject(q) \/ Abort(q) PROVE IInv'
  BY <1>3, FailStep
<1>4. CASE Tick
  <2>1. clock' \in Nat /\ UNCHANGED <<users, tokens, pc, account, token, draft, history>>
    BY <1>4 DEF Tick, IInv, TypeOK
  <2> QED BY <2>1 DEF IInv, TypeOK, Prepared, FlagIsLastSet, UnsetIsActive, history
<1>5. CASE UNCHANGED vars
  BY <1>5 DEF vars, history, IInv, TypeOK, Prepared, FlagIsLastSet, UnsetIsActive
<1> QED BY <1>1, <1>2, <1>3, <1>4, <1>5 DEF Next

\* Every reachable state satisfies the inductive invariant.
THEOREM Invariance == Spec => []IInv
<1>1. Init => IInv
  BY InitInv
<1>2. IInv /\ [Next]_vars => IInv'
  BY NextInv
<1> QED BY <1>1, <1>2, PTL DEF Spec

\* Every variable keeps its type.
THEOREM TypeCorrect == Spec => []TypeOK
<1>1. IInv => TypeOK
  BY DEF IInv
<1> QED BY <1>1, Invariance, PTL

\* The flag of an account is the one last set by SetStatus: a profile update that
\* read the account before and writes it after does not bring the old flag back.
THEOREM FlagKept == Spec => []FlagIsLastSet
<1>1. IInv => FlagIsLastSet
  BY DEF IInv
<1> QED BY <1>1, Invariance, PTL

\* The steps of other requests do not move a profile update that is to write.
LEMMA OnlyUpdateMoves ==
  ASSUME IInv, [Next]_vars, NEW q \in Profiles, pc[q] = "write",
         users' # users, pc'[q] # pc[q]
  PROVE  Update(q)
<1>0. q \in Requests /\ q \notin Registers \cup Logins \cup Refreshes \cup Logouts \cup Switches
  BY Kinds, SessionsAssumption
<1>1. ~ UNCHANGED vars /\ ~ Tick
  BY DEF vars, Tick
<1>2. PICK r \in Requests : AuthStep(r) \/ UserStep(r) \/ Reject(r) \/ Abort(r)
  BY <1>1 DEF Next
<1>3. Answer(r) \/ \E next \in {"new"} \cup InProgress \cup Answered : Goto(r, next)
  <2>1. CASE AuthStep(r)
    BY <2>1 DEF AuthStep, Register, GenerateRefreshToken, Save, LoginFind, FindByTokenHash,
                RefreshUser, ValidateRefreshToken, Revoke, InProgress, Answered
  <2>2. CASE UserStep(r)
    BY <2>2 DEF UserStep, UpdateProfile, Update, SetStatus, InProgress
  <2>3. CASE Reject(r) \/ Abort(r)
    BY <2>3 DEF Reject, Abort, Answered
  <2> QED BY <1>2, <2>1, <2>2, <2>3
<1>4. r = q
  BY <1>0, <1>3, AnswerStep, GotoStep DEF IInv
<1>5. ~ Reject(q) /\ ~ Abort(q) /\ ~ AuthStep(q)
  BY <1>0 DEF Reject, Abort, AuthStep
<1>6. UserStep(q)
  BY <1>2, <1>4, <1>5
<1> QED BY <1>0, <1>6 DEF UserStep, UpdateProfile

\* A profile update changes a field that its request left empty only if another
\* request changed that field between its read and its write.
THEOREM EmptyKept == Spec => EmptyFieldsKept
<1>1. ASSUME IInv, [Next]_vars, NEW q \in Profiles, pc[q] = "write", users' # users,
             pc'[q] # pc[q], NEW f \in {"name", "phone"},
             draft[q][f] # q, users[account[q]][f] = base[q][f]
      PROVE  users'[account[q]][f] = users[account[q]][f]
  <2>1. Update(q)
    BY <1>1, OnlyUpdateMoves
  <2>2. account[q] \in Users /\ draft[q][f] = base[q][f]
    BY <1>1 DEF IInv, Prepared
  <2>3. users'[account[q]] = [name |-> draft[q].name, phone |-> draft[q].phone,
                              active |-> users[account[q]].active]
    BY <2>1, <2>2, <1>1 DEF Update, IInv, TypeOK
  <2>4. users'[account[q]][f] = draft[q][f]
    BY <2>3
  <2> QED BY <1>1, <2>2, <2>4
<1>2. IInv /\ [Next]_vars =>
        \A q \in Profiles : pc[q] = "write" /\ users' # users /\ pc'[q] # pc[q] =>
          LET u == account[q] IN
          \A f \in {"name", "phone"} :
             draft[q][f] # q /\ users[u][f] = base[q][f] => users'[u][f] = users[u][f]
  BY <1>1
<1> QED BY <1>2, Invariance, PTL DEF Spec, EmptyFieldsKept

----------------------------------------------------------------------------
(* Sessions are conserved                                                   *)

Row(t) == IF t \in tokens THEN 1 ELSE 0

\* A request that was counted is over, a login answered 200 was counted, and
\* the tokens of logins, logouts and the table balance.
Conserved ==
    /\ \A q \in saved \cup revoked : pc[q] \in Answered
    /\ \A q \in Logins : pc[q] = "ok" => q \in saved
    /\ \A t \in Token : Cardinality(With(saved, t)) = Cardinality(With(revoked, t)) + Row(t)

LEMMA InitConserves == Init => Conserved
<1> SUFFICES ASSUME Init PROVE Conserved
  OBVIOUS
<1>1. \A t : With(saved, t) = {} /\ With(revoked, t) = {} /\ Row(t) = 0
  BY DEF Init, With, Row
<1>2. Cardinality({}) = 0 /\ 0 = 0 + 0
  BY FS_EmptySet
<1>3. \A q \in Logins : pc[q] = "new"
  BY Kinds DEF Init
<1> QED BY <1>1, <1>2, <1>3 DEF Init, Conserved

\* The requests that count can be counted.
LEMMA WithFinite ==
  ASSUME TypeOK, NEW t
  PROVE  /\ IsFiniteSet(With(saved, t)) /\ IsFiniteSet(With(revoked, t))
         /\ Cardinality(With(saved, t)) \in Nat /\ Cardinality(With(revoked, t)) \in Nat
<1>1. IsFiniteSet(Logins) /\ IsFiniteSet(Logouts)
  BY SessionsAssumption
<1>2. With(saved, t) \subseteq Logins /\ With(revoked, t) \subseteq Logouts
  BY DEF With, TypeOK
<1>3. IsFiniteSet(With(saved, t)) /\ IsFiniteSet(With(revoked, t))
  BY <1>1, <1>2, FS_Subset
<1> QED BY <1>3, FS_CardinalityType

\* A step moves one request that is not over, and no other request's token.
LEMMA OneMoves ==
  ASSUME IInv, NEW q \in Requests, AuthStep(q) \/ UserStep(q) \/ Reject(q) \/ Abort(q)
  PROVE  /\ pc[q] \notin Answered
         /\ \A r \in Requests \ {q} : pc'[r] = pc[r]
         /\ \A r \in (Logins \cup Refreshes \cup Logouts) \ {q} : token'[r] = token[r]
<1>1. /\ pc[q] \in {"new"} \cup InProgress
      /\ Answer(q) \/ \E next \in {"new"} \cup InProgress \cup Answered : Goto(q, next)
      /\ \/ UNCHANGED token
         \/ \E t : token' = [token EXCEPT ![q] = t]
  <2>1. CASE AuthStep(q)
    BY <2>1 DEF AuthStep, Register, GenerateRefreshToken, Save, LoginFind, FindByTokenHash,
                RefreshUser, ValidateRefreshToken, Revoke, InProgress, Answered
  <2>2. CASE UserStep(q)
    BY <2>2 DEF UserStep, UpdateProfile, Update, SetStatus, InProgress
  <2>3. CASE Reject(q) \/ Abort(q)
    BY <2>3 DEF Reject, Abort, InProgress, Answered
  <2> QED BY <2>1, <2>2, <2>3
<1>2. \A r \in Requests \ {q} : pc'[r] = pc[r]
  BY <1>1, AnswerStep, GotoStep DEF IInv
<1>3. \A r \in (Logins \cup Refreshes \cup Logouts) \ {q} : token'[r] = token[r]
  BY <1>1 DEF IInv, TypeOK
<1>4. pc[q] \notin Answered
  BY <1>1 DEF InProgress, Answered
<1> QED BY <1>2, <1>3, <1>4

\* A step that saves and revokes nothing leaves the balance alone.
LEMMA OthersConserve ==
  ASSUME IInv, Conserved, NEW q \in Requests, pc[q] \notin Answered,
         \A r \in Requests \ {q} : pc'[r] = pc[r],
         \A r \in (Logins \cup Refreshes \cup Logouts) \ {q} : token'[r] = token[r],
         q \in Logins => pc'[q] # "ok",
         UNCHANGED <<tokens, saved, revoked>>
  PROVE  Conserved'
<1>1. \A r \in saved \cup revoked : /\ r \in Requests /\ r # q
                                    /\ r \in Logins \cup Refreshes \cup Logouts
  BY Kinds DEF Conserved, IInv, TypeOK
<1>2. \A t \in Token : With(saved, t)' = With(saved, t) /\ With(revoked, t)' = With(revoked, t)
                       /\ Row(t)' = Row(t)
  BY <1>1 DEF With, Row
<1>3. \A r \in saved' \cup revoked' : pc'[r] \in Answered
  BY <1>1 DEF Conserved
<1>4. \A r \in Logins : pc'[r] = "ok" => r \in saved'
  BY Kinds DEF Conserved
<1> QED BY <1>2, <1>3, <1>4 DEF Conserved

\* The INSERT of a hash that is not in the table adds one login and one row.
LEMMA SaveConserves ==
  ASSUME IInv, Conserved, NEW q \in Logins, Save(q)
  PROVE  Conserved'
<1>0. q \in Requests /\ q \notin saved /\ q \notin revoked /\ pc[q] \notin Answered
  BY Kinds DEF Save, Conserved, InProgress, Answered
<1>1. /\ \A r \in Requests \ {q} : pc'[r] = pc[r]
      /\ UNCHANGED <<token, revoked>>
      /\ token[q] \in Token
  <2>1. Answer(q) \/ Goto(q, "failed")
    BY DEF Save
  <2> QED BY <1>0, <2>1, AnswerStep, GotoStep DEF Save, IInv, Prepared, Answered
<1>2. CASE token[q] \in tokens
  <2>1. Goto(q, "failed") /\ UNCHANGED <<tokens, saved>>
    BY <1>2 DEF Save
  <2>2. pc'[q] # "ok"
    BY <1>0, <2>1, GotoStep DEF IInv, Answered
  <2> QED BY <1>0, <1>1, <2>1, <2>2, OthersConserve
<1>3. CASE token[q] \notin tokens
  <2>1. tokens' = tokens \cup {token[q]} /\ saved' = saved \cup {q} /\ Answer(q)
    BY <1>3 DEF Save
  <2>2. pc'[q] \in Answered
    BY <1>0, <2>1, AnswerStep DEF IInv
  <2>3. \A r \in saved' \cup revoked' : pc'[r] \in Answered
    BY <1>0, <1>1, <2>1, <2>2, Kinds DEF Conserved, IInv, TypeOK
  <2>4. \A r \in Logins : pc'[r] = "ok" => r \in saved'
    BY <1>1, <2>1, Kinds DEF Conserved
  <2>5. ASSUME NEW t \in Token
        PROVE  Cardinality(With(saved, t)') = Cardinality(With(revoked, t)') + Row(t)'
    <3>1. Cardinality(With(saved, t)) = Cardinality(With(revoked, t)) + Row(t)
      BY DEF Conserved
    <3>2. With(revoked, t)' = With(revoked, t)
      BY <1>1 DEF With
    <3>3. CASE t = token[q]
      <4>1. With(saved, t)' = With(saved, t) \cup {q} /\ q \notin With(saved, t)
        BY <1>0, <1>1, <2>1, <3>3 DEF With
      <4>2. Cardinality(With(saved, t)') = Cardinality(With(saved, t)) + 1
        BY <4>1, WithFinite, FS_AddElement DEF IInv
      <4>3. Row(t) = 0 /\ Row(t)' = 1
        BY <1>3, <2>1, <3>3 DEF Row
      <4> QED BY <3>1, <3>2, <4>2, <4>3, WithFinite DEF IInv
    <3>4. CASE t # token[q]
      <4>1. With(saved, t)' = With(saved, t) /\ Row(t)' = Row(t)
        BY <1>1, <2>1, <3>4 DEF With, Row
      <4> QED BY <3>1, <3>2, <4>1
    <3> QED BY <3>3, <3>4
  <2> QED BY <2>3, <2>4, <2>5 DEF Conserved
<1> QED BY <1>2, <1>3

\* The DELETE of a hash that is in the table adds one logout and takes one row.
LEMMA RevokeConserves ==
  ASSUME IInv, Conserved, NEW q \in Logouts, Revoke(q)
  PROVE  Conserved'
<1>0. /\ q \in Requests /\ q \notin Logins /\ q \notin saved /\ q \notin revoked
      /\ pc[q] \notin Answered
  BY Kinds, SessionsAssumption DEF Revoke, Conserved, InProgress, Answered
<1>1. /\ \A r \in Requests \ {q} : pc'[r] = pc[r]
      /\ UNCHANGED <<token, saved>>
  <2>1. Answer(q) \/ Goto(q, "failed")
    BY DEF Revoke
  <2> QED BY <1>0, <2>1, AnswerStep, GotoStep DEF Revoke, IInv, Answered
<1>2. CASE token[q] \notin tokens
  BY <1>0, <1>1, <1>2, OthersConserve DEF Revoke
<1>3. CASE token[q] \in tokens
  <2>1. tokens' = tokens \ {token[q]} /\ revoked' = revoked \cup {q} /\ Answer(q)
    BY <1>3 DEF Revoke
  <2>2. pc'[q] \in Answered
    BY <1>0, <2>1, AnswerStep DEF IInv
  <2>3. \A r \in saved' \cup revoked' : pc'[r] \in Answered
    BY <1>0, <1>1, <2>1, <2>2, Kinds DEF Conserved, IInv, TypeOK
  <2>4. \A r \in Logins : pc'[r] = "ok" => r \in saved'
    BY <1>0, <1>1, Kinds DEF Conserved
  <2>5. ASSUME NEW t \in Token
        PROVE  Cardinality(With(saved, t)') = Cardinality(With(revoked, t)') + Row(t)'
    <3>1. Cardinality(With(saved, t)) = Cardinality(With(revoked, t)) + Row(t)
      BY DEF Conserved
    <3>2. With(saved, t)' = With(saved, t)
      BY <1>1 DEF With
    <3>3. CASE t = token[q]
      <4>1. With(revoked, t)' = With(revoked, t) \cup {q} /\ q \notin With(revoked, t)
        BY <1>0, <1>1, <2>1, <3>3 DEF With
      <4>2. Cardinality(With(revoked, t)') = Cardinality(With(revoked, t)) + 1
        BY <4>1, WithFinite, FS_AddElement DEF IInv
      <4>3. Row(t) = 1 /\ Row(t)' = 0
        BY <1>3, <2>1, <3>3 DEF Row
      <4> QED BY <3>1, <3>2, <4>2, <4>3, WithFinite DEF IInv
    <3>4. CASE t # token[q]
      <4>1. With(revoked, t)' = With(revoked, t) /\ Row(t)' = Row(t)
        BY <1>1, <2>1, <3>4 DEF With, Row
      <4> QED BY <3>1, <3>2, <4>1
    <3> QED BY <3>3, <3>4
  <2> QED BY <2>3, <2>4, <2>5 DEF Conserved
<1> QED BY <1>2, <1>3

LEMMA StepsConserve == IInv /\ Conserved /\ [Next]_vars => Conserved'
<1> SUFFICES ASSUME IInv, Conserved, [Next]_vars PROVE Conserved'
  OBVIOUS
<1>1. ASSUME NEW q \in Requests, AuthStep(q) \/ UserStep(q) \/ Reject(q) \/ Abort(q)
      PROVE  Conserved'
  <2>1. CASE q \in Logins /\ Save(q)
    BY <2>1, SaveConserves
  <2>2. CASE q \in Logouts /\ Revoke(q)
    BY <2>2, RevokeConserves
  <2>3. CASE ~(q \in Logins /\ Save(q)) /\ ~(q \in Logouts /\ Revoke(q))
    <3>1. /\ UNCHANGED <<tokens, saved, revoked>>
          /\ q \in Logins => \E next \in {"generate", "save", "failed"} : Goto(q, next)
      <4>1. CASE AuthStep(q)
        BY <2>3, <4>1, SessionsAssumption
        DEF AuthStep, Register, GenerateRefreshToken, LoginFind, FindByTokenHash,
            RefreshUser, ValidateRefreshToken, history
      <4>2. CASE UserStep(q)
        BY <4>2, SessionsAssumption DEF UserStep, UpdateProfile, Update, SetStatus
      <4>3. CASE Reject(q) \/ Abort(q)
        BY <4>3 DEF Reject, Abort, history
      <4> QED BY <1>1, <4>1, <4>2, <4>3
    <3>2. q \in Logins => pc'[q] # "ok"
      BY <3>1, GotoStep DEF IInv, InProgress, Answered
    <3> QED BY <1>1, <3>1, <3>2, OneMoves, OthersConserve
  <2> QED BY <2>1, <2>2, <2>3
<1>2. CASE Tick \/ UNCHANGED vars
  BY <1>2 DEF Tick, vars, history, Conserved, With, Row
<1> QED BY <1>1, <1>2 DEF Next

\* The balance of sessions holds in every reachable state.
THEOREM Conservation == Spec => []Conserved
<1>1. Init => Conserved
  BY InitConserves
<1>2. IInv /\ Conserved /\ [Next]_vars => Conserved'
  BY StepsConserve
<1> QED BY <1>1, <1>2, Invariance, PTL DEF Spec

\* Every login that was saved is one logout that took effect or the row in the
\* table, however logins and logouts of one second interleave.
THEOREM TokensAreAccounted == Spec => []TokensAccounted
<1>1. IInv /\ Conserved => TokensAccounted
  BY DEF IInv, TypeOK, Conserved, TokensAccounted, Row
<1> QED BY <1>1, Invariance, Conservation, PTL

\* A login answered 200 was saved, and its token is in the table until a logout
\* that sent this very token took effect.
THEOREM SessionsDoLast == Spec => []SessionsLast
<1>1. ASSUME IInv, Conserved, NEW q \in Logins, pc[q] = "ok"
      PROVE  q \in saved /\ (token[q] \in tokens \/ With(revoked, token[q]) # {})
  <2>1. q \in saved /\ token[q] \in Token
    BY <1>1 DEF IInv, Prepared, Conserved
  <2>2. q \in With(saved, token[q])
    BY <2>1 DEF With
  <2>3. Cardinality(With(saved, token[q])) # 0
    BY <1>1, <2>2, WithFinite, FS_EmptySet DEF IInv
  <2>4. CASE token[q] \notin tokens
    <3>1. Cardinality(With(revoked, token[q])) # 0
      BY <1>1, <2>1, <2>3, <2>4, WithFinite DEF Conserved, Row, IInv
    <3> QED BY <2>1, <3>1, FS_EmptySet
  <2> QED BY <2>1, <2>4
<1>2. IInv /\ Conserved => SessionsLast
  BY <1>1 DEF SessionsLast
<1> QED BY <1>2, Invariance, Conservation, PTL
=============================================================================
