---------------------------- MODULE OrderProofs ----------------------------
(***************************************************************************)
(* Theorems about Order, for any number of orders and requests.  The       *)
(* inductive invariant says what a request between its read and its write  *)
(* knows: which version it saw, that this version was open, and that its   *)
(* draft is that version but for the fields it is to change (DraftBased).  *)
(***************************************************************************)
EXTENDS Order, TLAPS

USE OrderAssumption

\* q has written version i of order o.
Wrote(q, o, i) == versions[o][i].by = q

\* An order whose creation has not run has no row; a creation writes the first
\* version of its own order; a change writes later ones of the order it found.
WritersKnown ==
    /\ \A o \in Orders : pc[o] = "new" => versions[o] = <<>>
    /\ \A o \in Orders : \A i \in 1 .. Last(o) :
          LET q == versions[o][i].by
          IN  /\ i = 1 => q = o
              /\ i # 1 => q \in Changes /\ target[q] = o /\ pc[q] \in Answered

\* What a request knows between its read and its write.
DraftBased ==
    \A q \in Changes : pc[q] = "write" =>
        /\ target[q] \in Orders
        /\ seen[q] \in 1 .. Last(target[q])
        /\ draft[q] \in Row
        /\ LET base == versions[target[q]][seen[q]].row
           IN  /\ base.status = "AWAITING_PICKUP"
               /\ \A f \in Fields \ asked[q] : draft[q][f] = base[f]
               /\ \A f \in Updatable \cap asked[q] : draft[q][f] = q

IInv ==
    /\ TypeOK
    /\ WritersKnown
    /\ DraftBased
    /\ LostByOverlapOnly
    /\ ChangesWereOpen
    /\ WrittenOnce

----------------------------------------------------------------------------
(* Lemmas                                                                   *)

\* The new version is the last, the others keep their places.
LEMMA AppendVersion ==
  ASSUME NEW S, NEW s \in Seq(S), NEW v \in S
  PROVE  /\ Append(s, v) \in Seq(S)
         /\ Len(Append(s, v)) = Len(s) + 1
         /\ \A i \in 1 .. Len(s) : Append(s, v)[i] = s[i]
         /\ Append(s, v)[Len(s) + 1] = v
  OBVIOUS

\* The kinds of requests.
LEMMA Kinds ==
  /\ Orders = Creates
  /\ Orders \subseteq Requests
  /\ Changes \subseteq Requests
  /\ Orders \cap Changes = {}
  /\ Updatable \subseteq Fields
  BY DEF Orders, Requests, Changes, Updatable, Fields

\* The types of the versions.
LEMMA VersionTypes ==
  ASSUME TypeOK
  PROVE  \A o \in Orders :
            /\ versions[o] \in Seq(Version)
            /\ Last(o) \in Nat
            /\ \A i \in 1 .. Last(o) :
                  /\ versions[o][i] \in Version
                  /\ versions[o][i].row \in Row
                  /\ versions[o][i].by \in Requests
                  /\ versions[o][i].seen \in Nat
<1>1. \A o \in Orders : versions[o] \in Seq(Version)
  BY DEF TypeOK
<1>2. \A o \in Orders : Last(o) \in Nat /\ \A i \in 1 .. Last(o) : versions[o][i] \in Version
  BY <1>1 DEF Last
<1>3. \A v \in Version : v.row \in Row /\ v.by \in Requests /\ v.seen \in Nat
  BY DEF Version
<1> QED BY <1>1, <1>2, <1>3

----------------------------------------------------------------------------
(* Steps                                                                    *)

LEMMA InitInv == Init => IInv
<1> SUFFICES ASSUME Init PROVE IInv
  OBVIOUS
<1>1. \A o \in Orders : versions[o] = <<>> /\ Last(o) = 0
  BY DEF Init, Last
<1>2. \A q \in Requests : pc[q] = "new"
  BY DEF Init
<1>3. TypeOK
  BY DEF Init, TypeOK
<1>4. WritersKnown
  BY <1>1 DEF WritersKnown
<1>5. DraftBased
  BY <1>2, Kinds DEF DraftBased
<1>6. LostByOverlapOnly
  BY <1>1 DEF LostByOverlapOnly
<1>7. ChangesWereOpen
  BY <1>1 DEF ChangesWereOpen
<1>8. WrittenOnce
  BY <1>1, <1>2, Kinds DEF WrittenOnce
<1> QED BY <1>3, <1>4, <1>5, <1>6, <1>7, <1>8 DEF IInv

\* A step that writes no row and no draft and opens no request.
LEMMA QuietStep ==
  ASSUME IInv, NEW q \in Requests, Reject(q) \/ (q \in Changes /\ Abort(q))
  PROVE  IInv'
<1> USE DEF IInv
<1>1. /\ pc' = [pc EXCEPT ![q] = "failed"]
      /\ UNCHANGED <<versions, target, asked, seen, draft>>
  BY DEF Reject, Abort
<1>2. pc \in [Requests -> {"new", "write"} \cup Answered]
  BY DEF TypeOK
<1>3. TypeOK'
  BY <1>1, <1>2 DEF TypeOK, Answered
<1>4. WritersKnown'
  BY <1>1, <1>2, Kinds DEF WritersKnown, Last, Answered
<1>5. DraftBased'
  BY <1>1, <1>2, Kinds DEF DraftBased, Last
<1>6. LostByOverlapOnly' /\ ChangesWereOpen'
  <2>1. \A r : Given(r)' = Given(r)
    BY <1>1 DEF Given
  <2>2. \A o : Last(o)' = Last(o)
    BY <1>1 DEF Last
  <2>3. LostByOverlapOnly'
    BY <1>1, <2>1, <2>2 DEF LostByOverlapOnly
  <2> QED BY <1>1, <2>2, <2>3 DEF ChangesWereOpen
<1>7. WrittenOnce'
  BY <1>1, <1>2, Kinds DEF WrittenOnce, Last
<1> QED BY <1>3, <1>4, <1>5, <1>6, <1>7

\* A creation gives its order the first version.
LEMMA CreateStep ==
  ASSUME IInv, NEW q \in Creates, CreateOrder(q)
  PROVE  IInv'
<1> USE DEF IInv
<1> DEFINE row == [status |-> "AWAITING_PICKUP", receiver |-> q, item |-> q]
           first == [row |-> row, by |-> q, seen |-> 0]
<1>1. /\ pc[q] = "new"
      /\ versions' = [versions EXCEPT ![q] = <<first>>]
      /\ UNCHANGED <<target, asked, seen, draft>>
  BY DEF CreateOrder
<1>2. PICK answer \in Answered : pc' = [pc EXCEPT ![q] = answer]
  BY DEF CreateOrder
<1>3. /\ q \in Orders /\ q \in Requests /\ q \notin Changes /\ versions[q] = <<>>
      /\ pc \in [Requests -> {"new", "write"} \cup Answered]
      /\ versions \in [Orders -> Seq(Version)]
  BY <1>1, Kinds DEF WritersKnown, TypeOK
<1>4. first \in Version
  BY <1>3 DEF Version, Row, Status
<1>5. /\ versions'[q] = <<first>> /\ Last(q)' = 1 /\ versions'[q][1] = first
      /\ first.row = row /\ first.by = q
  BY <1>1, <1>3, <1>4 DEF Last
<1>6. \A o \in Orders : o # q => versions'[o] = versions[o] /\ Last(o)' = Last(o)
  BY <1>1, <1>3 DEF Last
<1>7. \A r \in Changes : pc'[r] = pc[r] /\ (pc[r] = "write" => target[r] # q)
  BY <1>2, <1>3, Kinds DEF DraftBased, Last
<1> HIDE DEF row, first
<1>8. TypeOK'
  <2>1. <<first>> \in Seq(Version)
    BY <1>4
  <2> QED BY <1>1, <1>2, <1>3, <2>1 DEF TypeOK
<1>9. WritersKnown'
  BY <1>1, <1>2, <1>3, <1>5, <1>6, <1>7, Kinds DEF WritersKnown, Answered
<1>10. DraftBased'
  BY <1>1, <1>6, <1>7 DEF DraftBased
<1>11. \A r : Given(r)' = Given(r)
  BY <1>1 DEF Given
<1>12. LostByOverlapOnly'
  BY <1>5, <1>6, <1>11 DEF LostByOverlapOnly
<1>13. ChangesWereOpen'
  BY <1>5, <1>6 DEF ChangesWereOpen
<1>14. WrittenOnce'
  <2>1. \A f \in Updatable : row[f] = q
    BY DEF row, Updatable
  <2>2. \A r \in Changes : pc'[r] = "ok" => target'[r] = target[r] /\ target[r] # q
    BY <1>1, <1>3, <1>7 DEF WrittenOnce, Last
  <2>3. \A o \in Orders : \A i, j \in 1 .. Last(o)' : versions'[o][i].by = versions'[o][j].by => i = j
    BY <1>5, <1>6 DEF WrittenOnce
  <2>4. \A r \in Changes : pc'[r] = "ok" =>
          \E o \in Orders : target'[r] = o /\ \E i \in 1 .. Last(o)' : versions'[o][i].by = r
    BY <1>6, <1>7, <2>2 DEF WrittenOnce
  <2>5. \A o \in Orders : \A n \in 1 .. Last(o)' : \A f \in Updatable :
          \E i \in 1 .. n : versions'[o][i].by = versions'[o][n].row[f]
    BY <1>5, <1>6, <2>1 DEF WrittenOnce
  <2> QED BY <2>3, <2>4, <2>5 DEF WrittenOnce
<1> QED BY <1>8, <1>9, <1>10, <1>12, <1>13, <1>14

\* A request that reads computes its row from the current version.
LEMMA FindReads ==
  ASSUME IInv, NEW q \in Changes, FindStep(q)
  PROVE  \E o \in Orders, fields \in SUBSET Fields : \E row :
            /\ Find(q, o, fields, row)
            /\ versions[o] # <<>> =>
                  /\ row \in Row
                  /\ \A f \in Fields \ fields : row[f] = versions[o][Last(o)].row[f]
                  /\ \A f \in Updatable \cap fields : row[f] = q
<1>1. PICK o \in Orders :
        \/ q \in Cancels /\ CancelOrder(q, o)
        \/ q \in Updates /\ \E fields \in SUBSET Updatable \ {{}} : UpdateOrder(q, o, fields)
  BY DEF FindStep
<1>2. PICK base : base = versions[o][Last(o)].row
  OBVIOUS
<1>3. versions[o] # <<>> => base \in Row
  <2>1. versions[o] \in Seq(Version)
    BY DEF IInv, TypeOK
  <2>2. versions[o] # <<>> => Last(o) \in 1 .. Last(o)
    BY <2>1 DEF Last
  <2> QED BY <1>2, <2>2, VersionTypes DEF IInv
<1>4. CASE CancelOrder(q, o)
  <2> DEFINE row == [status |-> "CANCELLED", receiver |-> base.receiver, item |-> base.item]
  <2>1. Find(q, o, {"status"}, row)
    BY <1>2, <1>4 DEF CancelOrder
  <2>2. base \in Row => row \in Row
    BY DEF Row, Status
  <2>3. \A f \in Fields \ {"status"} : row[f] = base[f]
    BY DEF Fields, Updatable
  <2>4. Updatable \cap {"status"} = {} /\ {"status"} \in SUBSET Fields
    BY DEF Updatable, Fields
  <2> HIDE DEF row
  <2> QED BY <1>2, <1>3, <2>1, <2>2, <2>3, <2>4
<1>5. ASSUME NEW fields \in SUBSET Updatable, UpdateOrder(q, o, fields)
      PROVE  \E o1 \in Orders, fields1 \in SUBSET Fields : \E row1 :
            /\ Find(q, o1, fields1, row1)
            /\ versions[o1] # <<>> =>
                  /\ row1 \in Row
                  /\ \A f \in Fields \ fields1 : row1[f] = versions[o1][Last(o1)].row[f]
                  /\ \A f \in Updatable \cap fields1 : row1[f] = q
  <2> DEFINE row == [status |-> base.status,
                     receiver |-> IF "receiver" \in fields THEN q ELSE base.receiver,
                     item |-> IF "item" \in fields THEN q ELSE base.item]
  <2>1. Find(q, o, fields, row)
    BY <1>2, <1>5 DEF UpdateOrder
  <2>2. base \in Row => row \in Row
    BY Kinds DEF Row
  <2>3. \A f \in Fields \ fields : row[f] = base[f]
    BY DEF Fields, Updatable
  <2>4. \A f \in Updatable \cap fields : row[f] = q
    BY DEF Updatable
  <2>5. fields \in SUBSET Fields
    BY Kinds
  <2> HIDE DEF row
  <2> QED BY <1>2, <1>3, <2>1, <2>2, <2>3, <2>4, <2>5
<1> QED BY <1>1, <1>4, <1>5

\* A read opens the request or ends it, and writes no version.
LEMMA FindInv ==
  ASSUME IInv, NEW q \in Changes, FindStep(q)
  PROVE  IInv'
<1> USE DEF IInv
<1>0. PICK o \in Orders, fields \in SUBSET Fields :
        \E row : /\ Find(q, o, fields, row)
                 /\ versions[o] # <<>> =>
                       /\ row \in Row
                       /\ \A f \in Fields \ fields : row[f] = versions[o][Last(o)].row[f]
                       /\ \A f \in Updatable \cap fields : row[f] = q
  BY FindReads
<1>1. PICK row :
        /\ Find(q, o, fields, row)
        /\ versions[o] # <<>> =>
              /\ row \in Row
              /\ \A f \in Fields \ fields : row[f] = versions[o][Last(o)].row[f]
              /\ \A f \in Updatable \cap fields : row[f] = q
  BY <1>0
<1>2. pc[q] = "new" /\ versions' = versions /\ q \in Requests /\ q \notin Orders
  BY <1>1, Kinds DEF Find
<1>3. /\ pc \in [Requests -> {"new", "write"} \cup Answered]
      /\ target \in [Changes -> Orders \cup {NoOrder}]
      /\ asked \in [Changes -> SUBSET Fields]
      /\ seen \in [Changes -> Nat]
      /\ draft \in [Changes -> Row \cup {NoOrder}]
  BY DEF TypeOK
<1>4. \/ /\ pc' = [pc EXCEPT ![q] = "write"]
         /\ target' = [target EXCEPT ![q] = o]
         /\ asked' = [asked EXCEPT ![q] = fields]
         /\ seen' = [seen EXCEPT ![q] = Last(o)]
         /\ draft' = [draft EXCEPT ![q] = row]
         /\ versions[o] # <<>> /\ versions[o][Last(o)].row.status = "AWAITING_PICKUP"
      \/ pc' = [pc EXCEPT ![q] = "failed"] /\ UNCHANGED <<target, asked, seen, draft>>
  BY <1>1 DEF Find
<1>5. /\ \A r \in Requests : r # q => pc'[r] = pc[r]
      /\ \A r \in Changes : r # q => /\ target'[r] = target[r] /\ asked'[r] = asked[r]
                                    /\ seen'[r] = seen[r] /\ draft'[r] = draft[r]
      /\ pc'[q] \in {"write", "failed"}
  BY <1>2, <1>3, <1>4
<1>6. \A p \in Orders : Last(p)' = Last(p) /\ Last(p) \in Nat
  BY <1>2, VersionTypes DEF Last
<1>7. \A p \in Orders : \A i \in 1 .. Last(p) : versions[p][i].by # q
  <2>1. SUFFICES ASSUME NEW p \in Orders, NEW i \in 1 .. Last(p), versions[p][i].by = q
                 PROVE  FALSE
    OBVIOUS
  <2> QED BY <1>2, <2>1 DEF WritersKnown, Answered
<1>8. \A p \in Orders : \A i \in 1 .. Last(p) :
        Given(versions[p][i].by)' = Given(versions[p][i].by)
  <2> SUFFICES ASSUME NEW p \in Orders, NEW i \in 1 .. Last(p)
               PROVE  Given(versions[p][i].by)' = Given(versions[p][i].by)
    OBVIOUS
  <2>1. PICK r : r = versions[p][i].by
    OBVIOUS
  <2>2. r \in Requests /\ r # q
    BY <1>7, <2>1, VersionTypes
  <2>3. Given(r)' = Given(r)
    BY <1>5, <2>2 DEF Given, Requests
  <2>4. versions'[p][i].by = r
    BY <1>2, <2>1
  <2> QED BY <2>1, <2>3, <2>4
<1>9. TypeOK'
  <2>1. CASE pc' = [pc EXCEPT ![q] = "failed"] /\ UNCHANGED <<target, asked, seen, draft>>
    BY <1>2, <1>3, <2>1 DEF TypeOK, Answered
  <2>2. CASE /\ pc' = [pc EXCEPT ![q] = "write"]
             /\ target' = [target EXCEPT ![q] = o]
             /\ asked' = [asked EXCEPT ![q] = fields]
             /\ seen' = [seen EXCEPT ![q] = Last(o)]
             /\ draft' = [draft EXCEPT ![q] = row]
             /\ versions[o] # <<>>
    <3>1. row \in Row /\ Last(o) \in Nat
      BY <1>1, <1>6, <2>2
    <3> QED BY <1>2, <1>3, <2>2, <3>1 DEF TypeOK
  <2> QED BY <1>4, <2>1, <2>2
<1>10. WritersKnown'
  BY <1>2, <1>5, <1>6, <1>7, Kinds DEF WritersKnown
<1>11. DraftBased'
  <2> SUFFICES ASSUME NEW r \in Changes, pc'[r] = "write"
               PROVE  /\ target'[r] \in Orders
                      /\ seen'[r] \in 1 .. Len(versions'[target'[r]])
                      /\ draft'[r] \in Row
                      /\ LET base == versions'[target'[r]][seen'[r]].row
                         IN  /\ base.status = "AWAITING_PICKUP"
                             /\ \A f \in Fields \ asked'[r] : draft'[r][f] = base[f]
                             /\ \A f \in Updatable \cap asked'[r] : draft'[r][f] = r
    BY DEF DraftBased, Last
  <2>1. CASE r # q
    BY <1>2, <1>5, <2>1, Kinds DEF DraftBased, Last
  <2>2. CASE r = q
    <3>1. /\ target'[q] = o /\ asked'[q] = fields /\ seen'[q] = Last(o) /\ draft'[q] = row
          /\ versions[o] # <<>> /\ versions[o][Last(o)].row.status = "AWAITING_PICKUP"
      BY <1>2, <1>3, <1>4, <2>2
    <3>2. Last(o) \in 1 .. Len(versions[o])
      BY <3>1, VersionTypes DEF Last
    <3> QED BY <1>1, <1>2, <2>2, <3>1, <3>2
  <2> QED BY <2>1, <2>2
<1>12. LostByOverlapOnly'
  BY <1>2, <1>6, <1>8 DEF LostByOverlapOnly
<1>13. ChangesWereOpen'
  BY <1>2, <1>6 DEF ChangesWereOpen
<1>14. WrittenOnce'
  <2>1. \A r \in Changes : pc'[r] = "ok" => pc[r] = "ok" /\ target'[r] = target[r]
    BY <1>5, Kinds
  <2> QED BY <1>2, <1>6, <2>1 DEF WrittenOnce
<1> QED BY <1>9, <1>10, <1>11, <1>12, <1>13, <1>14

\* A write adds a version: what it takes back, it takes from requests that
\* wrote after this one had read.
LEMMA WriteInv ==
  ASSUME IInv, NEW q \in Changes, WriteOrder(q)
  PROVE  IInv'
<1> USE DEF IInv
<1>1. PICK o, v : o = target[q] /\ v = [row |-> draft[q], by |-> q, seen |-> seen[q]]
  OBVIOUS
<1>2. PICK answer \in Answered : pc' = [pc EXCEPT ![q] = answer]
  BY DEF WriteOrder
<1>3. /\ pc[q] = "write" /\ q \in Requests /\ q \notin Orders
      /\ versions' = [versions EXCEPT ![o] = Append(versions[o], v)]
      /\ UNCHANGED <<target, asked, seen, draft>>
  BY <1>1, Kinds DEF WriteOrder
<1>4. /\ o \in Orders /\ seen[q] \in 1 .. Last(o) /\ draft[q] \in Row
      /\ versions[o][seen[q]].row.status = "AWAITING_PICKUP"
      /\ \A f \in Fields \ asked[q] : draft[q][f] = versions[o][seen[q]].row[f]
      /\ \A f \in Updatable \cap asked[q] : draft[q][f] = q
  BY <1>1, <1>3 DEF DraftBased
<1>5. /\ pc \in [Requests -> {"new", "write"} \cup Answered]
      /\ versions \in [Orders -> Seq(Version)]
      /\ asked \in [Changes -> SUBSET Fields]
      /\ seen \in [Changes -> Nat]
  BY DEF TypeOK
<1>6. v \in Version /\ v.row = draft[q] /\ v.by = q /\ v.seen = seen[q]
  BY <1>1, <1>3, <1>4, <1>5 DEF Version
<1>7. PICK L \in Nat : L = Last(o)
  BY <1>4, VersionTypes
<1>8. /\ versions'[o] \in Seq(Version)
      /\ Last(o)' = L + 1
      /\ \A i \in 1 .. L : versions'[o][i] = versions[o][i]
      /\ versions'[o][L + 1] = v
  <2>1. versions[o] \in Seq(Version) /\ versions'[o] = Append(versions[o], v) /\ L = Len(versions[o])
    BY <1>3, <1>4, <1>5, <1>7 DEF Last
  <2> QED BY <1>6, <2>1, AppendVersion DEF Last
<1>9. \A p \in Orders : p # o => versions'[p] = versions[p] /\ Last(p)' = Last(p)
  BY <1>3, <1>5 DEF Last
<1>10. \A r \in Requests : r # q => pc'[r] = pc[r]
  BY <1>2, <1>5
<1>11. \A r : Given(r)' = Given(r)
  BY <1>3 DEF Given
<1>12. Given(q) = asked[q]
  BY <1>3 DEF Given, Orders
<1>13. pc'[q] = answer
  BY <1>2, <1>3, <1>5
<1>14. TypeOK'
  <2>1. pc' \in [Requests -> {"new", "write"} \cup Answered]
    BY <1>2, <1>5
  <2>2. versions' \in [Orders -> Seq(Version)]
    BY <1>3, <1>4, <1>5, <1>8
  <2> QED BY <1>3, <2>1, <2>2 DEF TypeOK
<1>15. \A i \in 1 .. L : versions[o][i].by # q
  BY <1>3, <1>4, <1>7 DEF WritersKnown, Answered
<1>16. WritersKnown'
  <2>1. \A p \in Orders : pc'[p] = "new" => versions'[p] = <<>>
    <3> SUFFICES ASSUME NEW p \in Orders, pc'[p] = "new" PROVE versions'[p] = <<>>
      OBVIOUS
    <3>1. versions[p] = <<>>
      BY <1>3, <1>10, Kinds DEF WritersKnown
    <3>2. p # o
      BY <1>4, <3>1 DEF Last
    <3> QED BY <1>9, <3>1, <3>2
  <2>2. ASSUME NEW p \in Orders, NEW i \in 1 .. Last(p)'
        PROVE  /\ i = 1 => versions'[p][i].by = p
               /\ i # 1 => /\ versions'[p][i].by \in Changes
                           /\ target'[versions'[p][i].by] = p
                           /\ pc'[versions'[p][i].by] \in Answered
    <3>1. CASE p = o /\ i = L + 1
      <4>1. i # 1 /\ versions'[p][i].by = q
        BY <1>4, <1>6, <1>7, <1>8, <3>1
      <4>2. target'[q] = p /\ pc'[q] \in Answered
        BY <1>1, <1>3, <1>13, <3>1
      <4> QED BY <4>1, <4>2
    <3>2. CASE ~ (p = o /\ i = L + 1)
      <4>1. i \in 1 .. Last(p) /\ versions'[p][i] = versions[p][i]
        BY <1>7, <1>8, <1>9, <2>2, <3>2
      <4>2. i # 1 => versions[p][i].by # q
        BY <1>3, <4>1 DEF WritersKnown, Answered
      <4>3. PICK r : r = versions[p][i].by
        OBVIOUS
      <4>4. /\ i = 1 => r = p
            /\ i # 1 => r \in Changes /\ target[r] = p /\ pc[r] \in Answered /\ r # q
        BY <4>1, <4>2, <4>3 DEF WritersKnown
      <4>5. i # 1 => target'[r] = p /\ pc'[r] \in Answered
        BY <1>3, <1>10, <4>4, Kinds
      <4> QED BY <4>1, <4>3, <4>4, <4>5
    <3> QED BY <3>1, <3>2
  <2> QED BY <2>1, <2>2 DEF WritersKnown
<1>17. DraftBased'
  <2> SUFFICES ASSUME NEW r \in Changes, pc'[r] = "write"
               PROVE  /\ target[r] \in Orders
                      /\ seen[r] \in 1 .. Len(versions'[target[r]])
                      /\ draft[r] \in Row
                      /\ LET base == versions'[target[r]][seen[r]].row
                         IN  /\ base.status = "AWAITING_PICKUP"
                             /\ \A f \in Fields \ asked[r] : draft[r][f] = base[f]
                             /\ \A f \in Updatable \cap asked[r] : draft[r][f] = r
    BY <1>3 DEF DraftBased, Last
  <2>1. r # q /\ pc[r] = "write"
    BY <1>10, <1>13, Kinds DEF Answered
  <2>2. PICK p : p = target[r]
    OBVIOUS
  <2>3. p \in Orders /\ seen[r] \in 1 .. Last(p)
    BY <2>1, <2>2 DEF DraftBased
  <2>4. versions'[p][seen[r]] = versions[p][seen[r]] /\ seen[r] \in 1 .. Len(versions'[p])
    BY <1>7, <1>8, <1>9, <2>3 DEF Last
  <2> QED BY <2>1, <2>2, <2>3, <2>4 DEF DraftBased
<1>18. LostByOverlapOnly'
  <2> SUFFICES ASSUME NEW p \in Orders, NEW n \in 1 .. Last(p)', NEW i \in 1 .. n,
                      NEW f \in Given(versions'[p][i].by)
               PROVE  \/ versions'[p][n].row[f] = versions'[p][i].row[f]
                      \/ \E j \in i + 1 .. n :
                            f \in Given(versions'[p][j].by) \/ versions'[p][j].seen < i
    BY <1>11 DEF LostByOverlapOnly
  <2>1. CASE p # o \/ n <= L
    <3>1. n \in 1 .. Last(p) /\ \A j \in 1 .. n : versions'[p][j] = versions[p][j]
      BY <1>7, <1>8, <1>9, <2>1
    <3>2. f \in Given(versions[p][i].by)
      BY <3>1
    <3>3. \/ versions[p][n].row[f] = versions[p][i].row[f]
          \/ \E j \in i + 1 .. n : f \in Given(versions[p][j].by) \/ versions[p][j].seen < i
      BY <3>1, <3>2 DEF LostByOverlapOnly
    <3>4. \A j \in i + 1 .. n : j \in 1 .. n
      OBVIOUS
    <3> QED BY <3>1, <3>3, <3>4
  <2>2. CASE p = o /\ n = L + 1 /\ i = n
    BY <2>2
  <2>3. CASE p = o /\ n = L + 1 /\ i # n
    <3>1. i \in 1 .. L /\ n \in i + 1 .. n /\ versions'[p][n] = v /\ versions'[p][i] = versions[p][i]
      BY <1>7, <1>8, <2>3
    <3>2. f \in Given(versions[p][i].by) /\ f \in Fields
      <4>1. PICK r : r = versions[p][i].by
        OBVIOUS
      <4>2. r \in Requests /\ f \in Given(r)
        BY <1>7, <2>3, <3>1, <4>1, VersionTypes
      <4>3. Given(r) \subseteq Fields
        BY <1>5, <4>2 DEF Given, Requests
      <4> QED BY <4>1, <4>2, <4>3
    <3>3. CASE f \in asked[q] \/ seen[q] < i
      BY <1>6, <1>12, <3>1, <3>3
    <3>4. CASE f \notin asked[q] /\ seen[q] >= i
      <4>1. v.row[f] = versions[o][seen[q]].row[f]
        BY <1>4, <1>6, <3>2, <3>4
      <4>2. seen[q] \in 1 .. L /\ i \in 1 .. seen[q]
        BY <1>4, <1>7, <3>1, <3>4
      <4>3. \/ versions[o][seen[q]].row[f] = versions[o][i].row[f]
            \/ \E j \in i + 1 .. seen[q] :
                  f \in Given(versions[o][j].by) \/ versions[o][j].seen < i
        BY <1>4, <1>7, <2>3, <3>2, <4>2 DEF LostByOverlapOnly
      <4>4. \A j \in i + 1 .. seen[q] : j \in i + 1 .. n /\ versions'[o][j] = versions[o][j]
        BY <1>7, <1>8, <2>3, <3>1, <4>2
      <4> QED BY <2>3, <3>1, <4>1, <4>3, <4>4
    <3> QED BY <1>4, <1>7, <3>1, <3>3, <3>4
  <2> QED BY <1>7, <1>8, <2>1, <2>2, <2>3
<1>19. ChangesWereOpen'
  <2> SUFFICES ASSUME NEW p \in Orders, NEW n \in 2 .. Last(p)'
               PROVE  /\ versions'[p][n].seen \in 1 .. n - 1
                      /\ versions'[p][versions'[p][n].seen].row.status = "AWAITING_PICKUP"
    BY DEF ChangesWereOpen
  <2>1. CASE p # o \/ n <= L
    <3>1. n \in 2 .. Last(p) /\ \A j \in 1 .. n : versions'[p][j] = versions[p][j]
      BY <1>7, <1>8, <1>9, <2>1
    <3>2. PICK s : s = versions[p][n].seen
      OBVIOUS
    <3>3. s \in 1 .. n - 1 /\ versions[p][s].row.status = "AWAITING_PICKUP"
      BY <3>1, <3>2 DEF ChangesWereOpen
    <3> QED BY <3>1, <3>2, <3>3
  <2>2. CASE p = o /\ n = L + 1
    <3>1. PICK s : s = seen[q]
      OBVIOUS
    <3>2. s \in 1 .. L /\ versions'[o][s] = versions[o][s] /\ versions[o][s].row.status = "AWAITING_PICKUP"
      BY <1>4, <1>7, <1>8, <3>1
    <3>3. versions'[p][n].seen = s /\ s \in 1 .. n - 1
      BY <1>6, <1>7, <1>8, <2>2, <3>1, <3>2
    <3> QED BY <2>2, <3>2, <3>3
  <2> QED BY <1>7, <1>8, <2>1, <2>2
<1>20. WrittenOnce'
  <2>1. \A p \in Orders : \A i, j \in 1 .. Last(p)' : versions'[p][i].by = versions'[p][j].by => i = j
    <3> SUFFICES ASSUME NEW p \in Orders, NEW i \in 1 .. Last(p)', NEW j \in 1 .. Last(p)',
                        versions'[p][i].by = versions'[p][j].by
                 PROVE  i = j
      OBVIOUS
    <3>1. CASE p # o
      BY <1>9, <3>1 DEF WrittenOnce
    <3>2. CASE p = o
      <4>1. \A k \in 1 .. L + 1 : \/ k = L + 1 /\ versions'[o][k].by = q
                                  \/ k \in 1 .. L /\ versions'[o][k] = versions[o][k]
                                     /\ versions[o][k].by # q
        BY <1>6, <1>7, <1>8, <1>15
      <4>2. i \in 1 .. L + 1 /\ j \in 1 .. L + 1
        BY <1>8, <3>2
      <4>3. \A k, l \in 1 .. L : versions[o][k].by = versions[o][l].by => k = l
        BY <1>4, <1>7 DEF WrittenOnce
      <4> QED BY <3>2, <4>1, <4>2, <4>3
    <3> QED BY <3>1, <3>2
  <2>2. \A r \in Changes : pc'[r] = "ok" =>
          \E p \in Orders : target'[r] = p /\ \E i \in 1 .. Last(p)' : versions'[p][i].by = r
    <3> SUFFICES ASSUME NEW r \in Changes, pc'[r] = "ok"
                 PROVE  \E p \in Orders : target[r] = p /\ \E i \in 1 .. Last(p)' : versions'[p][i].by = r
      BY <1>3
    <3>1. CASE r = q
      BY <1>1, <1>4, <1>6, <1>7, <1>8, <3>1
    <3>2. CASE r # q
      <4>1. PICK p \in Orders : target[r] = p /\ \E i \in 1 .. Last(p) : versions[p][i].by = r
        BY <1>10, <3>2, Kinds DEF WrittenOnce
      <4>2. \A i \in 1 .. Last(p) : i \in 1 .. Last(p)' /\ versions'[p][i] = versions[p][i]
        BY <1>7, <1>8, <1>9
      <4> QED BY <4>1, <4>2
    <3> QED BY <3>1, <3>2
  <2>3. ASSUME NEW p \in Orders, NEW n \in 1 .. Last(p)', NEW f \in Updatable
        PROVE  \E i \in 1 .. n : versions'[p][i].by = versions'[p][n].row[f]
    <3>1. CASE p # o \/ n <= L
      <4>1. n \in 1 .. Last(p) /\ \A j \in 1 .. n : versions'[p][j] = versions[p][j]
        BY <1>7, <1>8, <1>9, <2>3, <3>1
      <4> QED BY <4>1 DEF WrittenOnce
    <3>2. CASE p = o /\ n = L + 1 /\ f \in asked[q]
      BY <1>4, <1>6, <1>7, <1>8, <3>2
    <3>3. CASE p = o /\ n = L + 1 /\ f \notin asked[q]
      <4>1. draft[q][f] = versions[o][seen[q]].row[f]
        BY <1>4, <3>3, Kinds
      <4>2. PICK i \in 1 .. seen[q] : versions[o][i].by = versions[o][seen[q]].row[f]
        BY <1>4 DEF WrittenOnce
      <4>3. i \in 1 .. L /\ i \in 1 .. n /\ versions'[o][i] = versions[o][i]
        BY <1>4, <1>7, <1>8, <3>3
      <4> QED BY <1>6, <1>8, <3>3, <4>1, <4>2, <4>3
    <3> QED BY <1>7, <1>8, <2>3, <3>1, <3>2, <3>3
  <2> QED BY <2>1, <2>2, <2>3 DEF WrittenOnce
<1> QED BY <1>14, <1>16, <1>17, <1>18, <1>19, <1>20

\* Every step preserves the inductive invariant.
LEMMA NextInv == IInv /\ [Next]_vars => IInv'
<1> SUFFICES ASSUME IInv, [Next]_vars PROVE IInv'
  OBVIOUS
<1>1. ASSUME NEW q \in Creates, CreateOrder(q) PROVE IInv'
  BY <1>1, CreateStep
<1>2. ASSUME NEW q \in Requests, Reject(q) PROVE IInv'
  BY <1>2, QuietStep
<1>3. ASSUME NEW q \in Changes, FindStep(q) PROVE IInv'
  BY <1>3, FindInv
<1>4. ASSUME NEW q \in Changes, WriteOrder(q) PROVE IInv'
  BY <1>4, WriteInv
<1>5. ASSUME NEW q \in Changes, Abort(q) PROVE IInv'
  BY <1>5, QuietStep, Kinds
<1>6. CASE UNCHANGED vars
  <2>1. /\ \A r : Given(r)' = Given(r)
        /\ \A o : Last(o)' = Last(o)
    BY <1>6 DEF vars, Given, Last
  <2>2. TypeOK' /\ WritersKnown' /\ DraftBased'
    BY <1>6, <2>1 DEF vars, IInv, TypeOK, WritersKnown, DraftBased
  <2>3. LostByOverlapOnly'
    BY <1>6, <2>1 DEF vars, IInv, LostByOverlapOnly
  <2>4. ChangesWereOpen' /\ WrittenOnce'
    BY <1>6, <2>1 DEF vars, IInv, ChangesWereOpen, WrittenOnce
  <2> QED BY <2>2, <2>3, <2>4 DEF IInv
<1> QED BY <1>1, <1>2, <1>3, <1>4, <1>5, <1>6 DEF Next

----------------------------------------------------------------------------
(* Theorems                                                                 *)

\* The inductive invariant holds in every reachable state.
THEOREM Inductive == Spec => []IInv
  BY InitInv, NextInv, PTL DEF Spec

\* The table with its past and the requests keep their types.
THEOREM TypeCorrect == Spec => []TypeOK
<1>1. IInv => TypeOK
  BY DEF IInv
<1> QED BY <1>1, Inductive, PTL

\* However many requests overlap, what one of them wrote is lost only to one
\* that changes the same field or that had read before.
THEOREM NothingElseIsLost == Spec => []LostByOverlapOnly
<1>1. IInv => LostByOverlapOnly
  BY DEF IInv
<1> QED BY <1>1, Inductive, PTL

\* Every change was made on an open version.
THEOREM AllChangesWereOpen == Spec => []ChangesWereOpen
<1>1. IInv => ChangesWereOpen
  BY DEF IInv
<1> QED BY <1>1, Inductive, PTL

\* Requests write at most once, and those answered 200 have written.
THEOREM AllWrittenOnce == Spec => []WrittenOnce
<1>1. IInv => WrittenOnce
  BY DEF IInv
<1> QED BY <1>1, Inductive, PTL
=============================================================================
