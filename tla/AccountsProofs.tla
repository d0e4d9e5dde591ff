--------------------------- MODULE AccountsProofs ---------------------------
(***************************************************************************)
(* Theorems about Accounts, for any number of writers, users and events.   *)
(* What AuditProofs shows of the trail holds under these handlers too, as  *)
(* all they do to it are steps of AuditChain.                              *)
(***************************************************************************)
EXTENDS Accounts, AuditProofs, FiniteSetTheorems

-----------------------------------------------------------------------------
(* The inductive invariant. *)

IsCreating(w) == tx[w] # NoOne /\ tx[w].kind \in {"user.bootstrapped", "user.created"}
IsRevoking(w) == tx[w] # NoOne /\ tx[w].kind = "user.revoked"

(* A transaction records the event of its request, once; until it writes it *)
(* records nothing, and no other handler records events of these.           *)
RecordsItsEvent(w) ==
    /\ tx[w] = NoOne => \A k \in OwnedBy(w) : rows[k].body \notin AccountEvents
    /\ IsAuthenticated(w) => ~Open(w)
    /\ IsWriting(w) =>
          /\ \A k \in OwnedBy(w) : rows[k].body = EventOf(tx[w]) /\ OwnedBy(w) = {k}
          /\ OwnedBy(w) # {} => seen[w] = NoOne

(* What a handler has checked still holds when it commits.                  *)
ChecksHold(w) ==
    /\ IsCreating(w) => account[tx[w].user] = NoAccount /\ tx[w].role \in Roles
    /\ IsRevoking(w) =>
          /\ tx[w].user \in Existing
          /\ ~tx[w].changes => account[tx[w].user].active = FALSE

(* The unique email address: one transaction creates it.                    *)
OneCreates ==
    \A w, x \in Writers : IsCreating(w) /\ IsCreating(x) /\ tx[w].user = tx[x].user => w = x

(* A user has a role. *)
HasRole == \A u \in Existing : account[u].role \in Roles

(* A revocation is of a user there is.                                      *)
RevokedExist == \A u \in Users : u \notin Existing => Revocations(u) = {}

AInv ==
    /\ IInv
    /\ AccountsTypeOK
    /\ \A w \in Writers : RecordsItsEvent(w) /\ ChecksHold(w)
    /\ OneCreates /\ HasRole
    /\ ~damaged => RevokedExist
    /\ UsersMatchTrail

-----------------------------------------------------------------------------
(* What the steps of the trail do to the rows, seen from a writer. *)

LEMMA TrailInsert ==
    ASSUME TypeOK, NEW w \in Writers, NEW body, Insert(w, body)
    PROVE  /\ Committed' = Committed /\ UNCHANGED damaged /\ seen'[w] = NoOne
           /\ OwnedBy(w)' = OwnedBy(w) \cup {nextSeq} /\ nextSeq \notin OwnedBy(w)
           /\ rows'[nextSeq].body = body
           /\ \A k \in DOMAIN rows : rows'[k].body = rows[k].body
           /\ \A x \in Writers \ {w} : OwnedBy(x)' = OwnedBy(x) /\ seen'[x] = seen[x]
<1>1. PICK n, row : n = nextSeq /\ row = NewRow(w, body)
  OBVIOUS
<1>2. n \notin DOMAIN rows /\ row.owner = w /\ row.body = body
  BY <1>1, RowNumbers DEF NewRow
<1>3. /\ DOMAIN rows' = DOMAIN rows \cup {n}
      /\ rows'[n] = row /\ \A k \in DOMAIN rows : rows'[k] = rows[k]
  BY <1>1, <1>2 DEF Insert
<1>4. Committed' = Committed
  BY <1>2, <1>3, AuditAssumption DEF Committed
<1>5. OwnedBy(w)' = OwnedBy(w) \cup {n} /\ \A x \in Writers \ {w} : OwnedBy(x)' = OwnedBy(x)
  BY <1>2, <1>3 DEF OwnedBy
<1>6. seen'[w] = NoOne /\ \A x \in Writers \ {w} : seen'[x] = seen[x]
  BY DEF Insert, TypeOK
<1>7. n \notin OwnedBy(w)
  BY <1>2 DEF OwnedBy
<1> QED
  BY <1>1, <1>2, <1>3, <1>4, <1>5, <1>6, <1>7 DEF Insert

LEMMA TrailCommit ==
    ASSUME TypeOK, NEW w \in Writers, Commit(w)
    PROVE  /\ Committed' = Committed \cup OwnedBy(w) /\ Committed \cap OwnedBy(w) = {}
           /\ OwnedBy(w)' = {} /\ UNCHANGED <<seen, damaged>>
           /\ \A k \in DOMAIN rows : rows'[k].body = rows[k].body
           /\ \A x \in Writers \ {w} : OwnedBy(x)' = OwnedBy(x)
<1>1. /\ DOMAIN rows' = DOMAIN rows
      /\ \A k \in DOMAIN rows :
            /\ rows'[k].body = rows[k].body
            /\ rows'[k].owner = IF rows[k].owner = w THEN NoOne ELSE rows[k].owner
  BY DEF Commit, OwnedBy, TypeOK
<1> QED
  BY <1>1, AuditAssumption DEF Commit, Committed, OwnedBy

LEMMA TrailRollback ==
    ASSUME TypeOK, NEW w \in Writers, Rollback(w)
    PROVE  /\ Committed' = Committed /\ UNCHANGED damaged
           /\ OwnedBy(w)' = {} /\ seen'[w] = NoOne
           /\ \A k \in Committed : rows'[k].body = rows[k].body
           /\ \A x \in Writers \ {w} :
                 /\ OwnedBy(x)' = OwnedBy(x) /\ seen'[x] = seen[x]
                 /\ \A k \in OwnedBy(x) : rows'[k].body = rows[k].body
<1>1. /\ DOMAIN rows' = DOMAIN rows \ OwnedBy(w)
      /\ \A k \in DOMAIN rows' : rows'[k] = rows[k]
  BY DEF Rollback
<1>2. seen'[w] = NoOne /\ \A x \in Writers \ {w} : seen'[x] = seen[x]
  BY DEF Rollback, TypeOK
<1> QED
  BY <1>1, <1>2, AuditAssumption DEF Rollback, Committed, OwnedBy

(* All that is done to the trail are steps of AuditChain. *)
LEMMA TrailSteps ==
    ASSUME AccountsTypeOK, [AccountsNext]_<<vars, accountVars>>
    PROVE  [Next]_vars
<1>1. ASSUME NEW w \in Writers, RecordInserts(w) PROVE Next
  <2>1. tx[w] \in Requests /\ tx[w].kind # "authenticated"
    BY <1>1 DEF RecordInserts, IsWriting, AccountsTypeOK
  <2>2. EventOf(tx[w]) \in AccountEvents
    BY <2>1 DEF EventOf, AccountEvents, Requests
  <2> QED
    BY <1>1, <2>2, AccountsAssumption DEF RecordInserts, Next
<1>2. ASSUME NEW w \in Writers, NEW u \in Users,
             \/ Bootstrap(w, u) \/ Authenticate(w, u) \/ RevokeUser(w, u)
             \/ \E role \in Roles : CreateUser(w, u, role)
      PROVE  UNCHANGED vars
  BY <1>2 DEF Bootstrap, Authenticate, RevokeUser, CreateUser, Serve
<1>3. ASSUME NEW w \in Writers,
             RecordReads(w) \/ CommitAccount(w) \/ Abandon(w) \/ OtherHandler(w)
      PROVE  [Next]_vars
  BY <1>3 DEF RecordReads, CommitAccount, Abandon, OtherHandler, OtherBodies, Next
<1>4. ASSUME Tamper PROVE Next
  BY <1>4 DEF Tamper, OtherBodies, Next
<1>5. ASSUME UNCHANGED <<vars, accountVars>> PROVE UNCHANGED vars
  BY <1>5
<1> QED
  BY <1>1, <1>2, <1>3, <1>4, <1>5 DEF AccountsNext

-----------------------------------------------------------------------------
(* What stays when a step concerns another writer, or no event of these. *)

LEMMA OtherRecords ==
    ASSUME NEW x \in Writers, RecordsItsEvent(x), tx'[x] = tx[x],
           OwnedBy(x)' = OwnedBy(x), seen'[x] = seen[x],
           \A k \in OwnedBy(x) : rows'[k].body = rows[k].body
    PROVE  RecordsItsEvent(x)'
BY DEF RecordsItsEvent, IsAuthenticated, IsWriting, Open

LEMMA SameUsers ==
    ASSUME AInv, ~damaged' => ~damaged, UNCHANGED account,
           Recorded' = Recorded, \A k \in Recorded : rows'[k].body = rows[k].body
    PROVE  (~damaged' => RevokedExist') /\ UsersMatchTrail' /\ HasRole'
<1>1. ASSUME NEW u PROVE Creations(u)' = Creations(u) /\ Revocations(u)' = Revocations(u)
  BY DEF Creations, Revocations
<1>2. Existing' = Existing
  BY DEF Existing
<1>3. ~damaged' => RevokedExist'
  BY <1>1, <1>2 DEF AInv, RevokedExist
<1>4. UsersMatchTrail'
  BY <1>1, <1>2 DEF AInv, UsersMatchTrail, Creations
<1>5. HasRole'
  BY <1>2 DEF AInv, HasRole
<1> QED
  BY <1>3, <1>4, <1>5

LEMMA SameChecks ==
    ASSUME AInv, UNCHANGED <<account, tx>>
    PROVE  (\A w \in Writers : ChecksHold(w)') /\ OneCreates' /\ HasRole'
BY DEF AInv, HasRole, ChecksHold, OneCreates, IsCreating, IsRevoking, Existing

(* A committed row keeps its event; what is not one of these events does    *)
(* not count.                                                               *)
LEMMA SameRecorded ==
    ASSUME Committed \subseteq Committed',
           \A k \in Committed : rows'[k].body = rows[k].body,
           \A k \in Committed' \ Committed : rows'[k].body \notin AccountEvents
    PROVE  Recorded' = Recorded /\ \A k \in Recorded : rows'[k].body = rows[k].body
BY DEF Recorded

-----------------------------------------------------------------------------
(* Every step keeps the invariant. *)

LEMMA AStart == AccountsInit => AInv
<1> SUFFICES ASSUME AccountsInit PROVE AInv
  OBVIOUS
<1>1. IInv /\ TypeOK
  BY IStart DEF AccountsInit, IInv
<1>2. DOMAIN rows = {} /\ (\A w \in Writers : seen[w] = NoOne /\ tx[w] = NoOne)
      /\ \A u \in Users : account[u] = NoAccount
  BY DEF AccountsInit, Init
<1>3. Committed = {} /\ (\A w : OwnedBy(w) = {}) /\ Recorded = {} /\ Existing = {}
  BY <1>2 DEF Committed, OwnedBy, Recorded, Existing
<1>4. AccountsTypeOK
  <2>1. NoAccount \in [role : Roles \cup {NoOne}, active : BOOLEAN, keyActive : BOOLEAN]
    BY DEF NoAccount
  <2> QED
    BY <1>1, <2>1 DEF AccountsInit, AccountsTypeOK
<1>5. \A w \in Writers : RecordsItsEvent(w) /\ ChecksHold(w)
  BY <1>2, <1>3 DEF RecordsItsEvent, ChecksHold, IsAuthenticated, IsWriting, IsCreating, IsRevoking
<1>6. OneCreates /\ HasRole
  BY <1>2, <1>3 DEF OneCreates, IsCreating, HasRole
<1>7. \A u : Creations(u) = {} /\ Revocations(u) = {}
  BY <1>3 DEF Creations, Revocations
<1>8. RevokedExist /\ UsersMatchTrail
  <2>1. ASSUME NEW u \in Users PROVE account[u].keyActive = account[u].active
    <3>1. account[u] = [role |-> NoOne, active |-> FALSE, keyActive |-> FALSE]
      BY <1>2 DEF NoAccount
    <3>2. account[u].active = FALSE /\ account[u].keyActive = FALSE
      BY <3>1
    <3> QED
      BY <3>2
  <2> QED
    BY <1>3, <1>7, <2>1 DEF RevokedExist, UsersMatchTrail
<1> QED
  BY <1>1, <1>4, <1>5, <1>6, <1>8 DEF AInv

(* A writer takes up a request, or its next part: what it has checked. *)
LEMMA ServeKeeps ==
    ASSUME AInv, NEW w \in Writers, NEW request \in Requests, Serve(w, request), ~Open(w),
           request.kind \in {"user.bootstrapped", "user.created"} =>
               /\ account[request.user] = NoAccount /\ request.role \in Roles
               /\ \A x \in Writers \ {w} : IsCreating(x) => tx[x].user # request.user,
           request.kind = "user.revoked" =>
               /\ request.user \in Existing
               /\ ~request.changes => account[request.user].active = FALSE
    PROVE  AInv'
<1>1. /\ tx' = [tx EXCEPT ![w] = request] /\ UNCHANGED account
      /\ UNCHANGED <<rows, nextSeq, seen, overlapped, damaged>>
  BY DEF Serve, vars
<1>2. DOMAIN tx = Writers /\ tx \in [Writers -> Requests \cup {NoOne}]
  BY DEF AInv, AccountsTypeOK
<1>3. tx'[w] = request /\ request # NoOne /\ \A x \in Writers \ {w} : tx'[x] = tx[x]
  BY <1>1, <1>2, AccountsAssumption
<1>4. Committed' = Committed /\ \A x : OwnedBy(x)' = OwnedBy(x)
  BY <1>1 DEF Committed, OwnedBy
<1>5. AccountsTypeOK'
  <2>1. TypeOK' /\ account' \in [Users -> [role : Roles \cup {NoOne}, active : BOOLEAN, keyActive : BOOLEAN]]
    BY <1>1 DEF AInv, AccountsTypeOK, TypeOK
  <2>2. tx' \in [Writers -> Requests \cup {NoOne}]
    BY <1>1, <1>2
  <2>3. raced' \in BOOLEAN
    BY DEF Serve
  <2> QED
    BY <2>1, <2>2, <2>3 DEF AccountsTypeOK
<1>6. ASSUME NEW x \in Writers PROVE RecordsItsEvent(x)'
  <2>1. CASE x = w
    <3>1. OwnedBy(w) = {} /\ seen[w] = NoOne
      BY DEF Open
    <3> QED
      BY <1>1, <1>4, <2>1, <3>1 DEF RecordsItsEvent, Open
  <2>2. CASE x # w
    BY <1>1, <1>3, <1>4, <2>2, OtherRecords DEF AInv
  <2> QED
    BY <2>1, <2>2
<1>7. ASSUME NEW x \in Writers PROVE ChecksHold(x)'
  <2>1. CASE x = w
    BY <1>1, <1>3, <2>1 DEF ChecksHold, IsCreating, IsRevoking, Existing
  <2>2. CASE x # w
    BY <1>1, <1>3, <2>2 DEF AInv, ChecksHold, IsCreating, IsRevoking, Existing
  <2> QED
    BY <2>1, <2>2
<1>8. OneCreates'
  BY <1>3 DEF AInv, OneCreates, IsCreating
<1>9. (~damaged' => RevokedExist') /\ UsersMatchTrail' /\ HasRole'
  <2>1. Recorded' = Recorded /\ \A k \in Recorded : rows'[k].body = rows[k].body
    BY <1>1, <1>4 DEF Recorded
  <2> QED
    BY <1>1, <2>1, SameUsers
<1>10. IInv'
  BY StutterKeeps DEF AInv, Serve
<1> QED
  BY <1>5, <1>6, <1>7, <1>8, <1>9, <1>10 DEF AInv

LEMMA CreatorLocks ==
    ASSUME NEW x \in Writers, IsCreating(x)
    PROVE  <<"email", tx[x].user>> \in Locks(x)
BY DEF IsCreating, Locks

LEMMA BootstrapKeeps ==
    ASSUME AInv, NEW w \in Writers, NEW u \in Users, Bootstrap(w, u) PROVE AInv'
<1>1. PICK request : request = [kind |-> "user.bootstrapped", actor |-> u, user |-> u,
                                role |-> "admin", changes |-> TRUE]
  OBVIOUS
<1>2. request \in Requests
  BY <1>1 DEF Requests, Roles
<1>3. \A x \in Writers \ {w} : IsCreating(x) => tx[x].user # u
  BY CreatorLocks DEF Bootstrap, Free
<1> QED
  BY <1>1, <1>2, <1>3, ServeKeeps DEF Bootstrap, Roles

LEMMA AuthenticateKeeps ==
    ASSUME AInv, NEW w \in Writers, NEW u \in Users, Authenticate(w, u) PROVE AInv'
<1>1. PICK request : request = [kind |-> "authenticated", actor |-> u, user |-> u,
                                role |-> NoOne, changes |-> FALSE]
  OBVIOUS
<1>2. request \in Requests
  BY <1>1 DEF Requests
<1> QED
  BY <1>1, <1>2, ServeKeeps DEF Authenticate

LEMMA CreateUserKeeps ==
    ASSUME AInv, NEW w \in Writers, NEW u \in Users, NEW role \in Roles, CreateUser(w, u, role)
    PROVE  AInv'
<1>1. PICK request : request = [kind |-> "user.created", actor |-> tx[w].actor, user |-> u,
                                role |-> role, changes |-> TRUE]
  OBVIOUS
<1>2. tx[w] \in Requests /\ ~Open(w)
  BY DEF AInv, AccountsTypeOK, CreateUser, IsAuthenticated, RecordsItsEvent
<1>3. request \in Requests
  BY <1>1, <1>2 DEF Requests
<1>4. \A x \in Writers \ {w} : IsCreating(x) => tx[x].user # u
  BY CreatorLocks DEF CreateUser, Free
<1> QED
  BY <1>1, <1>2, <1>3, <1>4, ServeKeeps DEF CreateUser

LEMMA RevokeUserKeeps ==
    ASSUME AInv, NEW w \in Writers, NEW u \in Users, RevokeUser(w, u) PROVE AInv'
<1>1. PICK request :
        request = [kind |-> "user.revoked", actor |-> tx[w].actor, user |-> u, role |-> NoOne,
                   changes |-> account[u].active \/ account[u].keyActive]
  OBVIOUS
<1>2. tx[w] \in Requests /\ ~Open(w)
  BY DEF AInv, AccountsTypeOK, RevokeUser, IsAuthenticated, RecordsItsEvent
<1>3. account[u].active \in BOOLEAN /\ account[u].keyActive \in BOOLEAN
  BY DEF AInv, AccountsTypeOK
<1>4. request \in Requests
  BY <1>1, <1>2, <1>3 DEF Requests
<1>5. ~request.changes => account[u].active = FALSE
  BY <1>1, <1>3
<1> QED
  BY <1>1, <1>2, <1>4, <1>5, ServeKeeps DEF RevokeUser

(* A step of the trail that commits nothing. *)
LEMMA TrailKeeps ==
    ASSUME AInv, [Next]_vars, Committed' = Committed, UNCHANGED damaged, UNCHANGED accountVars,
           \A k \in Committed : rows'[k].body = rows[k].body,
           NEW w \in Writers, RecordsItsEvent(w)',
           \A x \in Writers \ {w} :
               /\ OwnedBy(x)' = OwnedBy(x) /\ seen'[x] = seen[x]
               /\ \A k \in OwnedBy(x) : rows'[k].body = rows[k].body
    PROVE  AInv'
<1>1. UNCHANGED <<account, tx, raced, damaged>>
  BY DEF accountVars
<1>2. IInv'
  BY NextKeeps DEF AInv
<1>3. AccountsTypeOK'
  BY <1>1, <1>2 DEF AInv, AccountsTypeOK, IInv
<1>4. ASSUME NEW x \in Writers, x # w PROVE RecordsItsEvent(x)'
  BY <1>1, <1>4, OtherRecords DEF AInv
<1>5. (\A x \in Writers : ChecksHold(x)') /\ OneCreates'
  BY <1>1, SameChecks
<1>6. Recorded' = Recorded /\ \A k \in Recorded : rows'[k].body = rows[k].body
  BY DEF Recorded
<1>7. (~damaged' => RevokedExist') /\ UsersMatchTrail' /\ HasRole'
  BY <1>1, <1>6, SameUsers
<1> QED
  BY <1>2, <1>3, <1>4, <1>5, <1>7 DEF AInv

LEMMA ReadsKeep ==
    ASSUME AInv, NEW w \in Writers, ReadLast(w), UNCHANGED accountVars,
           tx[w] = NoOne \/ (IsWriting(w) /\ OwnedBy(w) = {})
    PROVE  AInv'
<1>1. UNCHANGED <<rows, damaged, account, tx>> /\ [Next]_vars
  BY DEF ReadLast, accountVars, Next
<1>2. Committed' = Committed /\ \A x : OwnedBy(x)' = OwnedBy(x)
  BY <1>1 DEF Committed, OwnedBy
<1>3. \A x \in Writers \ {w} : seen'[x] = seen[x]
  BY DEF ReadLast, AInv, AccountsTypeOK, TypeOK
<1>4. RecordsItsEvent(w)'
  BY <1>1, <1>2 DEF AInv, RecordsItsEvent, IsAuthenticated, IsWriting
<1> QED
  BY <1>1, <1>2, <1>3, <1>4, TrailKeeps

LEMMA InsertsKeep ==
    ASSUME AInv, NEW w \in Writers, NEW body \in Bodies, Insert(w, body), UNCHANGED accountVars,
           \/ tx[w] = NoOne /\ body \notin AccountEvents
           \/ IsWriting(w) /\ body = EventOf(tx[w])
    PROVE  AInv'
<1>1. UNCHANGED <<account, tx>> /\ [Next]_vars /\ TypeOK
  BY DEF accountVars, Next, AInv, IInv
<1>2. PICK n : n = nextSeq
  OBVIOUS
<1>3. /\ Committed' = Committed /\ UNCHANGED damaged /\ seen'[w] = NoOne
      /\ OwnedBy(w)' = OwnedBy(w) \cup {n} /\ n \notin OwnedBy(w)
      /\ rows'[n].body = body
      /\ \A k \in DOMAIN rows : rows'[k].body = rows[k].body
      /\ \A x \in Writers \ {w} : OwnedBy(x)' = OwnedBy(x) /\ seen'[x] = seen[x]
  BY <1>1, <1>2, TrailInsert
<1>4. RecordsItsEvent(w)'
  <2>1. CASE tx[w] = NoOne
    <3>1. \A k \in OwnedBy(w)' : rows'[k].body \notin AccountEvents
      BY <1>3, <2>1 DEF AInv, RecordsItsEvent, OwnedBy, IsWriting
    <3> QED
      BY <1>1, <2>1, <3>1 DEF RecordsItsEvent, IsAuthenticated, IsWriting
  <2>2. CASE IsWriting(w)
    <3>1. OwnedBy(w) = {}
      BY <2>2 DEF AInv, RecordsItsEvent, Insert
    <3>2. OwnedBy(w)' = {n} /\ rows'[n].body = EventOf(tx[w])
      BY <1>3, <2>2, <3>1 DEF IsWriting
    <3> QED
      BY <1>1, <1>3, <2>2, <3>2 DEF RecordsItsEvent, IsAuthenticated, IsWriting
  <2> QED
    BY <2>1, <2>2
<1>5. \A k \in Committed : rows'[k].body = rows[k].body
  BY <1>3 DEF Committed
<1>6. \A x \in Writers \ {w} : \A k \in OwnedBy(x) : rows'[k].body = rows[k].body
  BY <1>3 DEF OwnedBy
<1> QED
  BY <1>1, <1>3, <1>4, <1>5, <1>6, TrailKeeps

(* A request ends without a commit: nothing of it stays. *)
LEMMA AbandonKeeps ==
    ASSUME AInv, NEW w \in Writers, Abandon(w) PROVE AInv'
<1>1. tx' = [tx EXCEPT ![w] = NoOne] /\ UNCHANGED <<account, raced>>
  BY DEF Abandon
<1>2. tx \in [Writers -> Requests \cup {NoOne}] /\ TypeOK
  BY DEF AInv, AccountsTypeOK
<1>3. tx'[w] = NoOne /\ \A x \in Writers \ {w} : tx'[x] = tx[x]
  BY <1>1, <1>2
<1>4. /\ Committed' = Committed /\ UNCHANGED damaged /\ OwnedBy(w)' = {}
      /\ \A k \in Committed : rows'[k].body = rows[k].body
      /\ \A x \in Writers \ {w} :
            /\ OwnedBy(x)' = OwnedBy(x) /\ seen'[x] = seen[x]
            /\ \A k \in OwnedBy(x) : rows'[k].body = rows[k].body
  <2>1. CASE Open(w)
    BY <1>2, <2>1, TrailRollback DEF Abandon
  <2>2. CASE ~Open(w)
    BY <2>2 DEF Abandon, vars, Committed, OwnedBy, Open
  <2> QED
    BY <2>1, <2>2
<1>5. IInv'
  BY NextKeeps DEF AInv, Abandon, Next
<1>6. AccountsTypeOK'
  BY <1>1, <1>2, <1>5 DEF AInv, AccountsTypeOK, IInv
<1>7. RecordsItsEvent(w)'
  BY <1>3, <1>4 DEF RecordsItsEvent, IsAuthenticated, IsWriting
<1>8. ASSUME NEW x \in Writers, x # w PROVE RecordsItsEvent(x)'
  BY <1>3, <1>4, <1>8, OtherRecords DEF AInv
<1>9. ASSUME NEW x \in Writers PROVE ChecksHold(x)'
  BY <1>1, <1>3 DEF AInv, ChecksHold, IsCreating, IsRevoking, Existing
<1>10. OneCreates'
  BY <1>3 DEF AInv, OneCreates, IsCreating
<1>11. Recorded' = Recorded /\ \A k \in Recorded : rows'[k].body = rows[k].body
  BY <1>4 DEF Recorded
<1>12. (~damaged' => RevokedExist') /\ UsersMatchTrail' /\ HasRole'
  BY <1>1, <1>4, <1>11, SameUsers
<1> QED
  BY <1>5, <1>6, <1>7, <1>8, <1>9, <1>10, <1>12 DEF AInv

(* Another handler commits or rolls back: no event of these is among it.    *)
LEMMA OthersEndKeeps ==
    ASSUME AInv, NEW w \in Writers, tx[w] = NoOne, Commit(w) \/ Rollback(w),
           UNCHANGED accountVars
    PROVE  AInv'
<1>1. UNCHANGED <<account, tx, raced>> /\ TypeOK /\ IInv'
  BY NextKeeps DEF accountVars, AInv, IInv, Next
<1>2. /\ UNCHANGED damaged /\ OwnedBy(w)' = {} /\ Committed \subseteq Committed'
      /\ Committed' \subseteq Committed \cup OwnedBy(w)
      /\ \A k \in Committed' : rows'[k].body = rows[k].body
      /\ \A x \in Writers \ {w} :
            /\ OwnedBy(x)' = OwnedBy(x) /\ seen'[x] = seen[x]
            /\ \A k \in OwnedBy(x) : rows'[k].body = rows[k].body
  <2>1. CASE Commit(w)
    <3>1. \A k : k \in Committed \/ (\E x \in Writers : k \in OwnedBy(x)) => k \in DOMAIN rows
      BY DEF Committed, OwnedBy
    <3> QED
      BY <1>1, <2>1, <3>1, TrailCommit
  <2>2. CASE Rollback(w)
    BY <1>1, <2>2, TrailRollback
  <2> QED
    BY <2>1, <2>2
<1>3. AccountsTypeOK'
  BY <1>1 DEF AInv, AccountsTypeOK, IInv
<1>4. RecordsItsEvent(w)'
  BY <1>1, <1>2 DEF RecordsItsEvent, IsAuthenticated, IsWriting
<1>5. ASSUME NEW x \in Writers, x # w PROVE RecordsItsEvent(x)'
  BY <1>1, <1>2, <1>5, OtherRecords DEF AInv
<1>6. (\A x \in Writers : ChecksHold(x)') /\ OneCreates'
  BY <1>1, SameChecks
<1>7. \A k \in Committed' \ Committed : rows'[k].body \notin AccountEvents
  BY <1>2 DEF AInv, RecordsItsEvent
<1>8. Recorded' = Recorded /\ \A k \in Recorded : rows'[k].body = rows[k].body
  BY <1>2, <1>7, SameRecorded
<1>9. (~damaged' => RevokedExist') /\ UsersMatchTrail' /\ HasRole'
  BY <1>1, <1>2, <1>8, SameUsers
<1> QED
  BY <1>1, <1>3, <1>4, <1>5, <1>6, <1>9 DEF AInv

(* Behind the program's back: the trail is no witness any more. *)
LEMMA TamperKeeps == ASSUME AInv, Tamper PROVE AInv'
<1>1. PICK k \in 1 .. MaxSeq : Remove(k) \/ \E body \in OtherBodies : Edit(k, body)
  BY DEF Tamper
<1>2. UNCHANGED <<seen, account, tx, raced>> /\ damaged' = TRUE /\ k \in Committed
  BY <1>1 DEF Tamper, accountVars, Edit, Remove
<1>3. IInv'
  BY <1>1, DamageKeeps DEF AInv, OtherBodies
<1>4. \A j \in DOMAIN rows : j # k => j \in DOMAIN rows' /\ rows'[j] = rows[j]
  BY <1>1 DEF Edit, Remove
<1>5. DOMAIN rows' \subseteq DOMAIN rows /\ (k \in DOMAIN rows' => rows'[k].owner = rows[k].owner)
  <2>1. CASE Remove(k)
    BY <2>1 DEF Remove
  <2>2. ASSUME NEW body \in OtherBodies, Edit(k, body)
        PROVE  DOMAIN rows' = DOMAIN rows /\ rows'[k].owner = rows[k].owner
    <3>1. k \in DOMAIN rows /\ DOMAIN rows[k] = {"owner", "body", "prev", "hash"}
      BY <1>2 DEF Committed, AInv, IInv, TypeOK
    <3> QED
      BY <2>2, <3>1 DEF Edit
  <2> QED
    BY <1>1, <2>1, <2>2
<1>6. ASSUME NEW x \in Writers PROVE RecordsItsEvent(x)'
  <2>1. OwnedBy(x)' = OwnedBy(x) /\ \A j \in OwnedBy(x) : rows'[j] = rows[j]
    BY <1>2, <1>4, <1>5, AuditAssumption DEF OwnedBy, Committed
  <2> QED
    BY <1>2, <2>1, OtherRecords DEF AInv
<1>7. (\A x \in Writers : ChecksHold(x)') /\ OneCreates' /\ HasRole'
  BY <1>2, SameChecks
<1>8. AccountsTypeOK'
  BY <1>2, <1>3 DEF AInv, AccountsTypeOK, IInv
<1> QED
  BY <1>2, <1>3, <1>6, <1>7, <1>8 DEF AInv, UsersMatchTrail

-----------------------------------------------------------------------------
(* The commit of a handler: its event enters the trail with what it says of *)
(* the user.                                                                *)

(* What is committed: one event, the request's own. *)
LEMMA CommittedEvent ==
    ASSUME AInv, NEW w \in Writers, CommitAccount(w), NEW request, request = tx[w]
    PROVE  /\ request \in Requests /\ request.kind # "authenticated"
           /\ \E k : /\ OwnedBy(w) = {k} /\ rows[k].body = EventOf(request)
                     /\ Recorded' = Recorded \cup {k} /\ k \notin Recorded
                     /\ rows'[k].body = rows[k].body
                     /\ \A j \in Recorded : rows'[j].body = rows[j].body
<1>1. request \in Requests /\ request.kind # "authenticated" /\ TypeOK
  BY DEF CommitAccount, IsWriting, AInv, AccountsTypeOK
<1>2. Commit(w) /\ OwnedBy(w) # {}
  BY DEF CommitAccount, Commit
<1>3. PICK k : k \in OwnedBy(w)
  BY <1>2
<1>4. OwnedBy(w) = {k} /\ rows[k].body = EventOf(request) /\ k \in DOMAIN rows
  BY <1>3 DEF AInv, RecordsItsEvent, CommitAccount, OwnedBy
<1>5. EventOf(request) \in AccountEvents
  BY <1>1 DEF EventOf, AccountEvents, Requests
<1>6. /\ Committed' = Committed \cup {k} /\ k \notin Committed
      /\ \A j \in DOMAIN rows : rows'[j].body = rows[j].body
  BY <1>1, <1>2, <1>4, TrailCommit
<1>7. Recorded' = Recorded \cup {k} /\ k \notin Recorded
  BY <1>4, <1>5, <1>6 DEF Recorded, Committed
<1>8. \A j \in Recorded : rows'[j].body = rows[j].body
  BY <1>6 DEF Recorded, Committed
<1> QED
  BY <1>1, <1>4, <1>6, <1>7, <1>8

(* What a commit leaves alone, whatever it commits. *)
LEMMA CommitFrame ==
    ASSUME AInv, NEW w \in Writers, CommitAccount(w)
    PROVE  /\ IInv' /\ UNCHANGED damaged
           /\ tx'[w] = NoOne /\ tx' \in [Writers -> Requests \cup {NoOne}]
           /\ \A x \in Writers \ {w} : tx'[x] = tx[x]
           /\ \A x \in Writers : RecordsItsEvent(x)'
           /\ OneCreates'
<1>1. tx \in [Writers -> Requests \cup {NoOne}] /\ tx' = [tx EXCEPT ![w] = NoOne] /\ TypeOK
  BY DEF AInv, AccountsTypeOK, CommitAccount
<1>2. /\ tx'[w] = NoOne /\ tx' \in [Writers -> Requests \cup {NoOne}]
      /\ \A x \in Writers \ {w} : tx'[x] = tx[x]
  BY <1>1
<1>3. IInv'
  BY NextKeeps DEF AInv, CommitAccount, Next
<1>4. /\ OwnedBy(w)' = {} /\ UNCHANGED <<seen, damaged>>
      /\ \A k \in DOMAIN rows : rows'[k].body = rows[k].body
      /\ \A x \in Writers \ {w} : OwnedBy(x)' = OwnedBy(x)
  BY <1>1, TrailCommit DEF CommitAccount
<1>5. RecordsItsEvent(w)'
  BY <1>2, <1>4 DEF RecordsItsEvent, IsAuthenticated, IsWriting
<1>6. ASSUME NEW x \in Writers, x # w PROVE RecordsItsEvent(x)'
  <2>1. \A k \in OwnedBy(x) : rows'[k].body = rows[k].body
    BY <1>4 DEF OwnedBy
  <2> QED
    BY <1>2, <1>4, <1>6, <2>1, OtherRecords DEF AInv
<1>7. OneCreates'
  BY <1>2 DEF AInv, OneCreates, IsCreating
<1> QED
  BY <1>2, <1>3, <1>4, <1>5, <1>6, <1>7

LEMMA CommitCreation ==
    ASSUME AInv, NEW w \in Writers, CommitAccount(w), IsCreating(w) PROVE AInv'
<1>1. PICK request : request = tx[w]
  OBVIOUS
<1>2. PICK u : u = request.user
  OBVIOUS
<1>3. /\ request \in Requests /\ u \in Users /\ account[u] = NoAccount /\ request.role \in Roles
      /\ request.kind \in {"user.bootstrapped", "user.created"}
  BY <1>1, <1>2, CommittedEvent DEF AInv, ChecksHold, IsCreating, Requests
<1>4. PICK k : /\ rows[k].body = EventOf(request)
               /\ Recorded' = Recorded \cup {k} /\ k \notin Recorded
               /\ rows'[k].body = rows[k].body
               /\ \A j \in Recorded : rows'[j].body = rows[j].body
  BY <1>1, CommittedEvent
<1>5. /\ rows'[k].body.action = request.kind /\ rows'[k].body.user = u
      /\ rows'[k].body.role = request.role
  BY <1>2, <1>4 DEF EventOf
<1>6. /\ account \in [Users -> [role : Roles \cup {NoOne}, active : BOOLEAN, keyActive : BOOLEAN]]
      /\ account' = [account EXCEPT ![u] = NewAccount(request.role)]
  BY <1>1, <1>2, <1>3 DEF AInv, AccountsTypeOK, CommitAccount, Written
<1>7. PICK row : row = NewAccount(request.role)
  OBVIOUS
<1>8. /\ row \in [role : Roles \cup {NoOne}, active : BOOLEAN, keyActive : BOOLEAN]
      /\ row.role = request.role /\ row.active = TRUE /\ row.keyActive = TRUE
  BY <1>3, <1>7 DEF NewAccount
<1>9. row # NoAccount
  BY <1>8 DEF NoAccount
<1>10. account'[u] = row /\ \A x \in Users \ {u} : account'[x] = account[x]
  BY <1>3, <1>6, <1>7
<1>11. Existing' = Existing \cup {u} /\ u \notin Existing
  BY <1>3, <1>9, <1>10 DEF Existing
<1>12. AccountsTypeOK'
  <2>1. account' \in [Users -> [role : Roles \cup {NoOne}, active : BOOLEAN, keyActive : BOOLEAN]]
    BY <1>6, <1>7, <1>8
  <2> QED
    BY <2>1, CommitFrame DEF AInv, AccountsTypeOK, IInv, CommitAccount
<1>13. ASSUME NEW x \in Writers PROVE ChecksHold(x)'
  <2>1. CASE x = w
    BY <2>1, CommitFrame DEF ChecksHold, IsCreating, IsRevoking
  <2>2. CASE x # w
    <3>1. tx'[x] = tx[x] /\ ChecksHold(x) /\ tx[x] \in Requests \cup {NoOne}
      BY <2>2, CommitFrame DEF AInv, AccountsTypeOK
    <3>2. ASSUME IsCreating(x) PROVE account'[tx[x].user] = account[tx[x].user]
      <4>1. tx[x].user \in Users \ {u}
        BY <1>1, <1>2, <2>2, <3>1, <3>2 DEF AInv, OneCreates, IsCreating, Requests
      <4> QED
        BY <1>10, <4>1
    <3>3. ASSUME IsRevoking(x)
          PROVE  tx[x].user \in Existing' /\ account'[tx[x].user] = account[tx[x].user]
      <4>1. tx[x].user \in Existing /\ tx[x].user \in Users \ {u}
        BY <1>11, <3>1, <3>3 DEF ChecksHold, IsRevoking, Existing
      <4> QED
        BY <1>10, <1>11, <4>1
    <3> QED
      BY <3>1, <3>2, <3>3 DEF ChecksHold, IsCreating, IsRevoking
  <2> QED
    BY <2>1, <2>2
<1>14. HasRole'
  BY <1>3, <1>8, <1>10, <1>11 DEF AInv, HasRole, Existing
<1>15. \A x \in Users : Revocations(x)' = Revocations(x)
  BY <1>3, <1>4, <1>5 DEF Revocations
<1>16. /\ Creations(u)' = Creations(u) \cup {k}
       /\ \A x \in Users \ {u} : Creations(x)' = Creations(x)
  BY <1>3, <1>4, <1>5 DEF Creations
<1>17. ~damaged' => RevokedExist'
  BY <1>11, <1>15, CommitFrame DEF AInv, RevokedExist
<1>18. UsersMatchTrail'
  <2> SUFFICES ASSUME ~damaged, NEW x \in Users
               PROVE  /\ x \in Existing' <=> Creations(x)' # {}
                      /\ \A j \in Creations(x)' :
                            Creations(x)' = {j} /\ account'[x].role = rows'[j].body.role
                      /\ x \in Existing' => (account'[x].active <=> Revocations(x)' = {})
                      /\ account'[x].keyActive = account'[x].active
    BY CommitFrame DEF UsersMatchTrail
  <2>1. CASE x = u
    <3>1. Creations(u) = {} /\ Revocations(u) = {}
      BY <1>3, <1>11 DEF AInv, UsersMatchTrail, RevokedExist
    <3>2. Creations(u)' = {k} /\ Revocations(u)' = {}
      BY <1>3, <1>15, <1>16, <3>1
    <3> QED
      BY <1>5, <1>8, <1>10, <1>11, <2>1, <3>2
  <2>2. CASE x # u
    <3>1. \A j \in Creations(x) : rows'[j].body = rows[j].body
      BY <1>4 DEF Creations
    <3>2. Creations(x)' = Creations(x) /\ Revocations(x)' = Revocations(x) /\ account'[x] = account[x]
      BY <1>10, <1>15, <1>16, <2>2
    <3>3. x \in Existing' <=> x \in Existing
      BY <1>11, <2>2
    <3>4. UsersMatchTrail
      BY DEF AInv
    <3> QED
      BY <3>1, <3>2, <3>3, <3>4 DEF UsersMatchTrail
  <2> QED
    BY <2>1, <2>2
<1> QED
  BY <1>12, <1>13, <1>14, <1>17, <1>18, CommitFrame DEF AInv

LEMMA CommitRevocation ==
    ASSUME AInv, NEW w \in Writers, CommitAccount(w), IsRevoking(w) PROVE AInv'
<1>1. PICK request : request = tx[w]
  OBVIOUS
<1>2. PICK u : u = request.user
  OBVIOUS
<1>3. /\ request \in Requests /\ u \in Users /\ u \in Existing
      /\ request.kind = "user.revoked"
  <2>1. request \in Requests
    BY <1>1, CommittedEvent
  <2>2. request.user \in Users
    BY <2>1 DEF Requests
  <2>3. ChecksHold(w)
    BY DEF AInv
  <2> QED
    BY <1>1, <1>2, <2>1, <2>2, <2>3 DEF ChecksHold, IsRevoking
<1>4. PICK k : /\ rows[k].body = EventOf(request)
               /\ Recorded' = Recorded \cup {k} /\ k \notin Recorded
               /\ rows'[k].body = rows[k].body
               /\ \A j \in Recorded : rows'[j].body = rows[j].body
  BY <1>1, CommittedEvent
<1>5. rows'[k].body.action = "user.revoked" /\ rows'[k].body.user = u
  BY <1>2, <1>3, <1>4 DEF EventOf
<1>6. /\ account \in [Users -> [role : Roles \cup {NoOne}, active : BOOLEAN, keyActive : BOOLEAN]]
      /\ account' = [account EXCEPT ![u] = Written(request)]
  BY <1>1, <1>2, <1>3 DEF AInv, AccountsTypeOK, CommitAccount
<1>7. PICK row : row = Written(request)
  OBVIOUS
<1>8. /\ row \in [role : Roles \cup {NoOne}, active : BOOLEAN, keyActive : BOOLEAN]
      /\ row.role = account[u].role /\ row.active = FALSE /\ row.keyActive = FALSE
  BY <1>2, <1>3, <1>6, <1>7 DEF Written
<1>9. row # NoAccount
  BY <1>3, <1>8, AccountsAssumption DEF NoAccount, AInv, HasRole
<1>10. account'[u] = row /\ \A x \in Users \ {u} : account'[x] = account[x]
  BY <1>3, <1>6, <1>7
<1>11. Existing' = Existing
  BY <1>3, <1>9, <1>10 DEF Existing
<1>12. AccountsTypeOK'
  <2>1. account' \in [Users -> [role : Roles \cup {NoOne}, active : BOOLEAN, keyActive : BOOLEAN]]
    BY <1>6, <1>7, <1>8
  <2> QED
    BY <2>1, CommitFrame DEF AInv, AccountsTypeOK, IInv, CommitAccount
<1>13. ASSUME NEW x \in Writers PROVE ChecksHold(x)'
  <2>1. CASE x = w
    BY <2>1, CommitFrame DEF ChecksHold, IsCreating, IsRevoking
  <2>2. CASE x # w
    <3>1. tx'[x] = tx[x] /\ ChecksHold(x) /\ tx[x] \in Requests \cup {NoOne}
      BY <2>2, CommitFrame DEF AInv, AccountsTypeOK
    <3>2. ASSUME IsCreating(x) PROVE account'[tx[x].user] = account[tx[x].user]
      <4>1. tx[x].user \in Users \ {u}
        BY <1>3, <3>1, <3>2 DEF ChecksHold, IsCreating, Requests, Existing
      <4> QED
        BY <1>10, <4>1
    <3>3. ASSUME IsRevoking(x)
          PROVE  /\ tx[x].user \in Existing'
                 /\ ~tx[x].changes => account'[tx[x].user].active = FALSE
      <4>1. tx[x].user \in Existing /\ tx[x].user \in Users
            /\ (~tx[x].changes => account[tx[x].user].active = FALSE)
        BY <3>1, <3>3 DEF ChecksHold, IsRevoking, Existing
      <4> QED
        BY <1>8, <1>10, <1>11, <4>1
    <3> QED
      BY <3>1, <3>2, <3>3 DEF ChecksHold, IsCreating, IsRevoking
  <2> QED
    BY <2>1, <2>2
<1>14. HasRole'
  BY <1>3, <1>8, <1>10, <1>11 DEF AInv, HasRole, Existing
<1>15. \A x \in Users : Creations(x)' = Creations(x)
  BY <1>4, <1>5 DEF Creations
<1>16. /\ Revocations(u)' = Revocations(u) \cup {k}
       /\ \A x \in Users \ {u} : Revocations(x)' = Revocations(x)
  BY <1>4, <1>5 DEF Revocations
<1>17. ~damaged' => RevokedExist'
  BY <1>3, <1>11, <1>16, CommitFrame DEF AInv, RevokedExist
<1>18. UsersMatchTrail'
  <2> SUFFICES ASSUME ~damaged, NEW x \in Users
               PROVE  /\ x \in Existing' <=> Creations(x)' # {}
                      /\ \A j \in Creations(x)' :
                            Creations(x)' = {j} /\ account'[x].role = rows'[j].body.role
                      /\ x \in Existing' => (account'[x].active <=> Revocations(x)' = {})
                      /\ account'[x].keyActive = account'[x].active
    BY CommitFrame DEF UsersMatchTrail
  <2>1. \A j \in Creations(x) : rows'[j].body = rows[j].body
    BY <1>4 DEF Creations
  <2>2. UsersMatchTrail /\ Creations(x)' = Creations(x)
    BY <1>15 DEF AInv
  <2>3. CASE x = u
    BY <1>8, <1>10, <1>11, <1>16, <2>1, <2>2, <2>3 DEF UsersMatchTrail
  <2>4. CASE x # u
    BY <1>10, <1>11, <1>16, <2>1, <2>2, <2>4 DEF UsersMatchTrail
  <2> QED
    BY <2>3, <2>4
<1> QED
  BY <1>12, <1>13, <1>14, <1>17, <1>18, CommitFrame DEF AInv

LEMMA NothingKeeps == ASSUME AInv, UNCHANGED <<vars, accountVars>> PROVE AInv'
<1>1. UNCHANGED <<rows, nextSeq, seen, overlapped, damaged, account, tx, raced>>
  BY DEF vars, accountVars
<1>2. IInv'
  BY StutterKeeps DEF AInv
<1>3. Committed' = Committed /\ \A x : OwnedBy(x)' = OwnedBy(x)
  BY <1>1 DEF Committed, OwnedBy
<1>4. \A x \in Writers : RecordsItsEvent(x)'
  BY <1>1, <1>3, OtherRecords DEF AInv
<1>5. (\A x \in Writers : ChecksHold(x)') /\ OneCreates' /\ HasRole'
  BY <1>1, SameChecks
<1>6. Recorded' = Recorded
  BY <1>1, <1>3 DEF Recorded
<1>7. (~damaged' => RevokedExist') /\ UsersMatchTrail'
  BY <1>1, <1>6, SameUsers
<1>8. AccountsTypeOK'
  BY <1>1, <1>2 DEF AInv, AccountsTypeOK, IInv
<1> QED
  BY <1>2, <1>4, <1>5, <1>7, <1>8 DEF AInv

LEMMA AccountsKeep == AInv /\ [AccountsNext]_<<vars, accountVars>> => AInv'
<1> SUFFICES ASSUME AInv, [AccountsNext]_<<vars, accountVars>> PROVE AInv'
  OBVIOUS
<1>1. ASSUME NEW w \in Writers, NEW u \in Users,
             \/ Bootstrap(w, u) \/ Authenticate(w, u) \/ RevokeUser(w, u)
             \/ \E role \in Roles : CreateUser(w, u, role)
      PROVE  AInv'
  BY <1>1, BootstrapKeeps, AuthenticateKeeps, RevokeUserKeeps, CreateUserKeeps
<1>2. ASSUME NEW w \in Writers, RecordReads(w) PROVE AInv'
  BY <1>2, ReadsKeep DEF RecordReads
<1>3. ASSUME NEW w \in Writers, RecordInserts(w) PROVE AInv'
  <2>1. tx[w] \in Requests /\ tx[w].kind # "authenticated"
    BY <1>3 DEF RecordInserts, IsWriting, AInv, AccountsTypeOK
  <2>2. EventOf(tx[w]) \in Bodies
    BY <2>1, AccountsAssumption DEF EventOf, AccountEvents, Requests
  <2>3. PICK body : body = EventOf(tx[w])
    OBVIOUS
  <2> QED
    BY <1>3, <2>2, <2>3, InsertsKeep DEF RecordInserts
<1>4. ASSUME NEW w \in Writers, CommitAccount(w) PROVE AInv'
  <2>1. IsCreating(w) \/ IsRevoking(w)
    BY <1>4 DEF CommitAccount, IsWriting, IsCreating, IsRevoking, AInv, AccountsTypeOK, Requests
  <2> QED
    BY <1>4, <2>1, CommitCreation, CommitRevocation
<1>5. ASSUME NEW w \in Writers, Abandon(w) PROVE AInv'
  BY <1>5, AbandonKeeps
<1>6. ASSUME NEW w \in Writers, OtherHandler(w) PROVE AInv'
  BY <1>6, ReadsKeep, InsertsKeep, OthersEndKeeps DEF OtherHandler, OtherBodies
<1>7. CASE Tamper
  BY <1>7, TamperKeeps
<1>8. CASE UNCHANGED <<vars, accountVars>>
  BY <1>8, NothingKeeps
<1> QED
  BY <1>1, <1>2, <1>3, <1>4, <1>5, <1>6, <1>7, <1>8 DEF AccountsNext

-----------------------------------------------------------------------------
(* The theorems. *)

THEOREM AccountsInvariant == AccountsSpec => []AInv
BY AStart, AccountsKeep, PTL DEF AccountsSpec

(***************************************************************************)
(* Type correctness of accounts, requests and trail.                       *)
(***************************************************************************)
THEOREM AccountsTypes == AccountsSpec => []AccountsTypeOK
<1>1. AInv => AccountsTypeOK
  BY DEF AInv
<1> QED
  BY <1>1, AccountsInvariant, PTL

(***************************************************************************)
(* UsersMatchTrail (C7): users and their revocations can be read off the   *)
(* trail, for any number of handlers that overlap, block each other, fork  *)
(* the trail or fail.                                                      *)
(***************************************************************************)
THEOREM UsersAreOnTrail == AccountsSpec => []UsersMatchTrail
<1>1. AInv => UsersMatchTrail
  BY DEF AInv
<1> QED
  BY <1>1, AccountsInvariant, PTL

(***************************************************************************)
(* Accounts implements AuditChain: its handlers do nothing to the trail    *)
(* but steps of it, so what AuditProofs shows of the trail - it verifies   *)
(* after serial handlers, damage shows, forks stay - holds here.           *)
(***************************************************************************)
THEOREM AccountsKeepTrail == AccountsSpec => Spec
<1>1. AccountsInit => Init
  BY DEF AccountsInit
<1>2. AInv /\ [AccountsNext]_<<vars, accountVars>> => [Next]_vars
  BY TrailSteps DEF AInv
<1> QED
  BY <1>1, <1>2, AccountsInvariant, PTL DEF AccountsSpec, Spec

-----------------------------------------------------------------------------
(* How far an overlap can stretch a bootstrap or a revocation: counts of    *)
(* events and of requests that may still become one.                        *)

Underway == {w \in Writers : tx[w] # NoOne}

Boots == {w \in Underway : tx[w].kind = "user.bootstrapped"}
BootEvents == {k \in Recorded : rows[k].body.action = "user.bootstrapped"}

ActsFor(u) == {w \in Underway : tx[w].actor = u}
EventsAfter(k, u) == {j \in Recorded : j > k /\ rows[j].body.actor = u}

LocksApart == \A w, x \in Writers : w # x => Locks(w) \cap Locks(x) = {}

OneUnderway == ~raced => \A w, x \in Underway : w = x

BootsCounted ==
    Cardinality(BootEvents) + Cardinality(Boots) <= IF raced THEN Cardinality(Writers) ELSE 1

Bites(u) ==
    \A k \in Revocations(u) :
        Cardinality(EventsAfter(k, u)) + Cardinality(ActsFor(u))
            <= IF raced THEN Cardinality(Writers) - 1 ELSE 0

(* The event of a revocation under way: the lock on the key has kept the    *)
(* user's requests from recording a later one, or the user was revoked      *)
(* before.                                                                  *)
RevocationHolds(w) ==
    IsRevoking(w) => \A k \in OwnedBy(w) :
        IF tx[w].changes
        THEN \A j \in Recorded : j > k => rows[j].body.actor # tx[w].user
        ELSE \E j \in Revocations(tx[w].user) : j < k

CountsHold ==
    /\ BootsCounted
    /\ \A u \in Users : Bites(u)
    /\ \A w \in Writers : RevocationHolds(w)

(* Who bootstraps acts as the user created.                                 *)
OwnBootstrap(w) == tx[w].kind = "user.bootstrapped" => tx[w].user = tx[w].actor

RInv ==
    /\ LocksApart /\ OneUnderway
    /\ \A w \in Underway : OwnBootstrap(w)
    /\ ~damaged => CountsHold

-----------------------------------------------------------------------------
(* Sets of events and of requests. *)

LEMMA EventSets ==
    ASSUME AInv, NEW S \in SUBSET Recorded
    PROVE  IsFiniteSet(S) /\ Cardinality(S) \in Nat
<1>1. nextSeq - 1 \in Int /\ DOMAIN rows \subseteq 1 .. nextSeq - 1
  BY AuditAssumption DEF AInv, IInv, TypeOK
<1>2. IsFiniteSet(1 .. nextSeq - 1)
  BY <1>1, FS_Interval
<1>3. S \subseteq 1 .. nextSeq - 1
  BY <1>1 DEF Recorded, Committed
<1>4. IsFiniteSet(S)
  BY <1>2, <1>3, FS_Subset
<1> QED
  BY <1>4, FS_CardinalityType

LEMMA WriterSets ==
    ASSUME IsFiniteSet(Writers), NEW S \in SUBSET Writers
    PROVE  /\ IsFiniteSet(S) /\ Cardinality(S) \in Nat
           /\ Cardinality(Writers) \in Nat /\ Cardinality(S) <= Cardinality(Writers)
           /\ \A w \in Writers \ S : Cardinality(S) <= Cardinality(Writers) - 1
<1>1. IsFiniteSet(S) /\ Cardinality(S) <= Cardinality(Writers)
  BY FS_Subset
<1>2. Cardinality(S) \in Nat /\ Cardinality(Writers) \in Nat
  BY <1>1, FS_CardinalityType
<1>3. ASSUME NEW w \in Writers \ S PROVE Cardinality(S) <= Cardinality(Writers) - 1
  <2>1. IsFiniteSet(Writers \ {w}) /\ Cardinality(Writers \ {w}) = Cardinality(Writers) - 1
    BY FS_RemoveElement
  <2>2. S \subseteq Writers \ {w}
    BY <1>3
  <2> QED
    BY <2>1, <2>2, FS_Subset
<1> QED
  BY <1>1, <1>2, <1>3

(* A request that becomes an event, or ends, adds nothing to the sum.       *)
LEMMA Sums ==
    ASSUME NEW A, NEW B, IsFiniteSet(A), IsFiniteSet(B), NEW k, NEW w,
           NEW C \in SUBSET (A \cup {k}), NEW D \in SUBSET B,
           C \subseteq A \/ (w \in B /\ w \notin D)
    PROVE  /\ Cardinality(C) \in Nat /\ Cardinality(D) \in Nat
           /\ Cardinality(C) + Cardinality(D) <= Cardinality(A) + Cardinality(B)
<1>1. /\ IsFiniteSet(A \cup {k}) /\ Cardinality(A) \in Nat /\ Cardinality(B) \in Nat
      /\ Cardinality(A \cup {k}) <= Cardinality(A) + 1
  <2>1. IsFiniteSet(A \cup {k})
        /\ Cardinality(A \cup {k}) = IF k \in A THEN Cardinality(A) ELSE Cardinality(A) + 1
    BY FS_AddElement
  <2>2. Cardinality(A) \in Nat /\ Cardinality(B) \in Nat
    BY FS_CardinalityType
  <2> QED
    BY <2>1, <2>2
<1>2. IsFiniteSet(C) /\ Cardinality(C) <= Cardinality(A \cup {k})
  BY <1>1, FS_Subset
<1>3. IsFiniteSet(D) /\ Cardinality(D) <= Cardinality(B)
  BY FS_Subset
<1>4. Cardinality(C) \in Nat /\ Cardinality(D) \in Nat /\ Cardinality(A \cup {k}) \in Nat
  BY <1>1, <1>2, <1>3, FS_CardinalityType
<1>5. CASE C \subseteq A
  <2>1. Cardinality(C) <= Cardinality(A)
    BY <1>5, FS_Subset
  <2> QED
    BY <1>1, <1>3, <1>4, <2>1
<1>6. CASE w \in B /\ w \notin D
  <2>1. IsFiniteSet(B \ {w}) /\ Cardinality(B \ {w}) = Cardinality(B) - 1
    BY <1>6, FS_RemoveElement
  <2>2. D \subseteq B \ {w}
    BY <1>6
  <2>3. Cardinality(D) <= Cardinality(B) - 1
    BY <2>1, <2>2, FS_Subset
  <2> QED
    BY <1>1, <1>2, <1>4, <2>3
<1> QED
  BY <1>5, <1>6

LEMMA Fewer ==
    ASSUME NEW A, NEW B, IsFiniteSet(A), IsFiniteSet(B), NEW D \in SUBSET B
    PROVE  /\ Cardinality(A) \in Nat /\ Cardinality(D) \in Nat
           /\ Cardinality(A) + Cardinality(D) <= Cardinality(A) + Cardinality(B)
<1>1. IsFiniteSet(D) /\ Cardinality(D) <= Cardinality(B)
  BY FS_Subset
<1>2. Cardinality(A) \in Nat /\ Cardinality(B) \in Nat /\ Cardinality(D) \in Nat
  BY <1>1, FS_CardinalityType
<1> QED
  BY <1>1, <1>2

-----------------------------------------------------------------------------
(* Locks. *)

LEMMA NoLocks == ASSUME NEW w, tx[w] = NoOne PROVE Locks(w) = {}
BY DEF Locks

LEMMA LocksStep ==
    ASSUME LocksApart, NEW w \in Writers,
           \A x \in Writers \ {w} :
              /\ tx'[x] = tx[x] /\ OwnedBy(x)' = OwnedBy(x) /\ seen'[x] = seen[x]
              /\ Locks(x) \cap Locks(w)' = {}
    PROVE  LocksApart'
<1>1. ASSUME NEW x \in Writers \ {w} PROVE Locks(x)' = Locks(x)
  <2>1. tx'[x] = tx[x] /\ (Open(x)' <=> Open(x))
    BY DEF Open
  <2> QED
    BY <2>1 DEF Locks
<1> QED
  BY <1>1 DEF LocksApart

(* A request that writes on behalf of u holds u's key; so does a revocation *)
(* of u, from the SELECT of its record on.                                  *)
LEMMA KeyLocked ==
    ASSUME AInv, NEW w \in Writers
    PROVE  /\ IsWriting(w) /\ tx[w].kind # "user.bootstrapped" =>
                <<"key", tx[w].actor>> \in Locks(w)
           /\ IsRevoking(w) /\ tx[w].changes /\ Open(w) => <<"key", tx[w].user>> \in Locks(w)
<1>1. tx[w] \in Requests \cup {NoOne}
  BY DEF AInv, AccountsTypeOK
<1>2. ASSUME tx[w] # NoOne, tx[w].kind = "user.created"
      PROVE  <<"key", tx[w].actor>> \in Locks(w)
  BY <1>2 DEF Locks
<1>3. ASSUME tx[w] # NoOne, tx[w].kind = "user.revoked"
      PROVE  <<"key", tx[w].actor>> \in Locks(w)
             /\ (tx[w].changes /\ Open(w) => <<"key", tx[w].user>> \in Locks(w))
  BY <1>3 DEF Locks
<1>4. IsWriting(w) /\ tx[w].kind # "user.bootstrapped" =>
        tx[w] # NoOne /\ (tx[w].kind = "user.created" \/ tx[w].kind = "user.revoked")
  BY <1>1 DEF IsWriting, Requests
<1> QED
  BY <1>2, <1>3, <1>4 DEF IsRevoking

-----------------------------------------------------------------------------
(* Every step keeps the invariant. *)

LEMMA RStart == ASSUME IsFiniteSet(Writers), AccountsInit PROVE RInv
<1>1. (\A w \in Writers : tx[w] = NoOne) /\ DOMAIN rows = {} /\ raced = FALSE
  BY DEF AccountsInit, Init
<1>2. Recorded = {} /\ Underway = {} /\ \A w : OwnedBy(w) = {}
  BY <1>1 DEF Recorded, Committed, Underway, OwnedBy
<1>3. BootEvents = {} /\ Boots = {} /\ \A u : Revocations(u) = {}
  BY <1>2 DEF BootEvents, Boots, Revocations
<1>4. LocksApart
  BY <1>1, NoLocks DEF LocksApart
<1>5. BootsCounted
  BY <1>1, <1>3, FS_EmptySet DEF BootsCounted
<1> QED
  BY <1>2, <1>3, <1>4, <1>5 DEF RInv, OneUnderway, CountsHold, Bites, RevocationHolds

(* What is said of the trail stays while the events stay. *)
LEMMA SameEvents ==
    ASSUME Recorded' = Recorded, \A k \in Recorded : rows'[k].body = rows[k].body
    PROVE  /\ BootEvents' = BootEvents
           /\ \A u : Revocations(u)' = Revocations(u)
           /\ \A k, u : EventsAfter(k, u)' = EventsAfter(k, u)
BY DEF BootEvents, Revocations, EventsAfter

LEMMA SameHolds ==
    ASSUME NEW x \in Writers, RevocationHolds(x), tx'[x] = tx[x], OwnedBy(x)' = OwnedBy(x),
           Recorded' = Recorded, \A k \in Recorded : rows'[k].body = rows[k].body
    PROVE  RevocationHolds(x)'
<1>1. \A u : Revocations(u)' = Revocations(u)
  BY SameEvents
<1> QED
  BY <1>1 DEF RevocationHolds, IsRevoking

(* A request is taken up, or goes on to write. *)
LEMMA ServeCounts ==
    ASSUME IsFiniteSet(Writers), AInv, RInv,
           NEW w \in Writers, NEW request \in Requests, Serve(w, request), ~Open(w),
           \A x \in Writers \ {w} : Locks(x) \cap Locks(w)' = {},
           request.kind = "user.bootstrapped" => Existing = {} /\ request.user = request.actor,
           \/ tx[w] # NoOne /\ tx[w].actor = request.actor
           \/ ~damaged => Revocations(request.actor) = {}
    PROVE  RInv'
<1>1. /\ tx' = [tx EXCEPT ![w] = request]
      /\ raced' = (raced \/ \E x \in Writers \ {w} : tx[x] # NoOne)
      /\ UNCHANGED <<rows, nextSeq, seen, overlapped, damaged, account>>
  BY DEF Serve, vars
<1>2. DOMAIN tx = Writers /\ request # NoOne
  BY AccountsAssumption DEF AInv, AccountsTypeOK
<1>3. tx'[w] = request /\ \A x \in Writers \ {w} : tx'[x] = tx[x]
  BY <1>1, <1>2
<1>4. /\ Recorded' = Recorded /\ \A k \in Recorded : rows'[k].body = rows[k].body
      /\ \A x : OwnedBy(x)' = OwnedBy(x)
  BY <1>1 DEF Recorded, Committed, OwnedBy
<1>5. LocksApart'
  BY <1>1, <1>3, <1>4, LocksStep DEF RInv
<1>6. OneUnderway'
  <2> SUFFICES ASSUME ~raced' PROVE \A x, y \in Underway' : x = y
    BY DEF OneUnderway
  <2>1. \A x \in Writers \ {w} : tx[x] = NoOne
    BY <1>1
  <2> QED
    BY <1>3, <2>1 DEF Underway
<1>7. Underway' = Underway \cup {w}
  BY <1>2, <1>3 DEF Underway
<1>8. /\ BootEvents' = BootEvents
      /\ \A u : Revocations(u)' = Revocations(u)
      /\ \A k, u : EventsAfter(k, u)' = EventsAfter(k, u)
  BY <1>4, SameEvents
<1>9. ~raced' => ~raced /\ Underway' = {w}
  BY <1>1, <1>2, <1>3 DEF Underway
<1>10. ASSUME ~damaged PROVE BootsCounted'
  <2>1. BootsCounted
    BY <1>10 DEF RInv, CountsHold
  <2>2. Boots' \subseteq Writers
    BY DEF Boots, Underway
  <2>3. CASE request.kind = "user.bootstrapped"
    <3>1. BootEvents = {}
      <4>1. ASSUME NEW k \in BootEvents PROVE FALSE
        <5>1. k \in Recorded /\ rows[k].body.action = "user.bootstrapped"
          BY DEF BootEvents
        <5>2. rows[k].body.user \in Users
          BY <5>1 DEF Recorded, AccountEvents
        <5>3. k \in Creations(rows[k].body.user)
          BY <5>1 DEF Creations
        <5> QED
          BY <1>10, <2>3, <5>2, <5>3 DEF AInv, UsersMatchTrail
      <4> QED
        BY <4>1
    <3>2. Cardinality(BootEvents') = 0
      BY <1>8, <3>1, FS_EmptySet
    <3>3. raced' => Cardinality(Boots') <= Cardinality(Writers)
      BY <2>2, WriterSets
    <3>4. ~raced' => Cardinality(Boots') <= 1
      <4>1. SUFFICES ASSUME ~raced' PROVE Boots' \subseteq {w}
        <5>1. IsFiniteSet({w}) /\ Cardinality({w}) = 1
          BY FS_Singleton
        <5> QED
          BY <4>1, <5>1, FS_Subset
      <4> QED
        BY <1>9, <4>1 DEF Boots
    <3>5. Cardinality(Boots') \in Nat
      BY <2>2, WriterSets
    <3> QED
      BY <3>2, <3>3, <3>4, <3>5 DEF BootsCounted
  <2>4. CASE request.kind # "user.bootstrapped"
    <3>1. Boots' \subseteq Boots
      BY <1>3, <1>7, <2>4 DEF Boots, Underway
    <3>2. Boots \subseteq Writers
      BY DEF Boots, Underway
    <3>3. IsFiniteSet(Boots) /\ Cardinality(Boots') <= Cardinality(Boots)
      BY <3>1, <3>2, WriterSets, FS_Subset
    <3>4. /\ Cardinality(Boots) \in Nat /\ Cardinality(Boots') \in Nat
          /\ Cardinality(BootEvents) \in Nat /\ Cardinality(Writers) \in Nat
      BY <2>2, <3>2, WriterSets, EventSets DEF BootEvents
    <3>5. Cardinality(Writers) >= 1
      <4>1. IsFiniteSet({w}) /\ Cardinality({w}) = 1 /\ {w} \subseteq Writers
        BY FS_Singleton
      <4> QED
        BY <4>1, WriterSets
    <3>6. raced => raced'
      BY <1>1
    <3> QED
      BY <1>8, <2>1, <3>3, <3>4, <3>5, <3>6 DEF BootsCounted
  <2> QED
    BY <2>3, <2>4
<1>11. ASSUME ~damaged, NEW u \in Users PROVE Bites(u)'
  <2> SUFFICES ASSUME NEW k \in Revocations(u)
               PROVE  Cardinality(EventsAfter(k, u)') + Cardinality(ActsFor(u)')
                        <= IF raced' THEN Cardinality(Writers) - 1 ELSE 0
    BY <1>8 DEF Bites
  <2>1. Cardinality(EventsAfter(k, u)) + Cardinality(ActsFor(u))
          <= IF raced THEN Cardinality(Writers) - 1 ELSE 0
    BY <1>11 DEF RInv, CountsHold, Bites
  <2>2. ActsFor(u)' \subseteq ActsFor(u)
    <3>1. request.actor = u => w \in ActsFor(u)
      BY <1>11 DEF ActsFor, Underway
    <3> QED
      BY <1>3, <1>7, <3>1 DEF ActsFor, Underway
  <2>3. ActsFor(u) \subseteq Writers /\ ActsFor(u)' \subseteq Writers
    BY DEF ActsFor, Underway
  <2>4. IsFiniteSet(ActsFor(u)) /\ Cardinality(ActsFor(u)') <= Cardinality(ActsFor(u))
    BY <2>2, <2>3, WriterSets, FS_Subset
  <2>5. EventsAfter(k, u) \subseteq Recorded
    BY DEF EventsAfter
  <2>6. /\ Cardinality(ActsFor(u)) \in Nat /\ Cardinality(ActsFor(u)') \in Nat
        /\ Cardinality(EventsAfter(k, u)) \in Nat /\ Cardinality(Writers) \in Nat
    BY <2>3, <2>5, WriterSets, EventSets
  <2>7. Cardinality(Writers) >= 1
    <3>1. IsFiniteSet({w}) /\ Cardinality({w}) = 1 /\ {w} \subseteq Writers
      BY FS_Singleton
    <3> QED
      BY <3>1, WriterSets
  <2>8. raced => raced'
    BY <1>1
  <2> QED
    BY <1>8, <2>1, <2>4, <2>6, <2>7, <2>8
<1>12. ASSUME ~damaged, NEW x \in Writers PROVE RevocationHolds(x)'
  <2>1. CASE x = w
    BY <1>4, <2>1 DEF RevocationHolds, Open
  <2>2. CASE x # w
    BY <1>3, <1>4, <1>12, <2>2, SameHolds DEF RInv, CountsHold
  <2> QED
    BY <2>1, <2>2
<1>13. \A x \in Underway' : OwnBootstrap(x)'
  BY <1>3, <1>7 DEF RInv, OwnBootstrap, Underway
<1> QED
  BY <1>1, <1>5, <1>6, <1>10, <1>11, <1>12, <1>13 DEF RInv, CountsHold

(* A step of the trail that commits none of these events. *)
LEMMA TrailCounts ==
    ASSUME RInv, NEW w \in Writers, UNCHANGED accountVars, UNCHANGED damaged,
           Recorded' = Recorded, \A k \in Recorded : rows'[k].body = rows[k].body,
           \A x \in Writers \ {w} :
              /\ OwnedBy(x)' = OwnedBy(x) /\ seen'[x] = seen[x]
              /\ Locks(x) \cap Locks(w)' = {},
           ~damaged => RevocationHolds(w)'
    PROVE  RInv'
<1>1. UNCHANGED <<account, tx, raced, damaged>>
  BY DEF accountVars
<1>2. LocksApart'
  BY <1>1, LocksStep DEF RInv
<1>3. Underway' = Underway
  BY <1>1 DEF Underway
<1>4. OneUnderway'
  BY <1>1, <1>3 DEF RInv, OneUnderway
<1>5. Boots' = Boots /\ \A u : ActsFor(u)' = ActsFor(u)
  BY <1>1, <1>3 DEF Boots, ActsFor
<1>6. /\ BootEvents' = BootEvents
      /\ \A u : Revocations(u)' = Revocations(u)
      /\ \A k, u : EventsAfter(k, u)' = EventsAfter(k, u)
  BY SameEvents
<1>7. ASSUME ~damaged PROVE BootsCounted' /\ \A u \in Users : Bites(u)'
  BY <1>1, <1>5, <1>6, <1>7 DEF RInv, CountsHold, BootsCounted, Bites
<1>8. ASSUME ~damaged, NEW x \in Writers, x # w PROVE RevocationHolds(x)'
  BY <1>1, <1>8, SameHolds DEF RInv, CountsHold
<1>9. \A x \in Underway' : OwnBootstrap(x)'
  BY <1>1, <1>3 DEF RInv, OwnBootstrap
<1> QED
  BY <1>1, <1>2, <1>4, <1>7, <1>8, <1>9 DEF RInv, CountsHold

(* The SELECT of a record: a revocation now locks the key it takes away.    *)
LEMMA ReadsCount ==
    ASSUME AInv, RInv, NEW w \in Writers, ReadLast(w), UNCHANGED accountVars,
           \/ tx[w] = NoOne
           \/ /\ IsWriting(w) /\ OwnedBy(w) = {}
              /\ tx[w].kind = "user.revoked" /\ tx[w].changes => Free(w, {<<"key", tx[w].user>>})
    PROVE  RInv'
<1>1. UNCHANGED <<rows, damaged, account, tx>>
  BY DEF ReadLast, accountVars
<1>2. /\ Recorded' = Recorded /\ \A k \in Recorded : rows'[k].body = rows[k].body
      /\ \A x : OwnedBy(x)' = OwnedBy(x)
      /\ \A u : Revocations(u)' = Revocations(u)
  BY <1>1 DEF Recorded, Committed, OwnedBy, Revocations
<1>3. \A x \in Writers \ {w} : seen'[x] = seen[x]
  BY DEF ReadLast, AInv, AccountsTypeOK, TypeOK
<1>4. ASSUME NEW x \in Writers \ {w} PROVE Locks(x) \cap Locks(w)' = {}
  <2>1. CASE tx[w] = NoOne
    <3>1. Locks(w)' = {}
      BY <1>1, <2>1 DEF Locks
    <3> QED
      BY <3>1
  <2>2. CASE tx[w] # NoOne /\ tx[w].kind = "user.revoked" /\ tx[w].changes
    <3>1. Locks(w)' \subseteq Locks(w) \cup {<<"key", tx[w].user>>}
      BY <1>1, <2>2 DEF Locks
    <3>2. Locks(x) \cap {<<"key", tx[w].user>>} = {}
      BY <2>2 DEF Free
    <3>3. Locks(x) \cap Locks(w) = {}
      BY DEF RInv, LocksApart
    <3> QED
      BY <3>1, <3>2, <3>3
  <2>3. CASE tx[w] # NoOne /\ ~(tx[w].kind = "user.revoked" /\ tx[w].changes)
    <3>1. Locks(w)' = Locks(w)
      BY <1>1, <2>3 DEF Locks
    <3> QED
      BY <3>1 DEF RInv, LocksApart
  <2> QED
    BY <2>1, <2>2, <2>3
<1>5. ~damaged => RevocationHolds(w)'
  BY <1>1, <1>2, SameHolds DEF RInv, CountsHold
<1> QED
  BY <1>1, <1>2, <1>3, <1>4, <1>5, TrailCounts

(* The INSERT: the event has the highest number so far. *)
LEMMA InsertsCount ==
    ASSUME AInv, RInv, NEW w \in Writers, NEW body, Insert(w, body), UNCHANGED accountVars
    PROVE  RInv'
<1>1. UNCHANGED <<account, tx, raced, damaged>> /\ TypeOK /\ seen[w] # NoOne
  BY DEF Insert, accountVars, AInv, IInv
<1>2. PICK n : n = nextSeq
  OBVIOUS
<1>3. /\ Committed' = Committed /\ seen'[w] = NoOne
      /\ OwnedBy(w)' = OwnedBy(w) \cup {n}
      /\ \A k \in DOMAIN rows : rows'[k].body = rows[k].body
      /\ \A x \in Writers \ {w} : OwnedBy(x)' = OwnedBy(x) /\ seen'[x] = seen[x]
  BY <1>1, <1>2, TrailInsert
<1>4. /\ \A k \in Committed : rows'[k].body = rows[k].body /\ k < n
      /\ Committed \in SUBSET Nat /\ n \in Nat
  BY <1>1, <1>2, <1>3, RowNumbers
<1>5. Recorded' = Recorded /\ \A k \in Recorded : rows'[k].body = rows[k].body
  BY <1>3, <1>4 DEF Recorded
<1>6. Open(w) /\ Open(w)'
  BY <1>1, <1>3 DEF Open
<1>7. Locks(w)' = Locks(w)
  BY <1>1, <1>6 DEF Locks
<1>8. ASSUME ~damaged PROVE RevocationHolds(w)'
  <2> SUFFICES ASSUME IsRevoking(w), NEW k \in OwnedBy(w)'
               PROVE  IF tx[w].changes
                      THEN \A j \in Recorded : j > k => rows[j].body.actor # tx[w].user
                      ELSE \E j \in Revocations(tx[w].user) : j < k
    <3>1. \A u : Revocations(u)' = Revocations(u)
      BY <1>5, SameEvents
    <3> QED
      BY <1>1, <1>5, <3>1 DEF RevocationHolds, IsRevoking
  <2>1. CASE k \in OwnedBy(w)
    BY <1>8, <2>1 DEF RInv, CountsHold, RevocationHolds
  <2>2. CASE k = n
    <3>1. \A j \in Recorded : j < n /\ j \in Nat
      BY <1>4 DEF Recorded
    <3>2. ASSUME ~tx[w].changes PROVE \E j \in Revocations(tx[w].user) : j < n
      <4>1. PICK u : u = tx[w].user
        OBVIOUS
      <4>2. u \in Existing /\ u \in Users /\ account[u].active = FALSE
        BY <3>2, <4>1 DEF AInv, ChecksHold, Existing
      <4>3. Revocations(u) # {}
        BY <1>8, <4>2 DEF AInv, UsersMatchTrail
      <4> QED
        BY <3>1, <4>1, <4>3 DEF Revocations
    <3> QED
      BY <1>4, <2>2, <3>1, <3>2
  <2> QED
    BY <1>3, <2>1, <2>2
<1> QED
  BY <1>1, <1>3, <1>5, <1>7, <1>8, TrailCounts DEF RInv, LocksApart

(* Another handler ends. *)
LEMMA OthersEndCounts ==
    ASSUME AInv, RInv, NEW w \in Writers, tx[w] = NoOne, Commit(w) \/ Rollback(w),
           UNCHANGED accountVars
    PROVE  RInv'
<1>1. UNCHANGED <<account, tx, raced>> /\ TypeOK
  BY DEF accountVars, AInv, IInv
<1>2. /\ UNCHANGED damaged /\ Committed \subseteq Committed'
      /\ Committed' \subseteq Committed \cup OwnedBy(w)
      /\ \A k \in Committed' : rows'[k].body = rows[k].body
      /\ \A x \in Writers \ {w} : OwnedBy(x)' = OwnedBy(x) /\ seen'[x] = seen[x]
  <2>1. CASE Commit(w)
    <3>1. \A k : k \in Committed \/ k \in OwnedBy(w) => k \in DOMAIN rows
      BY DEF Committed, OwnedBy
    <3> QED
      BY <1>1, <2>1, <3>1, TrailCommit
  <2>2. CASE Rollback(w)
    BY <1>1, <2>2, TrailRollback
  <2> QED
    BY <2>1, <2>2
<1>3. \A k \in Committed' \ Committed : rows'[k].body \notin AccountEvents
  BY <1>2 DEF AInv, RecordsItsEvent
<1>4. Recorded' = Recorded /\ \A k \in Recorded : rows'[k].body = rows[k].body
  BY <1>2, <1>3, SameRecorded
<1>5. Locks(w)' = {} /\ RevocationHolds(w)'
  <2>1. Locks(w)' = {}
    BY <1>1 DEF Locks
  <2>2. RevocationHolds(w)'
    BY <1>1 DEF RevocationHolds, IsRevoking
  <2> QED
    BY <2>1, <2>2
<1> QED
  BY <1>2, <1>4, <1>5, TrailCounts

(* A request ends without a commit. *)
LEMMA AbandonCounts ==
    ASSUME IsFiniteSet(Writers), AInv, RInv, NEW w \in Writers, Abandon(w) PROVE RInv'
<1>1. tx' = [tx EXCEPT ![w] = NoOne] /\ UNCHANGED <<account, raced>>
  BY DEF Abandon
<1>2. DOMAIN tx = Writers /\ TypeOK
  BY DEF AInv, AccountsTypeOK
<1>3. tx'[w] = NoOne /\ \A x \in Writers \ {w} : tx'[x] = tx[x]
  BY <1>1, <1>2
<1>4. /\ Committed' = Committed /\ UNCHANGED damaged
      /\ \A k \in Committed : rows'[k].body = rows[k].body
      /\ \A x \in Writers \ {w} : OwnedBy(x)' = OwnedBy(x) /\ seen'[x] = seen[x]
  <2>1. CASE Open(w)
    BY <1>2, <2>1, TrailRollback DEF Abandon
  <2>2. CASE ~Open(w)
    BY <2>2 DEF Abandon, vars, Committed, OwnedBy, Open
  <2> QED
    BY <2>1, <2>2
<1>5. Recorded' = Recorded /\ \A k \in Recorded : rows'[k].body = rows[k].body
  BY <1>4 DEF Recorded
<1>6. Locks(w)' = {} /\ RevocationHolds(w)'
  <2>1. Locks(w)' = {}
    BY <1>3 DEF Locks
  <2>2. RevocationHolds(w)'
    BY <1>3 DEF RevocationHolds, IsRevoking
  <2> QED
    BY <2>1, <2>2
<1>7. LocksApart'
  BY <1>3, <1>4, <1>6, LocksStep DEF RInv
<1>8. Underway' \subseteq Underway
  BY <1>3 DEF Underway
<1>9. OneUnderway'
  BY <1>1, <1>8 DEF RInv, OneUnderway
<1>10. /\ Boots' \subseteq Boots /\ Boots \subseteq Writers
       /\ \A u : ActsFor(u)' \subseteq ActsFor(u) /\ ActsFor(u) \subseteq Writers
  BY <1>3, <1>8 DEF Boots, ActsFor, Underway
<1>11. /\ BootEvents' = BootEvents
       /\ \A u : Revocations(u)' = Revocations(u)
       /\ \A k, u : EventsAfter(k, u)' = EventsAfter(k, u)
  BY <1>5, SameEvents
<1>12. BootEvents \subseteq Recorded /\ \A k, u : EventsAfter(k, u) \subseteq Recorded
  BY DEF BootEvents, EventsAfter
<1>13. ASSUME ~damaged PROVE BootsCounted'
  <2>1. IsFiniteSet(BootEvents) /\ IsFiniteSet(Boots)
    BY <1>10, <1>12, EventSets, WriterSets
  <2>2. /\ Cardinality(Boots') \in Nat /\ Cardinality(BootEvents') \in Nat
        /\ Cardinality(BootEvents') + Cardinality(Boots') <= Cardinality(BootEvents) + Cardinality(Boots)
    <3>1. PICK A, B, D : A = BootEvents /\ B = Boots /\ D = Boots'
      OBVIOUS
    <3> QED
      BY <1>10, <1>11, <2>1, <3>1, Fewer
  <2>3. /\ Cardinality(Boots) \in Nat /\ Cardinality(BootEvents) \in Nat
        /\ Cardinality(Writers) \in Nat
    BY <1>10, <1>12, EventSets, WriterSets
  <2> QED
    BY <1>1, <1>13, <2>2, <2>3 DEF RInv, CountsHold, BootsCounted
<1>14. ASSUME ~damaged, NEW u \in Users PROVE Bites(u)'
  <2> SUFFICES ASSUME NEW k \in Revocations(u)
               PROVE  Cardinality(EventsAfter(k, u)') + Cardinality(ActsFor(u)')
                        <= IF raced THEN Cardinality(Writers) - 1 ELSE 0
    BY <1>1, <1>11 DEF Bites
  <2>1. IsFiniteSet(EventsAfter(k, u)) /\ IsFiniteSet(ActsFor(u))
    BY <1>10, <1>12, EventSets, WriterSets
  <2>2. /\ Cardinality(ActsFor(u)') \in Nat /\ Cardinality(EventsAfter(k, u)') \in Nat
        /\ Cardinality(EventsAfter(k, u)') + Cardinality(ActsFor(u)')
             <= Cardinality(EventsAfter(k, u)) + Cardinality(ActsFor(u))
    <3>1. PICK A, B, D : A = EventsAfter(k, u) /\ B = ActsFor(u) /\ D = ActsFor(u)'
      OBVIOUS
    <3> QED
      BY <1>10, <1>11, <2>1, <3>1, Fewer
  <2>3. /\ Cardinality(ActsFor(u)) \in Nat /\ Cardinality(EventsAfter(k, u)) \in Nat
        /\ Cardinality(Writers) \in Nat
    BY <1>10, <1>12, EventSets, WriterSets
  <2> QED
    BY <1>14, <2>2, <2>3 DEF RInv, CountsHold, Bites
<1>15. ASSUME ~damaged, NEW x \in Writers PROVE RevocationHolds(x)'
  BY <1>3, <1>4, <1>5, <1>6, <1>15, SameHolds DEF RInv, CountsHold
<1>16. \A x \in Underway' : OwnBootstrap(x)'
  BY <1>3, <1>8 DEF RInv, OwnBootstrap, Underway
<1> QED
  BY <1>4, <1>7, <1>9, <1>13, <1>14, <1>15, <1>16 DEF RInv, CountsHold

(* The commit: a request becomes the event it has recorded. *)
LEMMA CommitCounts ==
    ASSUME IsFiniteSet(Writers), AInv, RInv, NEW w \in Writers, CommitAccount(w) PROVE RInv'
<1>1. PICK request : request = tx[w]
  OBVIOUS
<1>2. /\ request \in Requests /\ request.kind # "authenticated"
      /\ \E k : /\ OwnedBy(w) = {k} /\ rows[k].body = EventOf(request)
                /\ Recorded' = Recorded \cup {k} /\ k \notin Recorded
                /\ rows'[k].body = rows[k].body
                /\ \A j \in Recorded : rows'[j].body = rows[j].body
  BY <1>1, CommittedEvent
<1>3. PICK n : /\ OwnedBy(w) = {n} /\ rows[n].body = EventOf(request)
               /\ Recorded' = Recorded \cup {n} /\ n \notin Recorded
               /\ rows'[n].body = rows[n].body
               /\ \A j \in Recorded : rows'[j].body = rows[j].body
  BY <1>2
<1>4. PICK event : event = rows[n].body
  OBVIOUS
<1>5. /\ event.action = request.kind /\ event.actor = request.actor
      /\ event.user = request.user /\ rows'[n].body = event
  BY <1>3, <1>4 DEF EventOf
<1>6. /\ UNCHANGED <<damaged, raced, seen>> /\ tx'[w] = NoOne
      /\ \A x \in Writers \ {w} : tx'[x] = tx[x] /\ OwnedBy(x)' = OwnedBy(x)
  <2>1. TypeOK /\ Commit(w) /\ UNCHANGED raced
    BY DEF CommitAccount, AInv, IInv
  <2>2. UNCHANGED <<damaged, seen>> /\ \A x \in Writers \ {w} : OwnedBy(x)' = OwnedBy(x)
    BY <2>1, TrailCommit
  <2>3. tx'[w] = NoOne /\ \A x \in Writers \ {w} : tx'[x] = tx[x]
    BY CommitFrame
  <2> QED
    BY <2>1, <2>2, <2>3
<1>7. Locks(w)' = {} /\ RevocationHolds(w)'
  <2>1. Locks(w)' = {}
    BY <1>6 DEF Locks
  <2>2. RevocationHolds(w)'
    BY <1>6 DEF RevocationHolds, IsRevoking
  <2> QED
    BY <2>1, <2>2
<1>8. LocksApart'
  BY <1>6, <1>7, LocksStep DEF RInv
<1>9. Underway' = Underway \ {w} /\ w \in Underway
  BY <1>6 DEF Underway, CommitAccount, IsWriting
<1>10. OneUnderway'
  BY <1>6, <1>9 DEF RInv, OneUnderway
<1>11. /\ Boots' = Boots \ {w} /\ Boots \subseteq Writers
       /\ \A u : ActsFor(u)' = ActsFor(u) \ {w} /\ ActsFor(u) \subseteq Writers
  BY <1>6, <1>9 DEF Boots, ActsFor, Underway
<1>12. BootEvents \subseteq Recorded /\ \A k, u : EventsAfter(k, u) \subseteq Recorded
  BY DEF BootEvents, EventsAfter
<1>13. ASSUME ~damaged PROVE BootsCounted'
  <2>1. BootEvents' \subseteq BootEvents \cup {n}
    BY <1>3 DEF BootEvents
  <2>2. BootEvents' \subseteq BootEvents \/ (w \in Boots /\ w \notin Boots')
    <3>1. CASE request.kind = "user.bootstrapped"
      BY <1>1, <1>9, <1>11, <3>1 DEF Boots
    <3>2. CASE request.kind # "user.bootstrapped"
      BY <1>3, <1>5, <3>2 DEF BootEvents
    <3> QED
      BY <3>1, <3>2
  <2>3. IsFiniteSet(BootEvents) /\ IsFiniteSet(Boots)
    BY <1>11, <1>12, EventSets, WriterSets
  <2>4. /\ Cardinality(Boots') \in Nat /\ Cardinality(BootEvents') \in Nat
        /\ Cardinality(BootEvents') + Cardinality(Boots') <= Cardinality(BootEvents) + Cardinality(Boots)
    <3>1. PICK A, B, C, D : A = BootEvents /\ B = Boots /\ C = BootEvents' /\ D = Boots'
      OBVIOUS
    <3>2. IsFiniteSet(A) /\ IsFiniteSet(B) /\ C \subseteq A \cup {n} /\ D \subseteq B
          /\ (C \subseteq A \/ (w \in B /\ w \notin D))
      BY <1>11, <2>1, <2>2, <2>3, <3>1
    <3>3. Cardinality(C) \in Nat /\ Cardinality(D) \in Nat
          /\ Cardinality(C) + Cardinality(D) <= Cardinality(A) + Cardinality(B)
      BY <3>2, Sums
    <3> QED
      BY <3>1, <3>3
  <2>5. /\ Cardinality(Boots) \in Nat /\ Cardinality(BootEvents) \in Nat
        /\ Cardinality(Writers) \in Nat
    BY <1>11, <1>12, EventSets, WriterSets
  <2> QED
    BY <1>6, <1>13, <2>4, <2>5 DEF RInv, CountsHold, BootsCounted
<1>14. ASSUME NEW k, NEW u
       PROVE  EventsAfter(k, u)' \subseteq EventsAfter(k, u) \cup
                  (IF n > k /\ event.actor = u THEN {n} ELSE {})
  BY <1>3, <1>4, <1>5 DEF EventsAfter
<1>15. ASSUME ~damaged, NEW u \in Users, NEW k \in Revocations(u)
       PROVE  /\ Cardinality(EventsAfter(k, u)') \in Nat /\ Cardinality(ActsFor(u)') \in Nat
              /\ Cardinality(EventsAfter(k, u)') + Cardinality(ActsFor(u)')
                   <= IF raced THEN Cardinality(Writers) - 1 ELSE 0
  <2>1. EventsAfter(k, u)' \subseteq EventsAfter(k, u) \cup {n}
    BY <1>14
  <2>2. EventsAfter(k, u)' \subseteq EventsAfter(k, u) \/ (w \in ActsFor(u) /\ w \notin ActsFor(u)')
    <3>1. CASE event.actor = u
      BY <1>1, <1>5, <1>9, <1>11, <3>1 DEF ActsFor
    <3>2. CASE event.actor # u
      BY <1>14, <3>2
    <3> QED
      BY <3>1, <3>2
  <2>3. IsFiniteSet(EventsAfter(k, u)) /\ IsFiniteSet(ActsFor(u))
    BY <1>11, <1>12, EventSets, WriterSets
  <2>4. /\ Cardinality(ActsFor(u)') \in Nat /\ Cardinality(EventsAfter(k, u)') \in Nat
        /\ Cardinality(EventsAfter(k, u)') + Cardinality(ActsFor(u)')
             <= Cardinality(EventsAfter(k, u)) + Cardinality(ActsFor(u))
    <3>1. PICK A, B, C, D : /\ A = EventsAfter(k, u) /\ B = ActsFor(u)
                            /\ C = EventsAfter(k, u)' /\ D = ActsFor(u)'
      OBVIOUS
    <3>2. IsFiniteSet(A) /\ IsFiniteSet(B) /\ C \subseteq A \cup {n} /\ D \subseteq B
          /\ (C \subseteq A \/ (w \in B /\ w \notin D))
      BY <1>11, <2>1, <2>2, <2>3, <3>1
    <3>3. Cardinality(C) \in Nat /\ Cardinality(D) \in Nat
          /\ Cardinality(C) + Cardinality(D) <= Cardinality(A) + Cardinality(B)
      BY <3>2, Sums
    <3> QED
      BY <3>1, <3>3
  <2>5. /\ Cardinality(ActsFor(u)) \in Nat /\ Cardinality(EventsAfter(k, u)) \in Nat
        /\ Cardinality(Writers) \in Nat
    BY <1>11, <1>12, EventSets, WriterSets
  <2> QED
    BY <1>15, <2>4, <2>5 DEF RInv, CountsHold, Bites
<1>16. /\ \A j \in Recorded : j \in Nat
       /\ n \in Nat
  BY <1>3, RowNumbers DEF AInv, IInv, Recorded, OwnedBy
<1>17. ASSUME ~damaged, NEW u \in Users, request.kind = "user.revoked", request.user = u
       PROVE  /\ Cardinality(EventsAfter(n, u)') + Cardinality(ActsFor(u)')
                   <= IF raced THEN Cardinality(Writers) - 1 ELSE 0
  <2>1. RevocationHolds(w) /\ IsRevoking(w)
    BY <1>1, <1>17 DEF RInv, CountsHold, CommitAccount, IsWriting, IsRevoking
  <2>2. CASE request.changes
    <3>1. \A j \in Recorded : j > n => rows[j].body.actor # u
      BY <1>1, <1>3, <1>17, <2>1, <2>2 DEF RevocationHolds
    <3>2. EventsAfter(n, u) = {}
      BY <3>1 DEF EventsAfter
    <3>3. EventsAfter(n, u)' = {}
      BY <1>14, <1>16, <3>2
    <3>4. Cardinality(EventsAfter(n, u)') = 0
      BY <3>3, FS_EmptySet
    <3>5. /\ ActsFor(u)' \subseteq Writers /\ w \notin ActsFor(u)'
          /\ Cardinality(ActsFor(u)') \in Nat
          /\ Cardinality(ActsFor(u)') <= Cardinality(Writers) - 1
      BY <1>11, WriterSets
    <3>6. ~raced => Cardinality(ActsFor(u)') = 0
      <4>1. ~raced => ActsFor(u)' = {}
        BY <1>9, <1>11 DEF RInv, OneUnderway, ActsFor
      <4> QED
        BY <4>1, FS_EmptySet
    <3> QED
      BY <3>4, <3>5, <3>6
  <2>3. CASE ~request.changes
    <3>1. PICK k \in Revocations(u) : k < n
      BY <1>1, <1>3, <1>17, <2>1, <2>3 DEF RevocationHolds
    <3>2. k \in Recorded /\ k \in Nat
      BY <1>16 DEF Revocations
    <3>3. EventsAfter(n, u)' \subseteq EventsAfter(k, u)'
      <4>1. \A j \in Recorded \cup {n} : j > n => j > k
        BY <1>16, <3>1, <3>2
      <4> QED
        BY <1>3, <4>1 DEF EventsAfter
    <3>4. /\ Cardinality(EventsAfter(k, u)') \in Nat /\ Cardinality(ActsFor(u)') \in Nat
          /\ Cardinality(EventsAfter(k, u)') + Cardinality(ActsFor(u)')
               <= IF raced THEN Cardinality(Writers) - 1 ELSE 0
      BY <1>15, <1>17
    <3>5. /\ Cardinality(EventsAfter(n, u)') \in Nat
          /\ Cardinality(EventsAfter(n, u)') <= Cardinality(EventsAfter(k, u)')
      <4>1. IsFiniteSet(EventsAfter(k, u)')
        <5>1. EventsAfter(k, u)' \subseteq EventsAfter(k, u) \cup {n}
          BY <1>14
        <5>2. IsFiniteSet(EventsAfter(k, u) \cup {n})
          BY <1>12, EventSets, FS_AddElement
        <5> QED
          BY <5>1, <5>2, FS_Subset
      <4>2. /\ IsFiniteSet(EventsAfter(n, u)')
            /\ Cardinality(EventsAfter(n, u)') <= Cardinality(EventsAfter(k, u)')
        BY <3>3, <4>1, FS_Subset
      <4> QED
        BY <4>2, FS_CardinalityType
    <3>6. Cardinality(Writers) \in Nat
      BY WriterSets
    <3> QED
      BY <3>4, <3>5, <3>6
  <2> QED
    BY <2>2, <2>3
<1>18. ASSUME ~damaged, NEW u \in Users PROVE Bites(u)'
  <2>1. ASSUME NEW k \in Revocations(u)'
        PROVE  k \in Revocations(u) \/ (k = n /\ request.kind = "user.revoked" /\ request.user = u)
    BY <1>3, <1>5, <2>1 DEF Revocations
  <2>2. ASSUME NEW k \in Revocations(u)'
        PROVE  Cardinality(EventsAfter(k, u)') + Cardinality(ActsFor(u)')
                 <= IF raced THEN Cardinality(Writers) - 1 ELSE 0
    BY <1>15, <1>17, <1>18, <2>1, <2>2
  <2> QED
    BY <1>6, <2>2 DEF Bites
<1>19. ASSUME ~damaged, NEW x \in Writers, x # w PROVE RevocationHolds(x)'
  <2> SUFFICES ASSUME IsRevoking(x), NEW k \in OwnedBy(x)
               PROVE  IF tx[x].changes
                      THEN \A j \in Recorded' : j > k => rows'[j].body.actor # tx[x].user
                      ELSE \E j \in Revocations(tx[x].user)' : j < k
    BY <1>6, <1>19 DEF RevocationHolds, IsRevoking
  <2>1. RevocationHolds(x)
    BY <1>19 DEF RInv, CountsHold
  <2>2. CASE tx[x].changes
    <3>1. event.actor # tx[x].user
      <4>1. SUFFICES ASSUME request.actor = tx[x].user PROVE FALSE
        BY <1>5
      <4>2. IsRevoking(x) /\ tx[x].changes /\ Open(x)
        BY <2>2 DEF Open
      <4>3. <<"key", tx[x].user>> \in Locks(x)
        BY <4>2, KeyLocked
      <4>4. CASE request.kind # "user.bootstrapped"
        <5>1. IsWriting(w)
          BY DEF CommitAccount
        <5>2. <<"key", tx[w].actor>> \in Locks(w)
          BY <1>1, <4>4, <5>1, KeyLocked
        <5> QED
          BY <1>1, <1>19, <4>1, <4>3, <5>2 DEF RInv, LocksApart
      <4>5. CASE request.kind = "user.bootstrapped"
        <5>1. IsCreating(w) /\ tx[w].user = request.user
          BY <1>1, <4>5 DEF CommitAccount, IsWriting, IsCreating
        <5>2. account[request.user] = NoAccount
          BY <5>1 DEF AInv, ChecksHold
        <5>3. request.user = request.actor
          BY <1>1, <1>9, <4>5 DEF RInv, OwnBootstrap
        <5>4. tx[x].user \in Existing
          BY DEF AInv, ChecksHold
        <5> QED
          BY <4>1, <5>2, <5>3, <5>4 DEF Existing
      <4> QED
        BY <4>4, <4>5
    <3>2. \A j \in Recorded : j > k => rows[j].body.actor # tx[x].user
      BY <2>1, <2>2 DEF RevocationHolds
    <3> QED
      BY <1>3, <1>5, <2>2, <3>1, <3>2
  <2>3. CASE ~tx[x].changes
    <3>1. \E j \in Revocations(tx[x].user) : j < k
      BY <2>1, <2>3 DEF RevocationHolds
    <3>2. Revocations(tx[x].user) \subseteq Revocations(tx[x].user)'
      <4>1. PICK u : u = tx[x].user
        OBVIOUS
      <4>2. Revocations(u) \subseteq Revocations(u)'
        BY <1>3 DEF Revocations
      <4> QED
        BY <1>6, <1>19, <4>1, <4>2
    <3> QED
      BY <2>3, <3>1, <3>2
  <2> QED
    BY <2>2, <2>3
<1>20. \A x \in Underway' : OwnBootstrap(x)'
  BY <1>6, <1>9 DEF RInv, OwnBootstrap, Underway
<1> QED
  BY <1>6, <1>7, <1>8, <1>10, <1>13, <1>18, <1>19, <1>20 DEF RInv, CountsHold

-----------------------------------------------------------------------------
(* The handlers up to their audit.record. *)

LEMMA FreeApart ==
    ASSUME NEW w \in Writers, NEW rs, Free(w, rs), Locks(w)' \subseteq rs
    PROVE  \A x \in Writers \ {w} : Locks(x) \cap Locks(w)' = {}
BY DEF Free

LEMMA BootstrapCounts ==
    ASSUME IsFiniteSet(Writers), AInv, RInv, NEW w \in Writers, NEW u \in Users, Bootstrap(w, u)
    PROVE  RInv'
<1>1. PICK request : request = [kind |-> "user.bootstrapped", actor |-> u, user |-> u,
                                role |-> "admin", changes |-> TRUE]
  OBVIOUS
<1>2. request \in Requests /\ Serve(w, request) /\ ~Open(w) /\ Existing = {}
  BY <1>1 DEF Requests, Roles, Bootstrap, NoUsers
<1>3. tx'[w] = request
  BY <1>2 DEF Serve, AInv, AccountsTypeOK
<1>4. Locks(w)' \subseteq {<<"email", u>>}
  BY <1>1, <1>3 DEF Locks
<1>5. \A x \in Writers \ {w} : Locks(x) \cap Locks(w)' = {}
  BY <1>4, FreeApart DEF Bootstrap
<1>6. ~damaged => Revocations(request.actor) = {}
  BY <1>1, <1>2 DEF AInv, RevokedExist
<1>7. request.user = request.actor
  BY <1>1
<1> QED
  BY <1>2, <1>5, <1>6, <1>7, ServeCounts

LEMMA AuthenticateCounts ==
    ASSUME IsFiniteSet(Writers), AInv, RInv, NEW w \in Writers, NEW u \in Users, Authenticate(w, u)
    PROVE  RInv'
<1>1. PICK request : request = [kind |-> "authenticated", actor |-> u, user |-> u,
                                role |-> NoOne, changes |-> FALSE]
  OBVIOUS
<1>2. request \in Requests /\ Serve(w, request) /\ ~Open(w)
  BY <1>1 DEF Requests, Authenticate
<1>3. tx'[w] = request
  BY <1>2 DEF Serve, AInv, AccountsTypeOK
<1>4. Locks(w)' = {}
  BY <1>1, <1>3 DEF Locks
<1>5. ~damaged => Revocations(u) = {}
  BY DEF Authenticate, Resolves, AInv, UsersMatchTrail, RevokedExist
<1>6. ~damaged => Revocations(request.actor) = {}
  BY <1>1, <1>5
<1>7. request.kind # "user.bootstrapped"
  BY <1>1
<1> QED
  BY <1>2, <1>4, <1>6, <1>7, ServeCounts

LEMMA CreateUserCounts ==
    ASSUME IsFiniteSet(Writers), AInv, RInv, NEW w \in Writers, NEW u \in Users,
           NEW role \in Roles, CreateUser(w, u, role)
    PROVE  RInv'
<1>1. PICK a, request : /\ a = tx[w].actor
                        /\ request = [kind |-> "user.created", actor |-> a, user |-> u,
                                      role |-> role, changes |-> TRUE]
  OBVIOUS
<1>2. tx[w] \in Requests /\ tx[w] # NoOne /\ ~Open(w)
  BY DEF AInv, AccountsTypeOK, CreateUser, IsAuthenticated, RecordsItsEvent
<1>3. request \in Requests /\ Serve(w, request)
  BY <1>1, <1>2 DEF Requests, CreateUser
<1>4. tx'[w] = request
  BY <1>3 DEF Serve, AInv, AccountsTypeOK
<1>5. Locks(w)' \subseteq {<<"key", a>>, <<"email", u>>}
  BY <1>1, <1>4 DEF Locks
<1>6. \A x \in Writers \ {w} : Locks(x) \cap Locks(w)' = {}
  BY <1>1, <1>5, FreeApart DEF CreateUser
<1>7. request.kind # "user.bootstrapped" /\ tx[w].actor = request.actor
  BY <1>1
<1> QED
  BY <1>2, <1>3, <1>6, <1>7, ServeCounts

LEMMA RevokeUserCounts ==
    ASSUME IsFiniteSet(Writers), AInv, RInv, NEW w \in Writers, NEW u \in Users, RevokeUser(w, u)
    PROVE  RInv'
<1>1. PICK a, changes, request :
        /\ a = tx[w].actor /\ changes = (account[u].active \/ account[u].keyActive)
        /\ request = [kind |-> "user.revoked", actor |-> a, user |-> u, role |-> NoOne,
                      changes |-> changes]
  OBVIOUS
<1>2. tx[w] \in Requests /\ tx[w] # NoOne /\ ~Open(w)
  BY DEF AInv, AccountsTypeOK, RevokeUser, IsAuthenticated, RecordsItsEvent
<1>3. changes \in BOOLEAN
  BY <1>1 DEF AInv, AccountsTypeOK
<1>4. request \in Requests /\ Serve(w, request)
  BY <1>1, <1>2, <1>3 DEF Requests, RevokeUser
<1>5. tx'[w] = request /\ (Open(w)' <=> Open(w))
  BY <1>4 DEF Serve, AInv, AccountsTypeOK, Open, OwnedBy, vars
<1>6. Locks(w)' \subseteq {<<"key", a>>} \cup IF changes THEN {<<"user", u>>} ELSE {}
  BY <1>1, <1>2, <1>5 DEF Locks
<1>7. \A x \in Writers \ {w} : Locks(x) \cap Locks(w)' = {}
  BY <1>1, <1>6, FreeApart DEF RevokeUser
<1>8. request.kind # "user.bootstrapped" /\ tx[w].actor = request.actor
  BY <1>1
<1> QED
  BY <1>2, <1>4, <1>7, <1>8, ServeCounts

-----------------------------------------------------------------------------
(* All together. *)

(* Nothing is counted in a damaged trail; the requests go on. *)
LEMMA TamperCounts ==
    ASSUME AInv, RInv, Tamper PROVE RInv'
<1>1. UNCHANGED <<account, tx, raced, seen>> /\ damaged' = TRUE
  BY DEF Tamper, Edit, Remove, accountVars
<1>2. \A x \in Writers : OwnedBy(x)' = OwnedBy(x)
  BY AuditAssumption DEF Tamper, Edit, Remove, OwnedBy, Committed, AInv, IInv, TypeOK
<1>3. \A x \in Writers : Locks(x)' = Locks(x)
  <2>1. \A x \in Writers : Open(x)' <=> Open(x)
    BY <1>1, <1>2 DEF Open
  <2> QED
    BY <1>1, <2>1 DEF Locks
<1>4. LocksApart'
  BY <1>3 DEF RInv, LocksApart
<1>5. Underway' = Underway
  BY <1>1 DEF Underway
<1> QED
  BY <1>1, <1>4, <1>5 DEF RInv, OneUnderway, OwnBootstrap

LEMMA NothingCounts ==
    ASSUME AInv, RInv, UNCHANGED <<vars, accountVars>> PROVE RInv'
<1>1. UNCHANGED <<rows, nextSeq, seen, overlapped, damaged, account, tx, raced>>
  BY DEF vars, accountVars
<1>2. /\ Recorded' = Recorded /\ \A k \in Recorded : rows'[k].body = rows[k].body
      /\ \A x : OwnedBy(x)' = OwnedBy(x)
  BY <1>1 DEF Recorded, Committed, OwnedBy
<1>3. \A x \in Writers : Locks(x)' = Locks(x)
  <2>1. \A x \in Writers : Open(x)' <=> Open(x)
    BY <1>1, <1>2 DEF Open
  <2> QED
    BY <1>1, <2>1 DEF Locks
<1>4. LocksApart'
  BY <1>3 DEF RInv, LocksApart
<1>5. /\ Underway' = Underway /\ Boots' = Boots /\ \A u : ActsFor(u)' = ActsFor(u)
  BY <1>1 DEF Underway, Boots, ActsFor
<1>6. /\ BootEvents' = BootEvents
      /\ \A u : Revocations(u)' = Revocations(u)
      /\ \A k, u : EventsAfter(k, u)' = EventsAfter(k, u)
  BY <1>2, SameEvents
<1>7. ASSUME ~damaged PROVE CountsHold'
  <2>1. BootsCounted' /\ \A u \in Users : Bites(u)'
    BY <1>1, <1>5, <1>6, <1>7 DEF RInv, CountsHold, BootsCounted, Bites
  <2>2. \A x \in Writers : RevocationHolds(x)'
    BY <1>1, <1>2, <1>7, SameHolds DEF RInv, CountsHold
  <2> QED
    BY <2>1, <2>2 DEF CountsHold
<1> QED
  BY <1>1, <1>4, <1>5, <1>7 DEF RInv, OneUnderway, OwnBootstrap

LEMMA StepsCount ==
    ASSUME IsFiniteSet(Writers), AInv, RInv, [AccountsNext]_<<vars, accountVars>> PROVE RInv'
<1>1. ASSUME NEW w \in Writers, NEW u \in Users,
             \/ Bootstrap(w, u) \/ Authenticate(w, u) \/ RevokeUser(w, u)
             \/ \E role \in Roles : CreateUser(w, u, role)
      PROVE  RInv'
  BY <1>1, BootstrapCounts, AuthenticateCounts, RevokeUserCounts, CreateUserCounts
<1>2. ASSUME NEW w \in Writers, RecordReads(w) PROVE RInv'
  BY <1>2, ReadsCount DEF RecordReads
<1>3. ASSUME NEW w \in Writers, RecordInserts(w) PROVE RInv'
  <2>1. PICK body : body = EventOf(tx[w])
    OBVIOUS
  <2> QED
    BY <1>3, <2>1, InsertsCount DEF RecordInserts
<1>4. ASSUME NEW w \in Writers, CommitAccount(w) PROVE RInv'
  BY <1>4, CommitCounts
<1>5. ASSUME NEW w \in Writers, Abandon(w) PROVE RInv'
  BY <1>5, AbandonCounts
<1>6. ASSUME NEW w \in Writers, OtherHandler(w) PROVE RInv'
  BY <1>6, ReadsCount, InsertsCount, OthersEndCounts DEF OtherHandler, OtherBodies
<1>7. CASE Tamper
  BY <1>7, TamperCounts
<1>8. CASE UNCHANGED <<vars, accountVars>>
  BY <1>8, NothingCounts
<1> QED
  BY <1>1, <1>2, <1>3, <1>4, <1>5, <1>6, <1>7, <1>8 DEF AccountsNext

(* The invariant of the counts, next to that of the users. *)
THEOREM OverlapsInvariant ==
    ASSUME IsFiniteSet(Writers) PROVE AccountsSpec => [](AInv /\ RInv)
<1>1. AccountsInit => RInv
  BY RStart
<1>2. AInv /\ RInv /\ [AccountsNext]_<<vars, accountVars>> => RInv'
  BY StepsCount
<1> QED
  BY <1>1, <1>2, AccountsInvariant, PTL DEF AccountsSpec

(***************************************************************************)
(* BootstrapOnce: POST /bootstrap succeeds once, also after the last admin *)
(* was revoked; of bootstraps that overlap, as many as are served at once. *)
(***************************************************************************)
THEOREM BootstrapsOnce ==
    ASSUME IsFiniteSet(Writers) PROVE AccountsSpec => []BootstrapOnce
<1>1. AInv /\ RInv => BootstrapOnce
  <2> SUFFICES ASSUME AInv, RInv, ~damaged
               PROVE  Cardinality(BootEvents) <= IF raced THEN Cardinality(Writers) ELSE 1
    BY DEF BootstrapOnce, BootEvents
  <2>1. Boots \subseteq Writers /\ BootEvents \subseteq Recorded
    BY DEF Boots, BootEvents, Underway
  <2>2. Cardinality(Boots) \in Nat /\ Cardinality(BootEvents) \in Nat /\ Cardinality(Writers) \in Nat
    BY <2>1, WriterSets, EventSets
  <2> QED
    BY <2>2 DEF RInv, CountsHold, BootsCounted
<1> QED
  BY <1>1, OverlapsInvariant, PTL

(***************************************************************************)
(* RevocationBites: what a revoked user still does after the revocation is *)
(* bounded by the requests that overlapped it, and nothing without them.   *)
(***************************************************************************)
THEOREM RevocationsBite ==
    ASSUME IsFiniteSet(Writers) PROVE AccountsSpec => []RevocationBites
<1>1. AInv /\ RInv => RevocationBites
  <2> SUFFICES ASSUME AInv, RInv, ~damaged, NEW u \in Users, NEW k \in Revocations(u)
               PROVE  Cardinality(EventsAfter(k, u))
                        <= IF raced THEN Cardinality(Writers) - 1 ELSE 0
    BY DEF RevocationBites, EventsAfter
  <2>1. ActsFor(u) \subseteq Writers /\ EventsAfter(k, u) \subseteq Recorded
    BY DEF ActsFor, EventsAfter, Underway
  <2>2. /\ Cardinality(ActsFor(u)) \in Nat /\ Cardinality(EventsAfter(k, u)) \in Nat
        /\ Cardinality(Writers) \in Nat
    BY <2>1, WriterSets, EventSets
  <2> QED
    BY <2>2 DEF RInv, CountsHold, Bites
<1> QED
  BY <1>1, OverlapsInvariant, PTL
=============================================================================
