------------------------------ MODULE Accounts ------------------------------
(***************************************************************************)
(* Users and their API keys: POST /bootstrap, POST /users and POST         *)
(* /users/{id}/revoke of factory/api/main.py over factory/auth.py.  Every  *)
(* handler is a READ COMMITTED transaction that checks, writes, records an *)
(* event in the trail of AuditChain and commits.  Between the check of the *)
(* key and the first write nothing is locked.                              *)
(*                                                                         *)
(* A user is known by the email address, which is unique, and has the one  *)
(* key issued on creation.  A request authenticated with a key writes its  *)
(* last_used_at, so from the first flush on it holds the key's row.        *)
(* Writers that serve none of these handlers record what AuditChain lets   *)
(* them.                                                                   *)
(***************************************************************************)
EXTENDS AuditChain

CONSTANTS Users         \* email addresses

VARIABLES
    account,    \* users with their keys, as committed
    tx,         \* the request each writer serves
    raced       \* two of these requests were under way at once

accountVars == <<account, tx, raced>>

Roles == {"admin", "other"}     \* what the handlers here tell apart

AccountEvents ==
    [action : {"user.bootstrapped", "user.created", "user.revoked"},
     actor : Users, user : Users, role : Roles \cup {NoOne}]

(* changes: the UPDATEs of a revocation are not empty. *)
Requests ==
    [kind : {"authenticated", "user.bootstrapped", "user.created", "user.revoked"},
     actor : Users, user : Users, role : Roles \cup {NoOne}, changes : BOOLEAN]

ASSUME AccountsAssumption ==
    /\ NoOne \notin Users \cup Roles \cup Requests
    /\ AccountEvents \subseteq Bodies

OtherBodies == Bodies \ AccountEvents

(* A row of users with its row of api_keys; without a role there is none.   *)
NoAccount == [role |-> NoOne, active |-> FALSE, keyActive |-> FALSE]
NewAccount(role) == [role |-> role, active |-> TRUE, keyActive |-> TRUE]

AccountsTypeOK ==
    /\ TypeOK
    /\ account \in [Users -> [role : Roles \cup {NoOne}, active : BOOLEAN, keyActive : BOOLEAN]]
    /\ tx \in [Writers -> Requests \cup {NoOne}]
    /\ raced \in BOOLEAN

AccountsInit ==
    /\ Init
    /\ account = [u \in Users |-> NoAccount]
    /\ tx = [w \in Writers |-> NoOne]
    /\ raced = FALSE

-----------------------------------------------------------------------------
(* Row locks, held to the end of the transaction that wrote the row. *)

Locks(w) ==
    IF tx[w] = NoOne THEN {}
    ELSE CASE tx[w].kind = "authenticated" -> {}
           [] tx[w].kind = "user.bootstrapped" -> {<<"email", tx[w].user>>}
           [] tx[w].kind = "user.created" -> {<<"email", tx[w].user>>, <<"key", tx[w].actor>>}
           [] tx[w].kind = "user.revoked" ->
                {<<"key", tx[w].actor>>}
                \cup (IF tx[w].changes THEN {<<"user", tx[w].user>>} ELSE {})
                \cup (IF tx[w].changes /\ Open(w) THEN {<<"key", tx[w].user>>} ELSE {})

Free(w, rs) == \A x \in Writers \ {w} : Locks(x) \cap rs = {}

Serve(w, request) ==
    /\ tx' = [tx EXCEPT ![w] = request]
    /\ raced' = (raced \/ \E x \in Writers \ {w} : tx[x] # NoOne)
    /\ UNCHANGED account
    /\ UNCHANGED vars

-----------------------------------------------------------------------------
(* The handlers up to their audit.record. *)

Existing == {u \in Users : account[u] # NoAccount}

(* Faulty variant: users that were revoked do not count. *)
NoUsers_ActiveOnly == \A u \in Users : ~account[u].active

NoUsers == Existing = {}

(* POST /bootstrap *)
Bootstrap(w, u) ==
    /\ tx[w] = NoOne /\ ~Open(w)
    /\ NoUsers
    /\ account[u] = NoAccount
    /\ Free(w, {<<"email", u>>})
    /\ Serve(w, [kind |-> "user.bootstrapped", actor |-> u, user |-> u, role |-> "admin",
                 changes |-> TRUE])

(* Faulty variant: an inactive key or user is not refused. *)
Resolves_Inactive(u) == u \in Existing

(* _resolve: whose key it is, unless the key or the user is inactive. *)
Resolves(u) == account[u].keyActive /\ account[u].active

(* current_actor and admin_only. *)
Authenticate(w, a) ==
    /\ tx[w] = NoOne /\ ~Open(w)
    /\ Resolves(a)
    /\ account[a].role = "admin"
    /\ Serve(w, [kind |-> "authenticated", actor |-> a, user |-> a, role |-> NoOne,
                 changes |-> FALSE])

IsAuthenticated(w) == tx[w] # NoOne /\ tx[w].kind = "authenticated"

(* POST /users *)
CreateUser(w, u, role) ==
    /\ IsAuthenticated(w)
    /\ account[u] = NoAccount
    /\ Free(w, {<<"key", tx[w].actor>>, <<"email", u>>})
    /\ Serve(w, [kind |-> "user.created", actor |-> tx[w].actor, user |-> u, role |-> role,
                 changes |-> TRUE])

(* POST /users/{id}/revoke: anybody, the actor and the last admin included. *)
RevokeUser(w, u) ==
    LET changes == account[u].active \/ account[u].keyActive
    IN  /\ IsAuthenticated(w)
        /\ u \in Existing
        /\ Free(w, {<<"key", tx[w].actor>>} \cup IF changes THEN {<<"user", u>>} ELSE {})
        /\ Serve(w, [kind |-> "user.revoked", actor |-> tx[w].actor, user |-> u, role |-> NoOne,
                     changes |-> changes])

-----------------------------------------------------------------------------
(* audit.record and the commit. *)

IsWriting(w) == tx[w] # NoOne /\ tx[w].kind # "authenticated"

(* The flush before the SELECT writes the revoked user's key. *)
RecordReads(w) ==
    /\ IsWriting(w)
    /\ OwnedBy(w) = {}
    /\ tx[w].kind = "user.revoked" /\ tx[w].changes => Free(w, {<<"key", tx[w].user>>})
    /\ ReadLast(w)
    /\ UNCHANGED accountVars

EventOf(request) ==
    [action |-> request.kind, actor |-> request.actor, user |-> request.user,
     role |-> request.role]

RecordInserts(w) ==
    /\ IsWriting(w)
    /\ Insert(w, EventOf(tx[w]))
    /\ UNCHANGED accountVars

Written(request) ==
    CASE request.kind = "user.revoked" ->
           [account[request.user] EXCEPT !.active = FALSE, !.keyActive = FALSE]
      [] request.kind \in {"user.bootstrapped", "user.created"} -> NewAccount(request.role)

(* Faulty variant: the handler commits before it records the event. *)
CommitAccount_BeforeRecord(w) ==
    /\ IsWriting(w) /\ ~Open(w)
    /\ account' = [account EXCEPT ![tx[w].user] = Written(tx[w])]
    /\ tx' = [tx EXCEPT ![w] = NoOne]
    /\ UNCHANGED raced
    /\ UNCHANGED vars

CommitAccount(w) ==
    /\ IsWriting(w)
    /\ Commit(w)
    /\ account' = [account EXCEPT ![tx[w].user] = Written(tx[w])]
    /\ tx' = [tx EXCEPT ![w] = NoOne]
    /\ UNCHANGED raced

(* A refusal, an error, a deadlock that PostgreSQL breaks, a crash. *)
Abandon(w) ==
    /\ tx[w] # NoOne
    /\ tx' = [tx EXCEPT ![w] = NoOne]
    /\ IF Open(w) THEN Rollback(w) ELSE UNCHANGED vars
    /\ UNCHANGED <<account, raced>>

(* Another handler of the factory. *)
OtherHandler(w) ==
    /\ tx[w] = NoOne
    /\ \/ ReadLast(w)
       \/ \E body \in OtherBodies : Insert(w, body)
       \/ Commit(w)
       \/ Rollback(w)
    /\ UNCHANGED accountVars

(* Behind the program's back: an event becomes one of another handler. *)
Tamper ==
    /\ \/ \E k \in 1 .. MaxSeq, body \in OtherBodies : Edit(k, body)
       \/ \E k \in 1 .. MaxSeq : Remove(k)
    /\ UNCHANGED accountVars

AccountsNext ==
    \/ \E w \in Writers :
        \/ \E u \in Users : \/ Bootstrap(w, u) \/ Authenticate(w, u) \/ RevokeUser(w, u)
                            \/ \E role \in Roles : CreateUser(w, u, role)
        \/ RecordReads(w) \/ RecordInserts(w) \/ CommitAccount(w) \/ Abandon(w)
        \/ OtherHandler(w)
    \/ Tamper

AccountsSpec == AccountsInit /\ [][AccountsNext]_<<vars, accountVars>>

-----------------------------------------------------------------------------
(* What must hold. *)

(* The committed events of these handlers. *)
Recorded == {k \in Committed : rows[k].body \in AccountEvents}
Creations(u) == {k \in Recorded : rows[k].body.user = u /\ rows[k].body.action # "user.revoked"}
Revocations(u) == {k \in Recorded : rows[k].body.user = u /\ rows[k].body.action = "user.revoked"}

(***************************************************************************)
(* C7, README: every state transition is an event.  The users can be read  *)
(* off the trail: a row exists when one event created it, with the role of *)
(* that event, and is revoked when an event says so - also after handlers  *)
(* that overlap, fork the trail, fail or block each other.                 *)
(***************************************************************************)
UsersMatchTrail ==
    ~damaged => \A u \in Users :
        /\ u \in Existing <=> Creations(u) # {}
        /\ \A k \in Creations(u) : Creations(u) = {k} /\ account[u].role = rows[k].body.role
        /\ u \in Existing => (account[u].active <=> Revocations(u) = {})
        /\ account[u].keyActive = account[u].active

(***************************************************************************)
(* auth.py: bootstrap works only while the users table is empty.  One is   *)
(* all there ever is, also after the last admin was revoked; requests that *)
(* overlap are as many at most as are served at once.                      *)
(***************************************************************************)
BootstrapOnce ==
    ~damaged =>
        Cardinality({k \in Recorded : rows[k].body.action = "user.bootstrapped"})
            <= IF raced THEN Cardinality(Writers) ELSE 1

(***************************************************************************)
(* A revocation takes effect: no event of a revoked user follows it in the *)
(* trail, but for requests whose key was checked before it committed: one  *)
(* of each other writer at most, and none when requests do not overlap.    *)
(***************************************************************************)
RevocationBites ==
    ~damaged => \A u \in Users : \A k \in Revocations(u) :
        Cardinality({j \in Recorded : j > k /\ rows[j].body.actor = u})
            <= IF raced THEN Cardinality(Writers) - 1 ELSE 0
=============================================================================
