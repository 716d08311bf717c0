------------------------------ MODULE Accounts ------------------------------
(***************************************************************************)
(* Users and sessions: UsersService and its controller                     *)
(* (src/users/users.service.ts), AuthService, its controller, the JWT      *)
(* strategies and RolesGuard (src/auth/auth.service.ts), on top of the     *)
(* branches of InspectionCreation, which a user refers to.                 *)
(*                                                                         *)
(* A request is authenticated in two queries, the blacklist and the user,  *)
(* and its handler checks what it read earlier: an address is free, a user *)
(* is an inspector, a target is no superadmin.  Only unique columns and    *)
(* updates by id are atomic.                                               *)
(*                                                                         *)
(* Data: Norm is normalizeEmail; addresses are in lower case.  An access   *)
(* token is named by the request that it was issued to, and carries user   *)
(* and role; expiry is left out.  A PIN is named by the request that drew  *)
(* it, and its hash matches no other.  Passwords match or do not.          *)
(* username and walletAddress are unique columns like email and have no    *)
(* part of their own.                                                      *)
(***************************************************************************)
EXTENDS InspectionCreation

CONSTANTS
    Address,        \* e-mail addresses as people write them
    Norm,           \* Address -> Address: normalizeEmail
    GoogleId,       \* Google accounts
    FirstUser,      \* users that exist at first, each with a token
    FirstEmail,     \* FirstUser -> Address
    FirstRole       \* FirstUser -> Role

UserId == FirstUser \cup Request
Token == UserId

ASSUME AccountsAssumption ==
    /\ Norm \in [Address -> Address]
    /\ \A a \in Address : Norm[Norm[a]] = Norm[a]
    /\ FirstEmail \in [FirstUser -> Address]
    /\ \A u, v \in FirstUser : FirstEmail[u] = FirstEmail[v] => u = v
    /\ FirstRole \in [FirstUser -> Role]
    /\ FirstUser \cap Request = {}
    /\ None \notin UserId \cup Address \cup GoogleId

VARIABLES
    users,          \* the table users
    tokens,         \* the access tokens handed out
    blacklist,      \* the table blacklisted_tokens
    registered,     \* history: the address a user signed up with, until an
                    \* admin changes it
    admitted        \* history: how the guards let in a request for records

accountVars == <<users, tokens, blacklist, registered, admitted>>
accountsVars == <<creationVars, accountVars>>

User == [email: Address \cup {None}, role: Role, isActive: BOOLEAN,
         google: GoogleId \cup {None}, pin: Request \cup {None},
         branch: BranchId \cup {None},
         password: BOOLEAN,         \* is there one?
         refreshToken: BOOLEAN]     \* the hash of one? it tells users apart, not tokens

NewUser == [email |-> None, role |-> "CUSTOMER", isActive |-> TRUE, google |-> None,
            pin |-> None, branch |-> None, password |-> FALSE, refreshToken |-> FALSE]

\* user: who acts; roles: the roles that user had since the request came
\* (history); fresh: the token was valid when it came (history); target:
\* whose row; was: the role of the target when it was read.
AccountMemo == [user: UserId \cup {None}, token: Token \cup {None}, role: Role,
                roles: SUBSET Role, fresh: BOOLEAN, address: Address \cup {None},
                branch: BranchId \cup {None}, target: UserId \cup {None}, was: Role]

Blank == [user |-> None, token |-> None, role |-> "CUSTOMER", roles |-> {}, fresh |-> TRUE,
          address |-> None, branch |-> None, target |-> None, was |-> "CUSTOMER"]

AccountsInit ==
    /\ CreationInit
    /\ users = [u \in UserId |->
           IF u \in FirstUser
           THEN [NewUser EXCEPT !.email = FirstEmail[u], !.role = FirstRole[u],
                                 !.password = TRUE]
           ELSE None]
    /\ tokens = [t \in Token |->
           IF t \in FirstUser THEN [user |-> t, role |-> FirstRole[t]] ELSE None]
    /\ blacklist = {}
    /\ registered = [u \in UserId |-> None]
    /\ admitted = [r \in Request |-> None]

Users == {u \in UserId : users[u] # None}
Issued == {t \in Token : tokens[t] # None}

\* findByEmail
Found(a) == {u \in Users : users[u].email = Norm[a]}

\* The unique column.
EmailFree(e) == \A u \in Users : users[u].email # e

Adds(r, row) == users' = [users EXCEPT ![r] = row]
Refused(r) == Ends(r, "rejected") /\ UNCHANGED <<tables, accountVars>>

\* The foreign key of a user whose branch is removed is set to NULL.
ReleasesBranches ==
    users' = [u \in UserId |->
        IF u \in Users /\ users[u].branch # None /\ branches'[users[u].branch] = None
        THEN [users[u] EXCEPT !.branch = None] ELSE users[u]]

\* Requests whose handler is in this module, and at which labels it acts
\* for the user of the token.
TokenOps == {"createInspector", "createAdmin", "updateRole", "updateUser", "updateInspector",
             "generatePin", "deleteUser", "logout"}
Accepted(r) == op[r] \in TokenOps /\ pc[r] \in {"handling", "insertingUser", "writing"}

\* The handler begins; those of the other modules take nothing from memo.
Admits(r, role) ==
    IF op[r] \in TokenOps
    THEN /\ Keeps(r, [memo[r] EXCEPT !.role = role])
         /\ Goto(r, "handling")
         /\ UNCHANGED admitted
    ELSE /\ admitted' = [admitted EXCEPT ![r] =
                [role |-> role, roles |-> memo[r].roles, fresh |-> memo[r].fresh]]
         /\ Ends(r, "idle")

-----------------------------------------------------------------------------
(* Faulty variants for mutation runs; not part of the model.               *)

\* The role is taken from the token's payload.
LoadUserByPayload(r) ==
    /\ pc[r] = "loading"
    /\ memo[r].user \in Users
    /\ tokens[memo[r].token].role \in MayCall(op[r])
    /\ Admits(r, tokens[memo[r].token].role)
    /\ UNCHANGED <<tables, users, tokens, blacklist, registered>>

\* The address is stored as it was typed.
RegisterUserAsTyped(r) ==
    /\ pc[r] = "registering"
    /\ EmailFree(memo[r].address)
    /\ Adds(r, [NewUser EXCEPT !.email = memo[r].address, !.password = TRUE])
    /\ registered' = [registered EXCEPT ![r] = memo[r].address]
    /\ Ends(r, "done")
    /\ UNCHANGED <<tables, tokens, blacklist, admitted>>

\* Only the check of a free address keeps addresses apart.
InsertUserUnchecked(r) ==
    /\ pc[r] = "insertingUser"
    /\ Adds(r, [NewUser EXCEPT !.email = memo[r].address, !.role = memo[r].was])
    /\ Ends(r, "done")
    /\ UNCHANGED <<tables, tokens, blacklist, registered, admitted>>

-----------------------------------------------------------------------------
(* Authentication of a request                                             *)

Arrive(r) ==
    /\ pc[r] = "arriving"
    /\ \E t \in Issued :
           LET u == tokens[t].user IN
           Keeps(r, [Blank EXCEPT !.user = u, !.token = t,
                                  !.roles = {users[v].role : v \in {u} \cap Users},
                                  !.fresh = t \notin blacklist /\ u \in Users])
    /\ Goto(r, "authenticating")
    /\ UNCHANGED <<tables, accountVars>>

CheckBlacklist(r) ==
    /\ pc[r] = "authenticating"
    /\ memo[r].token \notin blacklist
    /\ Goto(r, "loading")
    /\ UNCHANGED <<tables, memo, accountVars>>

\* The role that RolesGuard looks at is the one in the database.
LoadUser(r) ==
    /\ pc[r] = "loading"
    /\ memo[r].user \in Users
    /\ users[memo[r].user].role \in MayCall(op[r])
    /\ Admits(r, users[memo[r].user].role)
    /\ UNCHANGED <<tables, users, tokens, blacklist, registered>>

\* Not authenticated, not allowed, not found, not unique, or another error.
AccountStepFails(r) ==
    /\ pc[r] \in {"authenticating", "loading", "handling", "insertingUser", "writing",
                  "registering", "refreshing", "storing"}
    /\ Refused(r)

-----------------------------------------------------------------------------
(* Signing up and in                                                       *)

\* createLocalUser: is the address free?  Then the password is hashed.
CheckAddress(r) ==
    /\ Asks(r, "register")
    /\ \E a \in Address :
           /\ Found(a) = {}
           /\ Keeps(r, [Blank EXCEPT !.address = a])
    /\ Goto(r, "registering")
    /\ UNCHANGED <<tables, accountVars>>

RegisterUser(r) ==
    /\ pc[r] = "registering"
    /\ EmailFree(Norm[memo[r].address])
    /\ Adds(r, [NewUser EXCEPT !.email = Norm[memo[r].address], !.password = TRUE])
    /\ registered' = [registered EXCEPT ![r] = memo[r].address]
    /\ Ends(r, "done")
    /\ UNCHANGED <<tables, tokens, blacklist, admitted>>

SignsIn(r, u, role) ==
    /\ Keeps(r, [Blank EXCEPT !.user = u, !.role = role])
    /\ Goto(r, "storing")

\* One upsert; googleId is unique too.
GoogleUpsert(r) ==
    /\ Asks(r, "google")
    /\ \E a \in Address, g \in GoogleId :
           \/ /\ Found(a) = {}
              /\ \A v \in Users : users[v].google # g
              /\ Adds(r, [NewUser EXCEPT !.email = Norm[a], !.google = g])
              /\ registered' = [registered EXCEPT ![r] = a]
              /\ SignsIn(r, r, "CUSTOMER")
           \/ \E u \in Found(a) :
              /\ \A v \in Users \ {u} : users[v].google # g
              /\ users' = [users EXCEPT ![u].google = g]
              /\ SignsIn(r, u, users[u].role)
              /\ UNCHANGED registered
    /\ UNCHANGED <<tables, tokens, blacklist, admitted>>

\* By user name or address, with a password.
LoginLocal(r) ==
    /\ Asks(r, "login")
    /\ \E u \in Users :
           /\ users[u].password /\ users[u].isActive
           /\ SignsIn(r, u, users[u].role)
    /\ UNCHANGED <<tables, accountVars>>

\* By address, with a PIN.
LoginInspector(r) ==
    /\ Asks(r, "login")
    /\ \E a \in Address : \E u \in Found(a) :
           /\ users[u].role = "INSPECTOR" /\ users[u].pin # None /\ users[u].isActive
           /\ SignsIn(r, u, users[u].role)
    /\ UNCHANGED <<tables, accountVars>>

Refresh(r) ==
    /\ Asks(r, "refresh")
    /\ \E t \in Issued :
           /\ tokens[t].user \in Users
           /\ users[tokens[t].user].refreshToken
           /\ Keeps(r, [Blank EXCEPT !.user = tokens[t].user])
    /\ Goto(r, "refreshing")
    /\ UNCHANGED <<tables, accountVars>>

RefreshTokens(r) ==
    /\ pc[r] = "refreshing"
    /\ memo[r].user \in Users
    /\ SignsIn(r, memo[r].user, users[memo[r].user].role)
    /\ UNCHANGED <<tables, accountVars>>

\* login() of AuthService: the tokens are signed, the refresh token's hash is
\* stored, and both are handed out.
StoreSession(r) ==
    /\ pc[r] = "storing"
    /\ memo[r].user \in Users
    /\ users' = [users EXCEPT ![memo[r].user].refreshToken = TRUE]
    /\ tokens' = [tokens EXCEPT ![r] = [user |-> memo[r].user, role |-> memo[r].role]]
    /\ Ends(r, "done")
    /\ UNCHANGED <<tables, blacklist, registered, admitted>>

Logout(r) ==
    /\ op[r] = "logout" /\ pc[r] = "handling"
    /\ memo[r].token \notin blacklist
    /\ blacklist' = blacklist \cup {memo[r].token}
    /\ Ends(r, "done")
    /\ UNCHANGED <<tables, users, tokens, registered, admitted>>

-----------------------------------------------------------------------------
(* Administration                                                          *)

\* createInspector and createAdminOrSuperAdmin: is the address free, is
\* there such a branch?  Then PIN or password are hashed.
CheckNewUser(r) ==
    /\ pc[r] = "handling"
    /\ \E a \in Address :
           /\ Found(a) = {}
           /\ \/ /\ op[r] = "createInspector"
                 /\ \E b \in Branches : Keeps(r, [memo[r] EXCEPT
                        !.address = a, !.branch = b, !.was = "INSPECTOR"])
              \/ /\ op[r] = "createAdmin"
                 /\ \E role \in {"ADMIN", "SUPERADMIN"} : Keeps(r, [memo[r] EXCEPT
                        !.address = a, !.was = role])
    /\ Goto(r, "insertingUser")
    /\ UNCHANGED <<tables, accountVars>>

\* The address is stored in lower case, not normalized.
InsertUser(r) ==
    /\ pc[r] = "insertingUser"
    /\ EmailFree(memo[r].address)
    /\ memo[r].branch \in Branches \cup {None}
    /\ Adds(r, [NewUser EXCEPT !.email = memo[r].address, !.role = memo[r].was,
                               !.branch = memo[r].branch,
                               !.pin = IF op[r] = "createInspector" THEN r ELSE None,
                               !.password = (op[r] = "createAdmin")])
    /\ Ends(r, "done")
    /\ UNCHANGED <<tables, tokens, blacklist, registered, admitted>>

\* updateRole: not one's own, and no superadmin's by an admin.
\* updateInspector and generatePin: an inspector's.
FindTarget(r) ==
    /\ pc[r] = "handling"
    /\ \E u \in Users :
           /\ \/ /\ op[r] = "updateRole"
                 /\ u # memo[r].user
                 /\ ~(memo[r].role = "ADMIN" /\ users[u].role = "SUPERADMIN")
              \/ /\ op[r] \in {"updateInspector", "generatePin"}
                 /\ users[u].role = "INSPECTOR"
           /\ Keeps(r, [memo[r] EXCEPT !.target = u, !.was = users[u].role])
    /\ Goto(r, "writing")
    /\ UNCHANGED <<tables, accountVars>>

WriteRole(r) ==
    /\ op[r] = "updateRole" /\ pc[r] = "writing"
    /\ memo[r].target \in Users
    /\ \E role \in Role :
           /\ users' = [users EXCEPT ![memo[r].target].role = role]
           \* the history of the other requests of the target
           /\ memo' = [q \in Request |->
                  IF q = r THEN None
                  ELSE IF (Accepted(q) \/ pc[q] \in {"authenticating", "loading"})
                          /\ memo[q].user = memo[r].target
                       THEN [memo[q] EXCEPT !.roles = @ \cup {role}]
                       ELSE memo[q]]
    /\ Goto(r, "done")
    /\ UNCHANGED <<tables, tokens, blacklist, registered, admitted>>

\* A new address forgets the one the user signed up with.
Renames(u, a) ==
    /\ \A v \in Users \ {u} : users[v].email # a
    /\ registered' = [registered EXCEPT ![u] = IF a = users[u].email THEN @ ELSE None]

WriteInspector(r) ==
    /\ op[r] = "updateInspector" /\ pc[r] = "writing"
    /\ memo[r].target \in Users
    /\ \E a \in Address, active \in BOOLEAN, b \in Branches :
           /\ Renames(memo[r].target, a)
           /\ users' = [users EXCEPT ![memo[r].target] =
                  [@ EXCEPT !.email = a, !.isActive = active, !.branch = b]]
    /\ Ends(r, "done")
    /\ UNCHANGED <<tables, tokens, blacklist, admitted>>

WritePin(r) ==
    /\ op[r] = "generatePin" /\ pc[r] = "writing"
    /\ memo[r].target \in Users
    /\ users' = [users EXCEPT ![memo[r].target].pin = r]
    /\ Ends(r, "done")
    /\ UNCHANGED <<tables, tokens, blacklist, registered, admitted>>

\* The body may bring a PIN for anyone, and a text in place of the hash of
\* the refresh token, which no token matches then.
UpdateUser(r) ==
    /\ op[r] = "updateUser" /\ pc[r] = "handling"
    /\ \E u \in Users, a \in Address, pin \in Request \cup {None}, token \in BOOLEAN :
           /\ Renames(u, a)
           /\ pin \in {users[u].pin, r}
           /\ token => users[u].refreshToken
           /\ users' = [users EXCEPT ![u] =
                  [@ EXCEPT !.email = a, !.pin = pin, !.refreshToken = token]]
    /\ Ends(r, "done")
    /\ UNCHANGED <<tables, tokens, blacklist, admitted>>

DeleteUser(r) ==
    /\ op[r] = "deleteUser" /\ pc[r] = "handling"
    /\ \E u \in Users :
           /\ users' = [users EXCEPT ![u] = None]
           /\ registered' = [registered EXCEPT ![u] = None]
    /\ Ends(r, "done")
    /\ UNCHANGED <<tables, tokens, blacklist, admitted>>

AccountStep(r) ==
    \/ Arrive(r) \/ CheckBlacklist(r) \/ LoadUser(r) \/ AccountStepFails(r)
    \/ CheckAddress(r) \/ RegisterUser(r) \/ GoogleUpsert(r)
    \/ LoginLocal(r) \/ LoginInspector(r) \/ Refresh(r) \/ RefreshTokens(r)
    \/ StoreSession(r) \/ Logout(r)
    \/ CheckNewUser(r) \/ InsertUser(r) \/ FindTarget(r) \/ WriteRole(r)
    \/ WriteInspector(r) \/ WritePin(r) \/ UpdateUser(r) \/ DeleteUser(r)

AccountsNext ==
    \/ CreationNext /\ ReleasesBranches /\ UNCHANGED <<tokens, blacklist, registered, admitted>>
    \/ \E r \in Request : AccountStep(r)

AccountsSpec == AccountsInit /\ [][AccountsNext]_accountsVars

-----------------------------------------------------------------------------
(* Properties                                                              *)

\* Users, tokens and what a handler keeps have their types, and unique
\* columns and foreign keys hold although the checks before an INSERT are
\* made earlier.
AccountsTypeOK ==
    /\ users \in [UserId -> User \cup {None}]
    /\ tokens \in [Token -> [user: UserId, role: Role] \cup {None}]
    /\ blacklist \subseteq Issued
    /\ registered \in [UserId -> Address \cup {None}]
    /\ \A u, v \in Users : u # v =>
          /\ users[u].email # users[v].email
          /\ users[u].google # None => users[u].google # users[v].google
    /\ \A u \in Users : users[u].branch \in Branches \cup {None}
    /\ \A r \in Request : Accepted(r) => memo[r] \in AccountMemo

\* JwtStrategy and RolesGuard: the handlers of all guarded routes run only
\* for a token that was still valid and a user that still existed when the
\* request came, and with a role that the route allows and the user then had
\* or was given since, whatever the token says and whoever is demoted, logged
\* out or deleted meanwhile.
AcceptedRequestsAreCurrent ==
    /\ \A r \in Request : Accepted(r) =>
          memo[r].fresh /\ memo[r].role \in memo[r].roles \cap MayCall(op[r])
    /\ \A r \in Request : admitted[r] # None =>
          admitted[r].fresh /\ admitted[r].role \in admitted[r].roles \cap MayCall(op[r])

\* Whoever signed up, by form or by Google, is found under the address as it
\* was typed, whoever else signs up or is created or renamed by an admin in
\* the meantime.
SelfRegisteredFound ==
    \A u \in Users : registered[u] # None => Found(registered[u]) = {u}
=============================================================================
