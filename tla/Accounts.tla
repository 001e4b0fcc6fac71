------------------------------ MODULE Accounts ------------------------------
(***************************************************************************)
(* Users and their tokens: registration, login, refresh, logout and GET    *)
(* /auth/me of clients who share addresses and guess passwords.            *)
(*                                                                         *)
(* Each step is one statement; PostgreSQL's unique index on users.email    *)
(* answers the INSERT.  A refresh token is a random value that the client  *)
(* has and whose argon2 hash is stored: a hash is the value and the salt   *)
(* that argon2 has drawn for this call.                                    *)
(*                                                                         *)
(* Abstracted: user names and roles, throttling, requests that are refused *)
(* by what they read first, the time of expiry (a token may expire at any  *)
(* moment).  Any INSERT of a token may fail.                               *)
(*                                                                         *)
(* InsertUserTwice, InsertUserOrLogin and InsertUserUnheeded are faulty    *)
(* variants of InsertUser, which Spec does not use.                        *)
(***************************************************************************)
EXTENDS Naturals

CONSTANTS
  Clients,
  Emails,
  Passwords,
  UserIds,  \* the ids of users
  Tokens,   \* the values of refresh tokens
  Salts,    \* the salts argon2 draws from
  NoUser,   \* there is no such user
  NoToken   \* there is no such token

VARIABLES
  user,      \* the row of each user id
  stored,    \* the row of each refresh token
  made,      \* the refresh tokens that have been generated
  pc,        \* where each client's request is
  asked,     \* the address and the password of its registration or login
  found,     \* the user that its request has found or created
  access,    \* the user its access token is for
  refresh,   \* its refresh token
  proved,    \* history: the address and the password it got that token for
  shown,     \* the user that GET /auth/me has shown it since
  loggedOut, \* history: the refresh tokens that have been logged out
  refused    \* history: those that a refresh has refused while they were valid

vars == <<user, stored, made, pc, asked, found, access, refresh, proved, shown,
          loggedOut, refused>>
database == <<user, stored, made>>
request == <<pc, asked, found>>
client == <<access, refresh, proved, shown>>
history == <<loggedOut, refused>>

RegisterDto == [email: Emails, password: Passwords]
LoginDto == [email: Emails, password: Passwords]
UserEntity == RegisterDto
Hash == Tokens \X Salts
RefreshTokenEntity == [hash: Hash, user: UserIds, expired: BOOLEAN]

ASSUME NoneAssumption == /\ NoUser \notin RegisterDto \cup UserIds
                         /\ NoToken \notin RefreshTokenEntity \cup Tokens

Nothing == [c \in Clients |-> NoUser]

Init ==
  /\ user = [u \in UserIds |-> NoUser]
  /\ stored = [t \in Tokens |-> NoToken]
  /\ made = {}
  /\ pc = [c \in Clients |-> "idle"]
  /\ asked = Nothing
  /\ found = Nothing
  /\ access = Nothing
  /\ refresh = [c \in Clients |-> NoToken]
  /\ proved = Nothing
  /\ shown = Nothing
  /\ loggedOut = {}
  /\ refused = {}

Exists(u) == user[u] # NoUser

\* The users with an address: findByEmail.
UsersOf(email) == {u \in UserIds : Exists(u) /\ user[u].email = email}

Goto(c, step) == pc' = [pc EXCEPT ![c] = step]

\* The handler answers, with what the user has asked for or an error.
Answer(c) ==
  /\ Goto(c, "idle")
  /\ asked' = [asked EXCEPT ![c] = NoUser]
  /\ found' = [found EXCEPT ![c] = NoUser]

-----------------------------------------------------------------------------
(***************************************************************************)
(* Registration and login                                                  *)
(***************************************************************************)
\* RegisterAuthUseCase looks the address up: 409 if it is taken.
Register(c, dto) ==
  /\ pc[c] = "idle" /\ UsersOf(dto.email) = {}
  /\ Goto(c, "create")
  /\ asked' = [asked EXCEPT ![c] = dto]
  /\ UNCHANGED <<database, found, client, history>>

\* CreateUsersUseCase looks it up again.
CreateUser(c) ==
  /\ pc[c] = "create"
  /\ IF UsersOf(asked[c].email) = {}
     THEN Goto(c, "insert") /\ UNCHANGED <<asked, found>>
     ELSE Answer(c)
  /\ UNCHANGED <<database, client, history>>

Created(c, u) ==
  /\ user' = [user EXCEPT ![u] = asked[c]]
  /\ Goto(c, "token") /\ found' = [found EXCEPT ![c] = u] /\ UNCHANGED asked

InsertUserTwice(c) ==
  /\ pc[c] = "insert"
  /\ \E u \in UserIds : ~ Exists(u) /\ Created(c, u)
  /\ UNCHANGED <<stored, made, client, history>>

InsertUserOrLogin(c) ==
  /\ pc[c] = "insert"
  /\ IF UsersOf(asked[c].email) = {}
     THEN \E u \in UserIds : ~ Exists(u) /\ Created(c, u)
     ELSE /\ \E u \in UsersOf(asked[c].email) : found' = [found EXCEPT ![c] = u]
          /\ Goto(c, "token") /\ UNCHANGED <<user, asked>>
  /\ UNCHANGED <<stored, made, client, history>>

InsertUserUnheeded(c) ==
  /\ pc[c] = "insert"
  /\ IF UsersOf(asked[c].email) = {}
     THEN \E u \in UserIds : ~ Exists(u) /\ Created(c, u)
     ELSE Goto(c, "token") /\ UNCHANGED <<user, asked, found>>
  /\ UNCHANGED <<stored, made, client, history>>

\* The INSERT, which idx_users_email_unique refuses when the address is taken by now.
InsertUser(c) ==
  /\ pc[c] = "insert"
  /\ IF UsersOf(asked[c].email) = {}
     THEN \E u \in UserIds : ~ Exists(u) /\ Created(c, u)
     ELSE Answer(c) /\ UNCHANGED user
  /\ UNCHANGED <<stored, made, client, history>>

\* ValidateUserUseCase: 401 if nobody has the address or the password is another.
Login(c, dto) ==
  /\ pc[c] = "idle"
  /\ \E u \in UsersOf(dto.email) :
       user[u].password = dto.password /\ found' = [found EXCEPT ![c] = u]
  /\ Goto(c, "token")
  /\ asked' = [asked EXCEPT ![c] = dto]
  /\ UNCHANGED <<database, client, history>>

\* The access token names the user it is for.
SignAccessToken(c, u) == access' = [access EXCEPT ![c] = u]

\* A refresh token is a value drawn afresh; its hash is stored.
Draw(t, salt, u) ==
  /\ stored' = [stored EXCEPT ![t] = [hash |-> <<t, salt>>, user |-> u, expired |-> FALSE]]
  /\ made' = made \cup {t}

\* Registration and login end with both tokens, or with an error if the INSERT fails.
CreateRefreshToken(c) ==
  /\ pc[c] = "token"
  /\ \/ \E t \in Tokens \ made, salt \in Salts :
          /\ Draw(t, salt, found[c])
          /\ SignAccessToken(c, found[c])
          /\ refresh' = [refresh EXCEPT ![c] = t]
          /\ proved' = [proved EXCEPT ![c] = asked[c]]
          /\ shown' = [shown EXCEPT ![c] = NoUser]
     \/ UNCHANGED <<stored, made, client>>
  /\ Answer(c)
  /\ UNCHANGED <<user, history>>

-----------------------------------------------------------------------------
(***************************************************************************)
(* Refresh and logout                                                      *)
(***************************************************************************)
\* The rows that are found for a value: its hash is computed again.
Matching(value, salt) ==
  {t \in Tokens : stored[t] # NoToken /\ stored[t].hash = <<value, salt>>}

Expired(t) == stored[t].expired

\* What the client was promised a new access token for.
Valid(t) == t \notin loggedOut /\ stored[t] # NoToken /\ ~ Expired(t)

\* ValidateRefreshTokenUseCase refuses the value, and deletes the row it finds expired.
Refuse(value, rows) ==
  /\ \A t \in rows : Expired(t)
  /\ stored' = [t \in Tokens |-> IF t \in rows THEN NoToken ELSE stored[t]]
  /\ refused' = IF Valid(value) THEN refused \cup {value} ELSE refused

\* JwtRefreshGuard validates the value ...
Refresh(c) ==
  /\ pc[c] = "idle" /\ refresh[c] # NoToken
  /\ \E salt \in Salts :
       LET rows == Matching(refresh[c], salt)
       IN \/ /\ \E t \in rows : ~ Expired(t)
             /\ Goto(c, "refresh")
             /\ UNCHANGED <<stored, refused>>
          \/ Refuse(refresh[c], rows) /\ UNCHANGED pc
  /\ UNCHANGED <<user, made, asked, found, client, loggedOut>>

\* ... and AuthService does again, and signs an access token for the row's user.
RefreshAgain(c) ==
  /\ pc[c] = "refresh"
  /\ \E salt \in Salts :
       LET rows == Matching(refresh[c], salt)
       IN \/ /\ \E t \in rows : ~ Expired(t) /\ SignAccessToken(c, stored[t].user)
             /\ UNCHANGED <<stored, refused>>
          \/ Refuse(refresh[c], rows) /\ UNCHANGED access
  /\ Answer(c)
  /\ UNCHANGED <<user, made, refresh, proved, shown, loggedOut>>

\* InvalidateRefreshTokenUseCase deletes the rows it finds, and answers the same if
\* there are none.
Logout(c) ==
  /\ pc[c] = "idle" /\ refresh[c] # NoToken
  /\ \E salt \in Salts :
       stored' = [t \in Tokens |->
                    IF t \in Matching(refresh[c], salt) THEN NoToken ELSE stored[t]]
  /\ loggedOut' = loggedOut \cup {refresh[c]}
  /\ UNCHANGED <<user, made, request, client, refused>>

-----------------------------------------------------------------------------
(***************************************************************************)
(* Protected routes and expiry                                             *)
(***************************************************************************)
\* JwtStrategy: the user of an access token that has not expired.
Me(c) ==
  /\ pc[c] = "idle" /\ access[c] # NoUser /\ Exists(access[c])
  /\ shown' = [shown EXCEPT ![c] = access[c]]
  /\ UNCHANGED <<database, request, access, refresh, proved, history>>

ExpireAccess(c) ==
  /\ access[c] # NoUser
  /\ access' = [access EXCEPT ![c] = NoUser]
  /\ UNCHANGED <<database, request, refresh, proved, shown, history>>

ExpireRefresh(t) ==
  /\ stored[t] # NoToken /\ ~ Expired(t)
  /\ stored' = [stored EXCEPT ![t].expired = TRUE]
  /\ UNCHANGED <<user, made, request, client, history>>

-----------------------------------------------------------------------------
Next ==
  \/ \E c \in Clients, dto \in RegisterDto : Register(c, dto)
  \/ \E c \in Clients, dto \in LoginDto : Login(c, dto)
  \/ \E c \in Clients :
       \/ CreateUser(c) \/ InsertUser(c) \/ CreateRefreshToken(c)
       \/ Refresh(c) \/ RefreshAgain(c) \/ Logout(c) \/ Me(c) \/ ExpireAccess(c)
  \/ \E t \in Tokens : ExpireRefresh(t)

Spec == Init /\ [][Next]_vars

-----------------------------------------------------------------------------
\* What a request knows, at each step of it.
RequestOK(c) ==
  /\ pc[c] \in {"create", "insert", "token"} <=> asked[c] # NoUser
  /\ pc[c] = "token" <=> found[c] # NoUser
  /\ pc[c] = "refresh" => refresh[c] # NoToken

\* Types; tokens are stored for users, under hashes of their own.
TypeOK ==
  /\ user \in [UserIds -> UserEntity \cup {NoUser}]
  /\ stored \in [Tokens -> RefreshTokenEntity \cup {NoToken}]
  /\ \A t \in Tokens : stored[t] # NoToken => t \in made /\ stored[t].hash[1] = t
  /\ made \subseteq Tokens
  /\ pc \in [Clients -> {"idle", "create", "insert", "token", "refresh"}]
  /\ asked \in [Clients -> RegisterDto \cup {NoUser}]
  /\ found \in [Clients -> UserIds \cup {NoUser}]
  /\ \A c \in Clients : RequestOK(c)
  /\ access \in [Clients -> UserIds \cup {NoUser}]
  /\ refresh \in [Clients -> made \cup {NoToken}]
  /\ proved \in [Clients -> RegisterDto \cup {NoUser}]
  /\ shown \in [Clients -> UserIds \cup {NoUser}]
  /\ loggedOut \subseteq made
  /\ refused \subseteq made

\* An address has one user, also when registrations overlap, each looking it up twice
\* before it inserts, or are tried again after one that failed half-way.
OneUserPerEmail ==
  \A u, other \in UserIds :
    Exists(u) /\ Exists(other) /\ user[u].email = user[other].email => u = other

\* Whatever a client's tokens open, or have shown it, is the user with the address and
\* the password it gave: nobody gets a token of the user who was registered first.
TokensAreOwn ==
  \A c \in Clients :
    /\ \A u \in {access[c], shown[c]} \ {NoUser} : user[u] = proved[c]
    /\ refresh[c] # NoToken /\ stored[refresh[c]] # NoToken =>
         user[stored[refresh[c]].user] = proved[c]
    /\ pc[c] = "token" => user[found[c]] = asked[c]

\* A refresh token that is stored, has not expired and has not been logged out gets a
\* new access token.
ValidTokensRefresh == refused = {}
=============================================================================
