--------------------------- MODULE AccountsProofs ---------------------------
(***************************************************************************)
(* What registration, login and refresh guarantee for any clients,         *)
(* addresses and tokens.  That a client's tokens are its own rests on three *)
(* things: a user's row never changes, a value that is generated is new,   *)
(* and a row that is found by a hash is the row of the hashed value.       *)
(***************************************************************************)
EXTENDS Accounts, TLAPS

\* A client that has a token, or has been shown a user, has proved who it is.
Proved ==
  \A c \in Clients :
    access[c] # NoUser \/ shown[c] # NoUser \/ refresh[c] # NoToken => proved[c] \in RegisterDto

USE DEF UserEntity

-----------------------------------------------------------------------------
\* A row that is found by its hash is the row of the value.
LEMMA MatchingIsOwn ==
  ASSUME TypeOK, NEW value, NEW salt
  PROVE  Matching(value, salt) \subseteq {t \in Tokens : t = value /\ stored[t] # NoToken}
BY DEF Matching, TypeOK, RefreshTokenEntity, Hash

\* A new row, and a row that expires, is a row.
LEMMA NewRow ==
  ASSUME NEW t \in Tokens, NEW salt \in Salts, NEW u \in UserIds
  PROVE  [hash |-> <<t, salt>>, user |-> u, expired |-> FALSE] \in RefreshTokenEntity
BY DEF RefreshTokenEntity, Hash

LEMMA ExpiredRow ==
  ASSUME NEW row \in RefreshTokenEntity
  PROVE  /\ [row EXCEPT !.expired = TRUE] \in RefreshTokenEntity
         /\ [row EXCEPT !.expired = TRUE].hash = row.hash
         /\ [row EXCEPT !.expired = TRUE].user = row.user
BY DEF RefreshTokenEntity

\* Refusing a value only removes rows.
LEMMA RefuseRemoves ==
  ASSUME TypeOK, NEW value \in made, NEW rows, Refuse(value, rows)
  PROVE  /\ stored' \in [Tokens -> RefreshTokenEntity \cup {NoToken}]
         /\ \A t \in Tokens : stored'[t] # NoToken => stored'[t] = stored[t]
         /\ refused' \subseteq made
BY DEF TypeOK, Refuse

\* The shape of the state is kept by each step.
LEMMA TypeInductive == TypeOK /\ [Next]_vars => TypeOK'
<1> SUFFICES ASSUME TypeOK, [Next]_vars
             PROVE  TypeOK'
  OBVIOUS
<1> USE NoneAssumption DEF database, request, client, history
<1>1. ASSUME NEW c \in Clients, NEW dto \in RegisterDto, Register(c, dto) PROVE TypeOK'
  BY <1>1 DEF TypeOK, RequestOK, Register, Goto
<1>2. ASSUME NEW c \in Clients, NEW dto \in RegisterDto, Login(c, dto) PROVE TypeOK'
  BY <1>2 DEF TypeOK, RequestOK, Login, Goto, UsersOf
<1>3. ASSUME NEW c \in Clients, CreateUser(c) PROVE TypeOK'
  BY <1>3 DEF TypeOK, RequestOK, CreateUser, Goto, Answer
<1>4. ASSUME NEW c \in Clients, InsertUser(c) PROVE TypeOK'
  BY <1>4 DEF TypeOK, RequestOK, InsertUser, Created, Goto, Answer
<1>5. ASSUME NEW c \in Clients, CreateRefreshToken(c) PROVE TypeOK'
  <2>1. found[c] \in UserIds
    BY <1>5 DEF TypeOK, RequestOK, CreateRefreshToken, SignAccessToken, Draw
  <2>2. /\ pc' \in [Clients -> {"idle", "create", "insert", "token", "refresh"}]
        /\ asked' \in [Clients -> RegisterDto \cup {NoUser}]
        /\ found' \in [Clients -> UserIds \cup {NoUser}]
        /\ \A d \in Clients : RequestOK(d)'
    BY <1>5 DEF TypeOK, RequestOK, CreateRefreshToken, SignAccessToken, Draw, Goto, Answer
  <2>3. CASE UNCHANGED <<stored, made, client>>
    BY <1>5, <2>2, <2>3 DEF TypeOK, CreateRefreshToken, SignAccessToken, Draw
  <2>4. ASSUME NEW t \in Tokens \ made, NEW salt \in Salts,
               stored' = [stored EXCEPT ![t] = [hash |-> <<t, salt>>, user |-> found[c],
                                                expired |-> FALSE]],
               made' = made \cup {t},
               access' = [access EXCEPT ![c] = found[c]],
               refresh' = [refresh EXCEPT ![c] = t],
               proved' = [proved EXCEPT ![c] = asked[c]],
               shown' = [shown EXCEPT ![c] = NoUser]
        PROVE  TypeOK'
    <3>1. stored' \in [Tokens -> RefreshTokenEntity \cup {NoToken}]
      BY <2>1, <2>4, NewRow DEF TypeOK
    <3>2. \A s \in Tokens : stored'[s] # NoToken => s \in made' /\ stored'[s].hash[1] = s
      BY <2>4 DEF TypeOK
    <3>3. QED
      BY <1>5, <2>1, <2>2, <2>4, <3>1, <3>2 DEF TypeOK, CreateRefreshToken,
         SignAccessToken, Draw
  <2>5. QED
    BY <1>5, <2>3, <2>4 DEF CreateRefreshToken, SignAccessToken, Draw
<1>6. ASSUME NEW c \in Clients, Refresh(c) PROVE TypeOK'
  BY <1>6, RefuseRemoves DEF TypeOK, RequestOK, Refresh, Goto
<1>7. ASSUME NEW c \in Clients, RefreshAgain(c) PROVE TypeOK'
  <2>1. /\ pc' \in [Clients -> {"idle", "create", "insert", "token", "refresh"}]
        /\ asked' \in [Clients -> RegisterDto \cup {NoUser}]
        /\ found' \in [Clients -> UserIds \cup {NoUser}]
        /\ \A d \in Clients : RequestOK(d)'
    BY <1>7 DEF TypeOK, RequestOK, RefreshAgain, SignAccessToken, Goto, Answer
  <2>2. PICK salt \in Salts :
          \/ /\ \E t \in Matching(refresh[c], salt) :
                  ~ Expired(t) /\ access' = [access EXCEPT ![c] = stored[t].user]
             /\ UNCHANGED <<stored, refused>>
          \/ Refuse(refresh[c], Matching(refresh[c], salt)) /\ UNCHANGED access
    BY <1>7 DEF RefreshAgain, SignAccessToken
  <2>3. UNCHANGED <<user, made, refresh, proved, shown, loggedOut>>
    BY <1>7 DEF RefreshAgain, SignAccessToken
  <2>4. CASE Refuse(refresh[c], Matching(refresh[c], salt)) /\ UNCHANGED access
    <3>1. refresh[c] \in made
      BY <1>7 DEF TypeOK, RequestOK, RefreshAgain, SignAccessToken
    <3>2. QED
      BY <2>1, <2>3, <2>4, <3>1, RefuseRemoves DEF TypeOK
  <2>5. ASSUME NEW t \in Matching(refresh[c], salt), UNCHANGED <<stored, refused>>,
               access' = [access EXCEPT ![c] = stored[t].user]
        PROVE  TypeOK'
    <3>1. stored[t].user \in UserIds
      BY MatchingIsOwn DEF TypeOK, RefreshTokenEntity
    <3>2. QED
      BY <2>1, <2>3, <2>5, <3>1 DEF TypeOK
  <2>6. QED
    BY <2>2, <2>4, <2>5
<1>8. ASSUME NEW c \in Clients, Logout(c) PROVE TypeOK'
  BY <1>8 DEF TypeOK, RequestOK, Logout
<1>9. ASSUME NEW c \in Clients, Me(c) \/ ExpireAccess(c) PROVE TypeOK'
  BY <1>9 DEF TypeOK, RequestOK, Me, ExpireAccess
<1>10. ASSUME NEW t \in Tokens, ExpireRefresh(t) PROVE TypeOK'
  <2>1. /\ stored[t] \in RefreshTokenEntity
        /\ stored' = [stored EXCEPT ![t] = [stored[t] EXCEPT !.expired = TRUE]]
    BY <1>10 DEF TypeOK, ExpireRefresh
  <2>2. stored' \in [Tokens -> RefreshTokenEntity \cup {NoToken}]
    BY <2>1, ExpiredRow DEF TypeOK
  <2>3. \A s \in Tokens : stored'[s] # NoToken => s \in made /\ stored'[s].hash[1] = s
    BY <2>1, ExpiredRow DEF TypeOK
  <2>4. QED
    BY <1>10, <2>2, <2>3 DEF TypeOK, RequestOK, ExpireRefresh
<1>11. CASE UNCHANGED vars
  BY <1>11 DEF TypeOK, RequestOK, vars
<1>12. QED
  BY <1>1, <1>2, <1>3, <1>4, <1>5, <1>6, <1>7, <1>8, <1>9, <1>10, <1>11 DEF Next, LoginDto,
     RegisterDto

LEMMA TypeInvariant == Spec => []TypeOK
<1>1. Init => TypeOK
  BY NoneAssumption DEF Init, Nothing, TypeOK, RequestOK
<1>2. QED
  BY <1>1, TypeInductive, PTL DEF Spec

\* Requests, clients' tokens and the tables keep their shape; a stored token is one that
\* has been generated, under a hash of its own.
THEOREM TypeCorrect == Spec => []TypeOK
BY TypeInvariant

-----------------------------------------------------------------------------
\* A step changes no user's row; a row that it adds has an address nobody had.
UserAdded ==
  \/ UNCHANGED user
  \/ \E c \in Clients, u \in UserIds :
       /\ asked[c] \in RegisterDto /\ UsersOf(asked[c].email) = {} /\ ~ Exists(u)
       /\ user' = [user EXCEPT ![u] = asked[c]]

LEMMA OnlyInsertAdds == TypeOK /\ [Next]_vars => UserAdded
<1> SUFFICES ASSUME TypeOK, [Next]_vars
             PROVE  UserAdded
  OBVIOUS
<1>1. ASSUME NEW c \in Clients, InsertUser(c) PROVE UserAdded
  BY <1>1 DEF TypeOK, RequestOK, InsertUser, Created, UserAdded
<1>2. ASSUME NEW c \in Clients, NEW dto \in RegisterDto, Register(c, dto) \/ Login(c, dto)
      PROVE  UNCHANGED user
  BY <1>2 DEF Register, Login, database
<1>3. ASSUME NEW c \in Clients,
             \/ CreateUser(c) \/ CreateRefreshToken(c) \/ Refresh(c) \/ RefreshAgain(c)
             \/ Logout(c) \/ Me(c) \/ ExpireAccess(c)
      PROVE  UNCHANGED user
  BY <1>3 DEF CreateUser, CreateRefreshToken, SignAccessToken, Draw, Refresh, RefreshAgain,
     Logout, Me,
              ExpireAccess, database
<1>4. ASSUME NEW t \in Tokens, ExpireRefresh(t) PROVE UNCHANGED user
  BY <1>4 DEF ExpireRefresh
<1>5. CASE UNCHANGED vars
  BY <1>5 DEF vars, UserAdded
<1>6. QED
  BY <1>1, <1>2, <1>3, <1>4, <1>5 DEF Next, LoginDto, RegisterDto, UserAdded

LEMMA EmailsInductive == TypeOK /\ OneUserPerEmail /\ UserAdded => OneUserPerEmail'
BY NoneAssumption DEF TypeOK, OneUserPerEmail, UserAdded, UsersOf, Exists

\* Every address has one user, whatever registrations overlap.
THEOREM EmailsRegisteredOnce == Spec => []OneUserPerEmail
<1>1. Init => OneUserPerEmail
  BY DEF Init, Nothing, OneUserPerEmail, Exists
<1>2. TypeOK /\ OneUserPerEmail /\ [Next]_vars => OneUserPerEmail'
  BY OnlyInsertAdds, EmailsInductive
<1>3. QED
  BY <1>1, <1>2, TypeInvariant, PTL DEF Spec

-----------------------------------------------------------------------------
Own == Proved /\ TokensAreOwn

\* What a client is said to have proved, and what is stored for it, is all it takes.
LEMMA OwnStays ==
  ASSUME TypeOK, TypeOK', Own, UserAdded,
         UNCHANGED <<access, refresh, proved, shown>>,
         \A t \in Tokens : stored'[t] # NoToken =>
           stored[t] # NoToken /\ stored'[t].user = stored[t].user,
         \A c \in Clients : pc'[c] = "token" => user'[found'[c]] = asked'[c]
  PROVE  Own'
<1>1. \A c \in Clients : \A u \in {access[c], shown[c]} \ {NoUser} :
        u \in UserIds /\ proved[c] \in RegisterDto /\ user[u] = proved[c]
  BY DEF Own, Proved, TokensAreOwn, TypeOK
<1>2. \A c \in Clients : \A u \in {access[c], shown[c]} \ {NoUser} : user'[u] = proved[c]
  BY <1>1, NoneAssumption DEF UserAdded, Exists, TypeOK
<1>3. ASSUME NEW c \in Clients, refresh[c] # NoToken, stored'[refresh[c]] # NoToken
      PROVE  user'[stored'[refresh[c]].user] = proved[c]
  <2>1. refresh[c] \in Tokens /\ proved[c] \in RegisterDto
    BY <1>3 DEF Own, Proved, TypeOK
  <2>2. stored[refresh[c]].user \in UserIds /\ user[stored[refresh[c]].user] = proved[c]
    BY <1>3, <2>1 DEF Own, TokensAreOwn, TypeOK, RefreshTokenEntity
  <2>3. user'[stored[refresh[c]].user] = proved[c]
    BY <2>1, <2>2, NoneAssumption DEF UserAdded, Exists, TypeOK
  <2>4. QED
    BY <1>3, <2>1, <2>3
<1>4. QED
  BY <1>2, <1>3 DEF Own, Proved, TokensAreOwn

LEMMA OwnInductive == TypeOK /\ TypeOK' /\ Own /\ UserAdded /\ [Next]_vars => Own'
<1> SUFFICES ASSUME TypeOK, TypeOK', Own, UserAdded, [Next]_vars
             PROVE  Own'
  OBVIOUS
<1> USE DEF database, request, client, history
<1>0. \A c \in Clients : pc[c] = "token" =>
        /\ found[c] \in UserIds /\ asked[c] \in RegisterDto /\ user[found[c]] = asked[c]
        /\ user'[found[c]] = asked[c]
  <2>1. \A c \in Clients : pc[c] = "token" =>
          found[c] \in UserIds /\ asked[c] \in RegisterDto /\ user[found[c]] = asked[c]
    BY DEF Own, TokensAreOwn, TypeOK, RequestOK
  <2>2. QED
    BY <2>1, NoneAssumption DEF UserAdded, Exists, TypeOK
<1>1. ASSUME NEW c \in Clients, NEW dto \in RegisterDto, Register(c, dto) PROVE Own'
  BY <1>1, <1>0, OwnStays DEF Register, Goto, TypeOK
<1>2. ASSUME NEW c \in Clients, NEW dto \in RegisterDto, Login(c, dto) PROVE Own'
  <2>1. PICK u \in UsersOf(dto.email) :
          user[u].password = dto.password /\ found' = [found EXCEPT ![c] = u]
    BY <1>2 DEF Login
  <2>2. u \in UserIds /\ user[u] = dto
    BY <2>1 DEF UsersOf, Exists, TypeOK, RegisterDto
  <2>3. \A d \in Clients : pc'[d] = "token" => user'[found'[d]] = asked'[d]
    BY <1>2, <1>0, <2>1, <2>2 DEF Login, Goto, TypeOK
  <2>4. QED
    BY <1>2, <2>3, OwnStays DEF Login
<1>3. ASSUME NEW c \in Clients, CreateUser(c) PROVE Own'
  BY <1>3, <1>0, OwnStays DEF CreateUser, Goto, Answer, TypeOK
<1>4. ASSUME NEW c \in Clients, InsertUser(c) PROVE Own'
  <2>1. \A d \in Clients : pc'[d] = "token" => user'[found'[d]] = asked'[d]
    BY <1>4, <1>0 DEF InsertUser, Created, Goto, Answer, TypeOK
  <2>2. QED
    BY <1>4, <2>1, OwnStays DEF InsertUser
<1>5. ASSUME NEW c \in Clients, CreateRefreshToken(c) PROVE Own'
  <2>1. \A d \in Clients : pc'[d] = "token" => user'[found'[d]] = asked'[d]
    BY <1>5, <1>0 DEF CreateRefreshToken, SignAccessToken, Draw, Goto, Answer, TypeOK
  <2>2. UNCHANGED user
    BY <1>5 DEF CreateRefreshToken, SignAccessToken, Draw
  <2>3. CASE UNCHANGED <<stored, made, client>>
    BY <2>1, <2>3, OwnStays
  <2>4. ASSUME NEW t \in Tokens \ made, NEW salt \in Salts,
               stored' = [stored EXCEPT ![t] = [hash |-> <<t, salt>>, user |-> found[c],
                                                expired |-> FALSE]],
               access' = [access EXCEPT ![c] = found[c]],
               refresh' = [refresh EXCEPT ![c] = t],
               proved' = [proved EXCEPT ![c] = asked[c]],
               shown' = [shown EXCEPT ![c] = NoUser]
        PROVE  Own'
    <3>1. /\ found[c] \in UserIds /\ asked[c] \in RegisterDto /\ user[found[c]] = asked[c]
          /\ stored'[t].user = found[c]
      BY <1>5, <1>0, <2>4 DEF CreateRefreshToken, SignAccessToken, Draw, TypeOK
    <3>2. \A d \in Clients \ {c} : refresh[d] # t
      BY NoneAssumption DEF TypeOK
    <3>3. \A d \in Clients \ {c} :
            /\ access'[d] = access[d] /\ refresh'[d] = refresh[d]
            /\ proved'[d] = proved[d] /\ shown'[d] = shown[d]
            /\ stored'[refresh[d]] = stored[refresh[d]]
      BY <2>4, <3>2 DEF TypeOK
    <3>4. Proved'
      BY <2>4, <3>1, <3>3 DEF Own, Proved, TypeOK
    <3>5. TokensAreOwn'
      BY <2>1, <2>2, <2>4, <3>1, <3>3 DEF Own, TokensAreOwn, TypeOK
    <3>6. QED
      BY <3>4, <3>5 DEF Own
  <2>5. QED
    BY <1>5, <2>3, <2>4 DEF CreateRefreshToken, SignAccessToken, Draw
<1>6. ASSUME NEW c \in Clients, Refresh(c) PROVE Own'
  <2>1. \A d \in Clients : pc'[d] = "token" => user'[found'[d]] = asked'[d]
    BY <1>6, <1>0 DEF Refresh, Goto, TypeOK
  <2>2. \A t \in Tokens : stored'[t] # NoToken => stored'[t] = stored[t]
    BY <1>6, RefuseRemoves DEF Refresh, TypeOK
  <2>3. QED
    BY <1>6, <2>1, <2>2, OwnStays DEF Refresh
<1>7. ASSUME NEW c \in Clients, RefreshAgain(c) PROVE Own'
  <2>1. \A d \in Clients : pc'[d] = "token" => user'[found'[d]] = asked'[d]
    BY <1>7, <1>0 DEF RefreshAgain, SignAccessToken, Goto, Answer, TypeOK
  <2>2. refresh[c] \in made /\ UNCHANGED <<user, made, refresh, proved, shown, loggedOut>>
    BY <1>7 DEF RefreshAgain, SignAccessToken, TypeOK, RequestOK
  <2>3. PICK salt \in Salts :
          \/ /\ \E t \in Matching(refresh[c], salt) :
                  ~ Expired(t) /\ access' = [access EXCEPT ![c] = stored[t].user]
             /\ UNCHANGED <<stored, refused>>
          \/ Refuse(refresh[c], Matching(refresh[c], salt)) /\ UNCHANGED access
    BY <1>7 DEF RefreshAgain, SignAccessToken
  <2>4. CASE Refuse(refresh[c], Matching(refresh[c], salt)) /\ UNCHANGED access
    BY <2>1, <2>2, <2>4, RefuseRemoves, OwnStays
  <2>5. ASSUME NEW t \in Matching(refresh[c], salt), UNCHANGED <<stored, refused>>,
               access' = [access EXCEPT ![c] = stored[t].user]
        PROVE  Own'
    <3>1. t \in Tokens /\ t = refresh[c] /\ refresh[c] # NoToken /\ stored[t] # NoToken
      BY <1>7, MatchingIsOwn DEF RefreshAgain, SignAccessToken, TypeOK, RequestOK
    <3>2. user[stored[t].user] = proved[c] /\ proved[c] \in RegisterDto
      BY <3>1 DEF Own, Proved, TokensAreOwn
    <3>3. QED
      BY <2>1, <2>2, <2>5, <3>2 DEF Own, Proved, TokensAreOwn, TypeOK
  <2>6. QED
    BY <2>3, <2>4, <2>5
<1>8. ASSUME NEW c \in Clients, Logout(c) PROVE Own'
  BY <1>8, <1>0, OwnStays DEF Logout
<1>9. ASSUME NEW c \in Clients, Me(c) PROVE Own'
  BY <1>9, <1>0 DEF Me, Own, Proved, TokensAreOwn, TypeOK
<1>10. ASSUME NEW c \in Clients, ExpireAccess(c) PROVE Own'
  BY <1>10, <1>0 DEF ExpireAccess, Own, Proved, TokensAreOwn, TypeOK
<1>11. ASSUME NEW t \in Tokens, ExpireRefresh(t) PROVE Own'
  <2>1. \A s \in Tokens : stored'[s] # NoToken =>
          stored[s] # NoToken /\ stored'[s].user = stored[s].user
    BY <1>11, ExpiredRow DEF ExpireRefresh, TypeOK
  <2>2. QED
    BY <1>11, <1>0, <2>1, OwnStays DEF ExpireRefresh
<1>12. CASE UNCHANGED vars
  BY <1>12, <1>0, OwnStays DEF vars
<1>13. QED
  BY <1>1, <1>2, <1>3, <1>4, <1>5, <1>6, <1>7, <1>8, <1>9, <1>10, <1>11, <1>12 DEF Next,
     LoginDto, RegisterDto

\* A client's tokens open the user whose address and password it gave, and no other.
THEOREM TokensAreTheirOwners == Spec => []TokensAreOwn
<1>1. Init => Own
  BY DEF Init, Nothing, Own, Proved, TokensAreOwn
<1>2. TypeOK /\ Own /\ [Next]_vars => Own'
  BY TypeInductive, OnlyInsertAdds, OwnInductive
<1>3. Own => TokensAreOwn
  BY DEF Own
<1>4. QED
  BY <1>1, <1>2, <1>3, TypeInvariant, PTL DEF Spec

-----------------------------------------------------------------------------
(***************************************************************************)
(* What fails: ValidTokensRefresh is violated because argon2 draws a salt  *)
(* for each hash.  Were there one salt, as for any hash that its value     *)
(* determines, valid tokens would refresh and a logout would delete: the   *)
(* salt is all that is wrong.                                              *)
(***************************************************************************)
OneSalt == \A x, y \in Salts : x = y

\* A token that has been logged out is stored no more.
LoggedOutIsGone == \A t \in loggedOut : stored[t] = NoToken

\* With one salt the row of a value is found.
LEMMA StoredIsFound ==
  ASSUME TypeOK, OneSalt, NEW value \in Tokens, NEW salt \in Salts, stored[value] # NoToken
  PROVE  value \in Matching(value, salt)
<1>1. stored[value] \in RefreshTokenEntity /\ stored[value].hash[1] = value
  BY DEF TypeOK
<1>2. stored[value].hash = <<value, salt>>
  BY <1>1 DEF RefreshTokenEntity, Hash, OneSalt
<1> QED BY <1>2 DEF Matching

\* So no valid token is refused.
LEMMA RefusedIsInvalid ==
  ASSUME TypeOK, OneSalt, NEW value \in Tokens, NEW salt \in Salts,
         Refuse(value, Matching(value, salt))
  PROVE  refused' = refused
BY StoredIsFound DEF Refuse, Valid

Sound == ValidTokensRefresh /\ LoggedOutIsGone

LEMMA SoundInductive == OneSalt /\ TypeOK /\ Sound /\ [Next]_vars => Sound'
<1> SUFFICES ASSUME OneSalt, TypeOK, Sound, [Next]_vars
             PROVE  Sound'
  OBVIOUS
<1> USE DEF database, history, Sound, ValidTokensRefresh
<1>0. loggedOut \subseteq Tokens
  BY DEF TypeOK
<1>1. ASSUME NEW c \in Clients, CreateRefreshToken(c) PROVE Sound'
  <2>1. \A t \in Tokens : stored'[t] = stored[t] \/ t \notin made
    BY <1>1 DEF CreateRefreshToken, SignAccessToken, Draw, TypeOK
  <2> QED BY <1>0, <1>1, <2>1 DEF CreateRefreshToken, SignAccessToken, Draw,
             LoggedOutIsGone, TypeOK
<1>2. ASSUME NEW c \in Clients, Refresh(c) \/ RefreshAgain(c) PROVE Sound'
  <2>1. refresh[c] \in Tokens /\ loggedOut' = loggedOut /\ refresh[c] \in made
    BY <1>2 DEF Refresh, RefreshAgain, SignAccessToken, TypeOK, RequestOK
  <2>2. PICK salt \in Salts :
          \/ UNCHANGED <<stored, refused>>
          \/ Refuse(refresh[c], Matching(refresh[c], salt))
    BY <1>2 DEF Refresh, RefreshAgain, SignAccessToken
  <2>3. CASE Refuse(refresh[c], Matching(refresh[c], salt))
    <3>1. refused' = refused
      BY <2>1, <2>3, RefusedIsInvalid
    <3>2. \A t \in Tokens : stored'[t] # NoToken => stored'[t] = stored[t]
      BY <2>1, <2>3, RefuseRemoves
    <3> QED BY <1>0, <2>1, <3>1, <3>2 DEF LoggedOutIsGone
  <2> QED BY <2>1, <2>2, <2>3 DEF LoggedOutIsGone
<1>3. ASSUME NEW c \in Clients, Logout(c) PROVE Sound'
  <2>1. /\ refresh[c] \in Tokens /\ loggedOut' = loggedOut \cup {refresh[c]}
        /\ refused' = refused
    BY <1>3 DEF Logout, TypeOK
  <2>2. PICK salt \in Salts :
          stored' = [t \in Tokens |->
                       IF t \in Matching(refresh[c], salt) THEN NoToken ELSE stored[t]]
    BY <1>3 DEF Logout
  <2> QED BY <1>0, <2>1, <2>2, StoredIsFound DEF LoggedOutIsGone
<1>4. ASSUME NEW t \in Tokens, ExpireRefresh(t) PROVE Sound'
  BY <1>0, <1>4 DEF ExpireRefresh, LoggedOutIsGone, TypeOK
<1>5. CASE UNCHANGED <<stored, history>>
  BY <1>5 DEF LoggedOutIsGone
<1> QED
  BY <1>1, <1>2, <1>3, <1>4, <1>5
  DEF Next, Register, Login, CreateUser, InsertUser, Me, ExpireAccess, vars

\* With a hash that the value determines, a token that is stored, not expired and not
\* logged out always refreshes, and one that is logged out is gone, in the middle of
\* another request's refresh too.
THEOREM OneSaltSuffices == OneSalt /\ Spec => [](ValidTokensRefresh /\ LoggedOutIsGone)
<1>1. Init => Sound
  BY DEF Init, Sound, ValidTokensRefresh, LoggedOutIsGone
<1>2. OneSalt /\ TypeOK /\ Sound /\ [Next]_vars => Sound'
  BY SoundInductive
<1>3. OneSalt /\ Spec => []Sound
  <2> SUFFICES ASSUME OneSalt PROVE Spec => []Sound
    OBVIOUS
  <2>1. TypeOK /\ Sound /\ [Next]_vars => Sound'
    BY <1>2
  <2> QED BY <1>1, <2>1, TypeInvariant, PTL DEF Spec
<1>4. Sound => ValidTokensRefresh /\ LoggedOutIsGone
  BY DEF Sound
<1> QED BY <1>3, <1>4, PTL
=============================================================================
