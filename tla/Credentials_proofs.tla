------------------------- MODULE Credentials_proofs -------------------------
(* Proofs about Credentials: whoever shares a session, a login stays usable  *)
(* unless something gets lost, no request begins with an expired token, and  *)
(* one thread of a client at a time refreshes, for any number of processes,  *)
(* threads and logins and any lifetime of a token.                           *)
EXTENDS Credentials, TLAPS

-----------------------------------------------------------------------------
(* The inductive invariant.                                                  *)

\* A thread that refreshes has the credentials it has read in its hands.
HeldInv ==
  \A t \in Threads : pc[t] \in {"refresh", "writeoauth"} => held[t] \in OAuths

\* A thread that is to write has what the server has issued last; the session,
\* and whoever else is about to refresh that login, have something older.
WriterInv(t) ==
  LET h == held[t] IN
  /\ h.gen = gen[h.grant] /\ h.gen > 0
  /\ oauth # None /\ oauth.grant = h.grant => oauth.gen < h.gen
  /\ \A u \in Threads :
       /\ pc[u] = "refresh" /\ held[u].grant = h.grant => held[u].gen < h.gen
       /\ pc[u] = "writeoauth" /\ held[u].grant = h.grant => u = t

\* Nobody has a refresh token the server has not issued yet.
GenInv ==
  /\ oauth # None => oauth.gen <= gen[oauth.grant]
  /\ \A t \in Threads : pc[t] = "refresh" => held[t].gen <= gen[held[t].grant]
  /\ \A t \in Threads : pc[t] = "writeoauth" => WriterInv(t)

\* The token a client keeps is good for as long as its provider says, except
\* between an exchange and its write.
KeptInv ==
  \A c \in Clients :
    ocred[c] # None /\ ~lost =>
      \/ ocred[c] >= oexp[c] \/ Expired(oexp[c])
      \/ \E t \in Threads : Owner[t] = c /\ pc[t] = "writeoauth"
\* What a thread is to write is what it has told the provider.
WriteInv ==
  \A t \in Threads : pc[t] = "writeoauth" =>
    held[t].exp = oexp[Owner[t]] /\ held[t].exp >= began[t]
TimeInv ==
  \A t \in Threads :
    /\ began[t] <= now
    /\ pc[t] = "storejwt" => fresh[t] >= began[t]
    /\ pc[t] = "getjwt" => ocred[Owner[t]] # None

IInv ==
  /\ TypeOK /\ HeldInv /\ OneRetrieves
  /\ GenInv /\ LoginKept
  /\ KeptInv /\ WriteInv /\ TimeInv /\ FreshToken

\* The mutex of a client is held by none but its own threads.
HolderInv == \A c \in Clients : lock[c] # None =>
  \E t \in Threads : lock[c] = t /\ Owner[t] = c
\* Where a thread is in the chain of providers: the order they are asked in.
Place(where) ==
  [idle |-> 11, wait |-> 0, env |-> 1, envrefresh |-> 2, config |-> 3,
   configrefresh |-> 4, writejwt |-> 5, api |-> 6, refresh |-> 7, writeoauth |-> 8,
   getjwt |-> 9, storejwt |-> 10, send |-> 11][where]
Asks(t) == pc[t] \notin {"idle", "wait", "send"}

\* Whoever waits for the mutex can have it, or waits for a thread of its client
\* that asks the providers.
Served ==
  \A t \in Threads : pc[t] = "wait" =>
    \/ lock[Owner[t]] = None
    \/ \E u \in Threads : Asks(u) /\ Owner[u] = Owner[t] /\ lock[Owner[t]] = u

\* A thread that asks goes down the chain and never back, and it has given the
\* mutex back when it leaves it.
DownTheChain ==
  \A t \in Threads : Asks(t) =>
    /\ Retrieve(t) \/ pc'[t] # pc[t] => Place(pc[t]) < Place(pc'[t])
    /\ Asks(t)' \/ lock'[Owner[t]] # t

\* The constants are told apart.
LEMMA Constants ==
  /\ None \notin Threads /\ None \notin Nat
  /\ None \notin OAuths /\ None \notin JWTs
  /\ Lifetime \in Nat /\ MaxGen \in Nat /\ MaxTime \in Nat
  /\ FirstGrant \in Grants /\ Owner \in [Threads -> Clients]
  /\ EnvJWT \in [Clients -> JWTs \cup {None}]
BY NoneAssumption, TimeAssumption, GrantAssumption, OwnerAssumption, EnvAssumption
\* What a section of the session holds.
LEMMA OAuthFields ==
  /\ \A h \in OAuths : h.grant \in Grants /\ h.gen \in Nat /\ h.exp \in Nat
  /\ \A g \in Grants, i, e \in Nat : [grant |-> g, gen |-> i, exp |-> e] \in OAuths
BY DEF OAuths
\* What a section of the session, or the environment, holds.
LEMMA JWTFields ==
  /\ \A j \in JWTs : j.exp \in Nat
  /\ \A e \in Nat, s \in BOOLEAN : [exp |-> e, secret |-> s] \in JWTs
BY DEF JWTs

\* The initial state satisfies the invariant.
LEMMA InitIInv == Init => IInv
<1> SUFFICES ASSUME Init PROVE IInv
  OBVIOUS
<1>1. TypeOK
  <2>1. oauth \in OAuths \cup {None}
    BY Constants DEF Init, OAuths
  <2>2. jwt \in JWTs \cup {None}
    BY Constants DEF Init, JWTs
  <2>3. QED BY <2>1, <2>2, Constants DEF Init, TypeOK, Steps
<1>2. HeldInv /\ OneRetrieves /\ GenInv
  BY Constants DEF Init, HeldInv, OneRetrieves, GenInv
<1>3. LoginKept
  BY Constants DEF Init, LoginKept
<1>4. KeptInv /\ WriteInv /\ TimeInv /\ FreshToken
  BY Constants DEF Init, KeptInv, WriteInv, TimeInv, FreshToken
<1>5. QED BY <1>1, <1>2, <1>3, <1>4 DEF IInv

\* What the server gives for a refresh token.
LEMMA ExchangedFields ==
  ASSUME now \in Nat, NEW h \in OAuths
  PROVE  /\ Exchanged(h) \in OAuths
         /\ Exchanged(h).grant = h.grant /\ Exchanged(h).gen = h.gen + 1
         /\ Exchanged(h).exp = now + Lifetime /\ Exchanged(h).exp \in Nat
<1>1. h.grant \in Grants /\ h.gen + 1 \in Nat /\ now + Lifetime \in Nat
  BY OAuthFields, Constants
<1>2. QED BY <1>1, OAuthFields DEF Exchanged

-----------------------------------------------------------------------------
\* Every step keeps the state well typed.
LEMMA StepTypeOK ==
  ASSUME TypeOK, HeldInv, [Next]_vars
  PROVE  TypeOK'
<1> USE Constants DEF TypeOK, Steps, clientVars, Goes, Fails, Forgets, Got, Takes, Kept
<1>1. ASSUME NEW t \in Threads, Call(t) PROVE TypeOK'
  BY <1>1 DEF Call
<1>2. ASSUME NEW t \in Threads, Cached(t) PROVE TypeOK'
  BY <1>2 DEF Cached
<1>3. ASSUME NEW t \in Threads, Lock(t) PROVE TypeOK'
  BY <1>3 DEF Lock
<1>4. ASSUME NEW t \in Threads, Env(t) PROVE TypeOK'
  BY <1>4 DEF Env, JWTs, Refreshes, Valid
<1>5. ASSUME NEW t \in Threads, EnvRefresh(t) PROVE TypeOK'
  BY <1>5 DEF EnvRefresh, Issued, Valid
<1>6. ASSUME NEW t \in Threads, Config(t) PROVE TypeOK'
  BY <1>6 DEF Config, JWTs, Refreshes, Valid
<1>7. ASSUME NEW t \in Threads, ConfigRefresh(t) PROVE TypeOK'
  BY <1>7 DEF ConfigRefresh, Issued
<1>8. ASSUME NEW t \in Threads, WriteRefreshed(t) PROVE TypeOK'
  <2>1. fresh[t] \in Nat
    OBVIOUS
  <2>2. [exp |-> fresh[t], secret |-> TRUE] \in JWTs
    BY <2>1, JWTFields
  <2>3. jwt' \in JWTs \cup {None}
    BY <1>8, <2>2 DEF WriteRefreshed
  <2>4. QED BY <1>8, <2>1, <2>3 DEF WriteRefreshed
<1>9. ASSUME NEW t \in Threads, Api(t) PROVE TypeOK'
  BY <1>9 DEF Api, OAuths
<1>10. ASSUME NEW t \in Threads, Refresh(t) PROVE TypeOK'
  <2>1. held[t] \in OAuths /\ pc[t] = "refresh"
    BY <1>10 DEF Refresh, HeldInv
  <2>2. /\ held[t].grant \in Grants /\ held[t].gen \in Nat
        /\ Exchanged(held[t]) \in OAuths
        /\ Exchanged(held[t]).grant = held[t].grant
        /\ Exchanged(held[t]).gen = held[t].gen + 1
        /\ Exchanged(held[t]).exp = now + Lifetime
    BY <2>1, ExchangedFields, OAuthFields
  <2>3. gen' \in [Grants -> Nat]
    BY <1>10, <2>2 DEF Refresh
  <2>4. held' \in [Threads -> OAuths \cup {None}] /\ oexp' \in [Clients -> Nat]
    BY <1>10, <2>2 DEF Refresh
  <2>5. fresh' \in [Threads -> Nat] /\ began' \in [Threads -> Nat]
    BY <1>10, <2>2 DEF Refresh
  <2>6. lock' \in [Clients -> Threads \cup {None}] /\ pc' \in [Threads -> Steps]
    BY <1>10, <2>2 DEF Refresh
  <2>7. lost' \in BOOLEAN /\ UNCHANGED <<now, oauth, jwt, cred, ocred>>
    BY <1>10, <2>2 DEF Refresh
  <2>8. QED BY <2>3, <2>4, <2>5, <2>6, <2>7
<1>11. ASSUME NEW t \in Threads, WriteOAuth(t) PROVE TypeOK'
  <2>1. held[t] \in OAuths
    BY <1>11 DEF WriteOAuth, HeldInv
  <2>2. held[t].exp \in Nat
    BY <2>1, OAuthFields
  <2>3. oauth' \in OAuths \cup {None} /\ ocred' \in [Clients -> Nat \cup {None}]
    BY <1>11, <2>1, <2>2 DEF WriteOAuth
  <2>4. held' \in [Threads -> OAuths \cup {None}]
    BY <1>11 DEF WriteOAuth
  <2>5. fresh' \in [Threads -> Nat] /\ began' \in [Threads -> Nat]
    BY <1>11 DEF WriteOAuth
  <2>6. lock' \in [Clients -> Threads \cup {None}] /\ pc' \in [Threads -> Steps]
    BY <1>11 DEF WriteOAuth
  <2>7. lost' \in BOOLEAN /\ UNCHANGED <<now, gen, jwt, cred, oexp>>
    BY <1>11 DEF WriteOAuth
  <2>8. QED BY <2>3, <2>4, <2>5, <2>6, <2>7
<1>12. ASSUME NEW t \in Threads, GetJWT(t) PROVE TypeOK'
  BY <1>12 DEF GetJWT, Issued
<1>13. ASSUME NEW t \in Threads, StoreJWT(t) PROVE TypeOK'
  <2>1. fresh[t] \in Nat
    OBVIOUS
  <2>2. [exp |-> fresh[t], secret |-> FALSE] \in JWTs
    BY <2>1, JWTFields
  <2>3. jwt' \in JWTs \cup {None}
    BY <1>13, <2>2 DEF StoreJWT
  <2>4. QED BY <1>13, <2>1, <2>3 DEF StoreJWT
<1>14. ASSUME NEW t \in Threads, Send(t) PROVE TypeOK'
  BY <1>14 DEF Send
<1>15. ASSUME NEW g \in Grants, Login(g) PROVE TypeOK'
  BY <1>15 DEF Login, OAuths
<1>16. ASSUME NEW c \in Clients, Exit(c) PROVE TypeOK'
  BY <1>16 DEF Exit
<1>17. CASE Tick
  BY <1>17 DEF Tick
<1>18. CASE UNCHANGED vars
  BY <1>18 DEF vars
<1>19. QED
  BY <1>1, <1>2, <1>3, <1>4, <1>5, <1>6, <1>7, <1>8, <1>9, <1>10,
     <1>11, <1>12, <1>13, <1>14, <1>15, <1>16, <1>17, <1>18
     DEF Next, Retrieve

\* A thread refreshes what it has read.
LEMMA StepHeld ==
  ASSUME TypeOK, HeldInv, [Next]_vars
  PROVE  HeldInv'
<1> USE Constants DEF TypeOK, HeldInv, clientVars, Goes, Fails, Forgets, Got, Takes, Kept
<1>1. ASSUME NEW t \in Threads, Call(t) PROVE HeldInv'
  BY <1>1 DEF Call
<1>2. ASSUME NEW t \in Threads, Cached(t) PROVE HeldInv'
  BY <1>2 DEF Cached
<1>3. ASSUME NEW t \in Threads, Lock(t) PROVE HeldInv'
  BY <1>3 DEF Lock
<1>4. ASSUME NEW t \in Threads, Env(t) PROVE HeldInv'
  BY <1>4 DEF Env
<1>5. ASSUME NEW t \in Threads, EnvRefresh(t) PROVE HeldInv'
  BY <1>5 DEF EnvRefresh
<1>6. ASSUME NEW t \in Threads, Config(t) PROVE HeldInv'
  BY <1>6 DEF Config
<1>7. ASSUME NEW t \in Threads, ConfigRefresh(t) PROVE HeldInv'
  BY <1>7 DEF ConfigRefresh
<1>8. ASSUME NEW t \in Threads, WriteRefreshed(t) PROVE HeldInv'
  BY <1>8 DEF WriteRefreshed
<1>9. ASSUME NEW t \in Threads, Api(t) PROVE HeldInv'
  BY <1>9 DEF Api
<1>10. ASSUME NEW t \in Threads, Refresh(t) PROVE HeldInv'
  <2>1. held[t] \in OAuths /\ pc[t] = "refresh"
    BY <1>10 DEF Refresh, HeldInv
  <2>2. /\ held[t].grant \in Grants /\ held[t].gen \in Nat
        /\ Exchanged(held[t]) \in OAuths
        /\ Exchanged(held[t]).grant = held[t].grant
        /\ Exchanged(held[t]).gen = held[t].gen + 1
        /\ Exchanged(held[t]).exp = now + Lifetime
    BY <2>1, ExchangedFields, OAuthFields
  <2>3. QED BY <1>10, <2>2 DEF Refresh
<1>11. ASSUME NEW t \in Threads, WriteOAuth(t) PROVE HeldInv'
  BY <1>11 DEF WriteOAuth
<1>12. ASSUME NEW t \in Threads, GetJWT(t) PROVE HeldInv'
  BY <1>12 DEF GetJWT
<1>13. ASSUME NEW t \in Threads, StoreJWT(t) PROVE HeldInv'
  BY <1>13 DEF StoreJWT
<1>14. ASSUME NEW t \in Threads, Send(t) PROVE HeldInv'
  BY <1>14 DEF Send
<1>15. ASSUME NEW g \in Grants, Login(g) PROVE HeldInv'
  BY <1>15 DEF Login
<1>16. ASSUME NEW c \in Clients, Exit(c) PROVE HeldInv'
  BY <1>16 DEF Exit
<1>17. CASE Tick
  BY <1>17 DEF Tick
<1>18. CASE UNCHANGED vars
  BY <1>18 DEF vars
<1>19. QED
  BY <1>1, <1>2, <1>3, <1>4, <1>5, <1>6, <1>7, <1>8, <1>9, <1>10,
     <1>11, <1>12, <1>13, <1>14, <1>15, <1>16, <1>17, <1>18
     DEF Next, Retrieve

\* The mutex goes to one thread of the client.
LEMMA StepLock ==
  ASSUME TypeOK, OneRetrieves, [Next]_vars
  PROVE  OneRetrieves'
<1> USE Constants DEF TypeOK, Steps, OneRetrieves, clientVars, Goes, Fails, Forgets, Got, Takes, Kept
<1>1. ASSUME NEW t \in Threads, Call(t) PROVE OneRetrieves'
  BY <1>1 DEF Call
<1>2. ASSUME NEW t \in Threads, Cached(t) PROVE OneRetrieves'
  BY <1>2 DEF Cached
<1>3. ASSUME NEW t \in Threads, Lock(t) PROVE OneRetrieves'
  BY <1>3 DEF Lock
<1>4. ASSUME NEW t \in Threads, Env(t) PROVE OneRetrieves'
  BY <1>4 DEF Env
<1>5. ASSUME NEW t \in Threads, EnvRefresh(t) PROVE OneRetrieves'
  BY <1>5 DEF EnvRefresh
<1>6. ASSUME NEW t \in Threads, Config(t) PROVE OneRetrieves'
  BY <1>6 DEF Config
<1>7. ASSUME NEW t \in Threads, ConfigRefresh(t) PROVE OneRetrieves'
  BY <1>7 DEF ConfigRefresh
<1>8. ASSUME NEW t \in Threads, WriteRefreshed(t) PROVE OneRetrieves'
  BY <1>8 DEF WriteRefreshed
<1>9. ASSUME NEW t \in Threads, Api(t) PROVE OneRetrieves'
  BY <1>9 DEF Api
<1>10. ASSUME NEW t \in Threads, Refresh(t) PROVE OneRetrieves'
  BY <1>10 DEF Refresh
<1>11. ASSUME NEW t \in Threads, WriteOAuth(t) PROVE OneRetrieves'
  BY <1>11 DEF WriteOAuth
<1>12. ASSUME NEW t \in Threads, GetJWT(t) PROVE OneRetrieves'
  BY <1>12 DEF GetJWT
<1>13. ASSUME NEW t \in Threads, StoreJWT(t) PROVE OneRetrieves'
  BY <1>13 DEF StoreJWT
<1>14. ASSUME NEW t \in Threads, Send(t) PROVE OneRetrieves'
  BY <1>14 DEF Send
<1>15. ASSUME NEW g \in Grants, Login(g) PROVE OneRetrieves'
  BY <1>15 DEF Login
<1>16. ASSUME NEW c \in Clients, Exit(c) PROVE OneRetrieves'
  BY <1>16 DEF Exit
<1>17. CASE Tick
  BY <1>17 DEF Tick
<1>18. CASE UNCHANGED vars
  BY <1>18 DEF vars
<1>19. QED
  BY <1>1, <1>2, <1>3, <1>4, <1>5, <1>6, <1>7, <1>8, <1>9, <1>10,
     <1>11, <1>12, <1>13, <1>14, <1>15, <1>16, <1>17, <1>18
     DEF Next, Retrieve

\* The mutex is only taken by, and kept for, a thread of the client.
LEMMA StepHolder ==
  ASSUME TypeOK, HolderInv, [Next]_vars
  PROVE  HolderInv'
<1> USE Constants DEF TypeOK, Steps, HolderInv, clientVars, Goes, Fails, Forgets, Got, Takes, Kept
<1>1. ASSUME NEW t \in Threads, Call(t) PROVE HolderInv'
  BY <1>1 DEF Call
<1>2. ASSUME NEW t \in Threads, Cached(t) PROVE HolderInv'
  BY <1>2 DEF Cached
<1>3. ASSUME NEW t \in Threads, Lock(t) PROVE HolderInv'
  BY <1>3 DEF Lock
<1>4. ASSUME NEW t \in Threads, Env(t) PROVE HolderInv'
  BY <1>4 DEF Env
<1>5. ASSUME NEW t \in Threads, EnvRefresh(t) PROVE HolderInv'
  BY <1>5 DEF EnvRefresh
<1>6. ASSUME NEW t \in Threads, Config(t) PROVE HolderInv'
  BY <1>6 DEF Config
<1>7. ASSUME NEW t \in Threads, ConfigRefresh(t) PROVE HolderInv'
  BY <1>7 DEF ConfigRefresh
<1>8. ASSUME NEW t \in Threads, WriteRefreshed(t) PROVE HolderInv'
  BY <1>8 DEF WriteRefreshed
<1>9. ASSUME NEW t \in Threads, Api(t) PROVE HolderInv'
  BY <1>9 DEF Api
<1>10. ASSUME NEW t \in Threads, Refresh(t) PROVE HolderInv'
  BY <1>10 DEF Refresh
<1>11. ASSUME NEW t \in Threads, WriteOAuth(t) PROVE HolderInv'
  BY <1>11 DEF WriteOAuth
<1>12. ASSUME NEW t \in Threads, GetJWT(t) PROVE HolderInv'
  BY <1>12 DEF GetJWT
<1>13. ASSUME NEW t \in Threads, StoreJWT(t) PROVE HolderInv'
  BY <1>13 DEF StoreJWT
<1>14. ASSUME NEW t \in Threads, Send(t) PROVE HolderInv'
  BY <1>14 DEF Send
<1>15. ASSUME NEW g \in Grants, Login(g) PROVE HolderInv'
  BY <1>15 DEF Login
<1>16. ASSUME NEW c \in Clients, Exit(c) PROVE HolderInv'
  BY <1>16 DEF Exit
<1>17. CASE Tick
  BY <1>17 DEF Tick
<1>18. CASE UNCHANGED vars
  BY <1>18 DEF vars
<1>19. QED
  BY <1>1, <1>2, <1>3, <1>4, <1>5, <1>6, <1>7, <1>8, <1>9, <1>10,
     <1>11, <1>12, <1>13, <1>14, <1>15, <1>16, <1>17, <1>18
     DEF Next, Retrieve

\* A step of a thread that asks is one down the chain, and moves no other thread.
LEMMA RetrieveGoesDown ==
  ASSUME TypeOK, NEW t \in Threads, Retrieve(t)
  PROVE  \E where \in Steps :
           Goes(t, where) /\ Asks(t) /\ Place(pc[t]) < Place(where)
<1> USE Constants DEF TypeOK, Steps, Place, Asks, Goes, Fails, Got
<1>1. CASE Env(t)
  BY <1>1 DEF Env
<1>2. CASE EnvRefresh(t)
  BY <1>2 DEF EnvRefresh
<1>3. CASE Config(t)
  BY <1>3 DEF Config
<1>4. CASE ConfigRefresh(t)
  BY <1>4 DEF ConfigRefresh
<1>5. CASE WriteRefreshed(t)
  BY <1>5 DEF WriteRefreshed
<1>6. CASE Api(t)
  BY <1>6 DEF Api
<1>7. CASE Refresh(t)
  BY <1>7 DEF Refresh
<1>8. CASE WriteOAuth(t)
  BY <1>8 DEF WriteOAuth
<1>9. CASE GetJWT(t)
  BY <1>9 DEF GetJWT
<1>10. CASE StoreJWT(t)
  BY <1>10 DEF StoreJWT
<1>11. QED
  BY <1>1, <1>2, <1>3, <1>4, <1>5, <1>6, <1>7, <1>8, <1>9, <1>10 DEF Retrieve

\* Every step keeps a thread that asks where it is, takes it down the chain, or
\* ends its process.
LEMMA StepChain ==
  ASSUME TypeOK, OneRetrieves', Next
  PROVE  DownTheChain
<1> SUFFICES ASSUME NEW t \in Threads, Asks(t)
             PROVE  /\ Retrieve(t) \/ pc'[t] # pc[t] => Place(pc[t]) < Place(pc'[t])
                    /\ Asks(t)' \/ lock'[Owner[t]] # t
  BY DEF DownTheChain
<1>1. Asks(t)' \/ lock'[Owner[t]] # t
  BY DEF OneRetrieves, Asks
<1>2. Retrieve(t) => Place(pc[t]) < Place(pc'[t])
  <2> SUFFICES ASSUME Retrieve(t) PROVE Place(pc[t]) < Place(pc'[t])
    OBVIOUS
  <2>1. PICK where \in Steps : Goes(t, where) /\ Place(pc[t]) < Place(where)
    BY RetrieveGoesDown
  <2>2. pc'[t] = where
    BY <2>1 DEF Goes, TypeOK
  <2>3. QED BY <2>1, <2>2
<1>3. pc'[t] # pc[t] => Retrieve(t) \/ pc'[t] = "idle"
  <2>1. CASE \E u \in Threads : Call(u) \/ Cached(u) \/ Lock(u) \/ Send(u)
    BY <2>1 DEF Call, Cached, Lock, Send, Takes, Goes, Asks, TypeOK
  <2>2. ASSUME NEW u \in Threads, Retrieve(u), u # t PROVE pc'[t] = pc[t]
    <3>1. PICK where \in Steps : Goes(u, where)
      BY <2>2, RetrieveGoesDown
    <3>2. QED BY <2>2, <3>1 DEF Goes, TypeOK
  <2>3. CASE \E c \in Clients : Exit(c)
    BY <2>3 DEF Exit, TypeOK
  <2>4. CASE Tick \/ \E g \in Grants : Login(g)
    BY <2>4 DEF Tick, Login
  <2>5. QED BY <2>1, <2>2, <2>3, <2>4 DEF Next
<1>4. Place(pc[t]) < Place("idle")
  BY DEF Place, Asks, TypeOK, Steps
<1>5. QED BY <1>1, <1>2, <1>3, <1>4

\* A refresh token is exchanged once, and its successor is written.
LEMMA StepGen ==
  ASSUME TypeOK, HeldInv, GenInv, LoginKept, [Next]_vars
  PROVE  GenInv' /\ LoginKept'
<1> USE Constants DEF TypeOK, HeldInv, GenInv, WriterInv, LoginKept, clientVars, Goes, Fails, Forgets, Got, Takes, Kept
<1>1. ASSUME NEW t \in Threads, Call(t) PROVE GenInv' /\ LoginKept'
  BY <1>1 DEF Call
<1>2. ASSUME NEW t \in Threads, Cached(t) PROVE GenInv' /\ LoginKept'
  BY <1>2 DEF Cached
<1>3. ASSUME NEW t \in Threads, Lock(t) PROVE GenInv' /\ LoginKept'
  BY <1>3 DEF Lock
<1>4. ASSUME NEW t \in Threads, Env(t) PROVE GenInv' /\ LoginKept'
  BY <1>4 DEF Env
<1>5. ASSUME NEW t \in Threads, EnvRefresh(t) PROVE GenInv' /\ LoginKept'
  BY <1>5 DEF EnvRefresh
<1>6. ASSUME NEW t \in Threads, Config(t) PROVE GenInv' /\ LoginKept'
  BY <1>6 DEF Config
<1>7. ASSUME NEW t \in Threads, ConfigRefresh(t) PROVE GenInv' /\ LoginKept'
  BY <1>7 DEF ConfigRefresh
<1>8. ASSUME NEW t \in Threads, WriteRefreshed(t) PROVE GenInv' /\ LoginKept'
  BY <1>8 DEF WriteRefreshed
<1>9. ASSUME NEW t \in Threads, Api(t) PROVE GenInv' /\ LoginKept'
  BY <1>9 DEF Api
<1>10. ASSUME NEW t \in Threads, Refresh(t) PROVE GenInv' /\ LoginKept'
  <2>1. held[t] \in OAuths /\ pc[t] = "refresh"
    BY <1>10 DEF Refresh, HeldInv
  <2>2. /\ held[t].grant \in Grants /\ held[t].gen \in Nat
        /\ Exchanged(held[t]) \in OAuths
        /\ Exchanged(held[t]).grant = held[t].grant
        /\ Exchanged(held[t]).gen = held[t].gen + 1
        /\ Exchanged(held[t]).exp = now + Lifetime
    BY <2>1, ExchangedFields, OAuthFields
  <2>3. CASE gen' = gen
    BY <1>10, <2>1, <2>2, <2>3 DEF Refresh
  <2>4. CASE gen' # gen
    <3>1. /\ held[t].gen = gen[held[t].grant]
          /\ gen' = [gen EXCEPT ![held[t].grant] = held[t].gen + 1]
          /\ UNCHANGED oauth
      BY <1>10, <2>4 DEF Refresh
    <3>2. ASSUME NEW u \in Threads, pc[u] = "writeoauth" PROVE held[u].grant # held[t].grant
      <4>1. WriterInv(u)
        BY <3>2
      <4>2. held[t].grant = held[u].grant => held[t].gen < held[u].gen
        BY <4>1, <2>1
      <4>3. QED BY <4>1, <4>2, <2>2, <3>1
    <3>3. /\ \A u \in Threads : pc[u] \in {"refresh", "writeoauth"} =>
                held[u].grant \in Grants /\ held[u].gen \in Nat
          /\ oauth # None => oauth.grant \in Grants /\ oauth.gen \in Nat
      BY OAuthFields
    <3>4. \A u \in Threads \ {t} : pc'[u] = pc[u] /\ held'[u] = held[u]
      BY <1>10 DEF Refresh
    <3>5. \/ pc'[t] = "writeoauth" /\ held'[t] = Exchanged(held[t]) /\ lost' = lost
          \/ pc'[t] = "idle" /\ lost' = TRUE
      BY <1>10, <2>4 DEF Refresh
    <3>6. GenInv'
      BY <2>1, <2>2, <3>1, <3>2, <3>3, <3>4, <3>5
    <3>7. LoginKept'
      BY <2>1, <2>2, <3>1, <3>2, <3>3, <3>4, <3>5
    <3>8. QED BY <3>6, <3>7
  <2>5. QED BY <2>3, <2>4
<1>11. ASSUME NEW t \in Threads, WriteOAuth(t) PROVE GenInv' /\ LoginKept'
  BY <1>11 DEF WriteOAuth, OAuths
<1>12. ASSUME NEW t \in Threads, GetJWT(t) PROVE GenInv' /\ LoginKept'
  BY <1>12 DEF GetJWT
<1>13. ASSUME NEW t \in Threads, StoreJWT(t) PROVE GenInv' /\ LoginKept'
  BY <1>13 DEF StoreJWT
<1>14. ASSUME NEW t \in Threads, Send(t) PROVE GenInv' /\ LoginKept'
  BY <1>14 DEF Send
<1>15. ASSUME NEW g \in Grants, Login(g) PROVE GenInv' /\ LoginKept'
  BY <1>15 DEF Login, OAuths
<1>16. ASSUME NEW c \in Clients, Exit(c) PROVE GenInv' /\ LoginKept'
  BY <1>16 DEF Exit
<1>17. CASE Tick
  BY <1>17 DEF Tick
<1>18. CASE UNCHANGED vars
  BY <1>18 DEF vars
<1>19. QED
  BY <1>1, <1>2, <1>3, <1>4, <1>5, <1>6, <1>7, <1>8, <1>9, <1>10,
     <1>11, <1>12, <1>13, <1>14, <1>15, <1>16, <1>17, <1>18
     DEF Next, Retrieve

\* What a client keeps expires no later than its provider.
LEMMA StepKept ==
  ASSUME TypeOK, HeldInv, OneRetrieves, KeptInv, WriteInv, TimeInv, [Next]_vars
  PROVE  KeptInv' /\ WriteInv'
<1> USE Constants DEF TypeOK, HeldInv, OneRetrieves, KeptInv, WriteInv, TimeInv, Expired, clientVars, Goes, Fails, Forgets, Got, Takes, Kept
<1>1. ASSUME NEW t \in Threads, Call(t) PROVE KeptInv' /\ WriteInv'
  BY <1>1 DEF Call
<1>2. ASSUME NEW t \in Threads, Cached(t) PROVE KeptInv' /\ WriteInv'
  BY <1>2 DEF Cached
<1>3. ASSUME NEW t \in Threads, Lock(t) PROVE KeptInv' /\ WriteInv'
  BY <1>3 DEF Lock
<1>4. ASSUME NEW t \in Threads, Env(t) PROVE KeptInv' /\ WriteInv'
  BY <1>4 DEF Env
<1>5. ASSUME NEW t \in Threads, EnvRefresh(t) PROVE KeptInv' /\ WriteInv'
  BY <1>5 DEF EnvRefresh
<1>6. ASSUME NEW t \in Threads, Config(t) PROVE KeptInv' /\ WriteInv'
  BY <1>6 DEF Config
<1>7. ASSUME NEW t \in Threads, ConfigRefresh(t) PROVE KeptInv' /\ WriteInv'
  BY <1>7 DEF ConfigRefresh
<1>8. ASSUME NEW t \in Threads, WriteRefreshed(t) PROVE KeptInv' /\ WriteInv'
  BY <1>8 DEF WriteRefreshed
<1>9. ASSUME NEW t \in Threads, Api(t) PROVE KeptInv' /\ WriteInv'
  BY <1>9 DEF Api, OAuths
<1>10. ASSUME NEW t \in Threads, Refresh(t) PROVE KeptInv' /\ WriteInv'
  <2>1. held[t] \in OAuths /\ pc[t] = "refresh"
    BY <1>10 DEF Refresh, HeldInv
  <2>2. /\ held[t].grant \in Grants /\ held[t].gen \in Nat
        /\ Exchanged(held[t]) \in OAuths
        /\ Exchanged(held[t]).grant = held[t].grant
        /\ Exchanged(held[t]).gen = held[t].gen + 1
        /\ Exchanged(held[t]).exp = now + Lifetime
    BY <2>1, ExchangedFields, OAuthFields
  <2>3. QED BY <1>10, <2>1, <2>2 DEF Refresh
<1>11. ASSUME NEW t \in Threads, WriteOAuth(t) PROVE KeptInv' /\ WriteInv'
  <2>1. held[t] \in OAuths
    BY <1>11 DEF WriteOAuth, HeldInv
  <2>2. held[t].exp \in Nat
    BY <2>1, OAuthFields
  <2>3. QED BY <1>11, <2>1, <2>2 DEF WriteOAuth
<1>12. ASSUME NEW t \in Threads, GetJWT(t) PROVE KeptInv' /\ WriteInv'
  BY <1>12 DEF GetJWT
<1>13. ASSUME NEW t \in Threads, StoreJWT(t) PROVE KeptInv' /\ WriteInv'
  BY <1>13 DEF StoreJWT
<1>14. ASSUME NEW t \in Threads, Send(t) PROVE KeptInv' /\ WriteInv'
  BY <1>14 DEF Send
<1>15. ASSUME NEW g \in Grants, Login(g) PROVE KeptInv' /\ WriteInv'
  BY <1>15 DEF Login
<1>16. ASSUME NEW c \in Clients, Exit(c) PROVE KeptInv' /\ WriteInv'
  BY <1>16 DEF Exit
<1>17. CASE Tick
  BY <1>17 DEF Tick
<1>18. CASE UNCHANGED vars
  BY <1>18 DEF vars
<1>19. QED
  BY <1>1, <1>2, <1>3, <1>4, <1>5, <1>6, <1>7, <1>8, <1>9, <1>10,
     <1>11, <1>12, <1>13, <1>14, <1>15, <1>16, <1>17, <1>18
     DEF Next, Retrieve

\* A token is good at the time its request has begun.
LEMMA StepFresh ==
  ASSUME TypeOK, HeldInv, OneRetrieves, KeptInv, WriteInv, TimeInv, FreshToken, [Next]_vars
  PROVE  TimeInv' /\ FreshToken'
<1> USE Constants DEF TypeOK, HeldInv, OneRetrieves, KeptInv, WriteInv, TimeInv, FreshToken, Expired, Valid, clientVars, Goes, Fails, Forgets, Got, Takes, Kept
<1>1. ASSUME NEW t \in Threads, Call(t) PROVE TimeInv' /\ FreshToken'
  BY <1>1 DEF Call
<1>2. ASSUME NEW t \in Threads, Cached(t) PROVE TimeInv' /\ FreshToken'
  BY <1>2 DEF Cached
<1>3. ASSUME NEW t \in Threads, Lock(t) PROVE TimeInv' /\ FreshToken'
  BY <1>3 DEF Lock
<1>4. ASSUME NEW t \in Threads, Env(t) PROVE TimeInv' /\ FreshToken'
  BY <1>4 DEF Env, JWTs
<1>5. ASSUME NEW t \in Threads, EnvRefresh(t) PROVE TimeInv' /\ FreshToken'
  BY <1>5 DEF EnvRefresh, Issued
<1>6. ASSUME NEW t \in Threads, Config(t) PROVE TimeInv' /\ FreshToken'
  BY <1>6 DEF Config, JWTs
<1>7. ASSUME NEW t \in Threads, ConfigRefresh(t) PROVE TimeInv' /\ FreshToken'
  BY <1>7 DEF ConfigRefresh, Issued
<1>8. ASSUME NEW t \in Threads, WriteRefreshed(t) PROVE TimeInv' /\ FreshToken'
  BY <1>8 DEF WriteRefreshed
<1>9. ASSUME NEW t \in Threads, Api(t) PROVE TimeInv' /\ FreshToken'
  BY <1>9 DEF Api, OAuths
<1>10. ASSUME NEW t \in Threads, Refresh(t) PROVE TimeInv' /\ FreshToken'
  BY <1>10 DEF Refresh
<1>11. ASSUME NEW t \in Threads, WriteOAuth(t) PROVE TimeInv' /\ FreshToken'
  <2>1. held[t] \in OAuths
    BY <1>11 DEF WriteOAuth, HeldInv
  <2>2. held[t].exp \in Nat
    BY <2>1, OAuthFields
  <2>3. \A u \in Threads \ {t} : Owner[u] = Owner[t] =>
          pc'[u] = pc[u] /\ pc[u] \in {"idle", "wait", "send"}
    BY <1>11 DEF WriteOAuth
  <2>4. ASSUME NEW u \in Threads, u # t, Owner[u] # Owner[t]
        PROVE  /\ pc'[u] = pc[u] /\ fresh'[u] = fresh[u] /\ began'[u] = began[u]
               /\ ocred'[Owner[u]] = ocred[Owner[u]]
    BY <1>11, <2>4 DEF WriteOAuth
  <2>5. \/ /\ pc'[t] = "getjwt" /\ ocred'[Owner[t]] = held[t].exp
           /\ began' = began /\ fresh' = fresh /\ lost' = lost
        \/ /\ pc'[t] = "idle" /\ lost' = TRUE /\ began'[t] = 0
           /\ \A u \in Threads \ {t} : fresh'[u] = fresh[u] /\ began'[u] = began[u]
    BY <1>11 DEF WriteOAuth
  <2>6. UNCHANGED now /\ held[t].exp >= began[t]
    BY <1>11 DEF WriteOAuth
  <2>7. TimeInv'
    BY <2>2, <2>3, <2>4, <2>5, <2>6
  <2>8. FreshToken'
    BY <2>2, <2>3, <2>4, <2>5, <2>6
  <2>9. QED BY <2>7, <2>8
<1>12. ASSUME NEW t \in Threads, GetJWT(t) PROVE TimeInv' /\ FreshToken'
  BY <1>12 DEF GetJWT, Issued
<1>13. ASSUME NEW t \in Threads, StoreJWT(t) PROVE TimeInv' /\ FreshToken'
  BY <1>13 DEF StoreJWT
<1>14. ASSUME NEW t \in Threads, Send(t) PROVE TimeInv' /\ FreshToken'
  BY <1>14 DEF Send
<1>15. ASSUME NEW g \in Grants, Login(g) PROVE TimeInv' /\ FreshToken'
  BY <1>15 DEF Login
<1>16. ASSUME NEW c \in Clients, Exit(c) PROVE TimeInv' /\ FreshToken'
  BY <1>16 DEF Exit
<1>17. CASE Tick
  BY <1>17 DEF Tick
<1>18. CASE UNCHANGED vars
  BY <1>18 DEF vars
<1>19. QED
  BY <1>1, <1>2, <1>3, <1>4, <1>5, <1>6, <1>7, <1>8, <1>9, <1>10,
     <1>11, <1>12, <1>13, <1>14, <1>15, <1>16, <1>17, <1>18
     DEF Next, Retrieve

-----------------------------------------------------------------------------
(* The theorems.                                                             *)

\* The inductive invariant holds in every state.
THEOREM Invariance == Spec => []IInv
<1>1. IInv /\ [Next]_vars => IInv'
  BY StepTypeOK, StepHeld, StepLock, StepGen, StepKept, StepFresh DEF IInv
<1>2. QED BY InitIInv, <1>1, PTL DEF Spec

\* The state of the credentials is always well typed.
THEOREM CredentialsTyped == Spec => []TypeOK
<1>1. IInv => TypeOK
  BY DEF IInv
<1>2. QED BY Invariance, <1>1, PTL

\* The login in the session stays one the server will refresh, unless an answer or
\* a write got lost.
THEOREM LoginUsable == Spec => []LoginKept
<1>1. IInv => LoginKept
  BY DEF IInv
<1>2. QED BY Invariance, <1>1, PTL

\* No request begins with a token that had expired.
THEOREM Fresh == Spec => []FreshToken
<1>1. IInv => FreshToken
  BY DEF IInv
<1>2. QED BY Invariance, <1>1, PTL

\* One thread of a client at a time goes through the providers.
THEOREM Exclusive == Spec => []OneRetrieves
<1>1. IInv => OneRetrieves
  BY DEF IInv
<1>2. QED BY Invariance, <1>1, PTL

\* Nobody waits for a mutex that nobody will give back: its holder asks the
\* providers.
THEOREM MutexServed == Spec => []Served
<1>1. Init => HolderInv
  BY DEF Init, HolderInv
<1>2. IInv /\ HolderInv /\ [Next]_vars => HolderInv'
  BY StepHolder DEF IInv
<1>3. IInv /\ HolderInv => Served
  BY Constants DEF IInv, TypeOK, OneRetrieves, HolderInv, Served, Asks
<1>4. QED BY <1>1, <1>2, <1>3, Invariance, PTL DEF Spec

\* A thread asks each provider of the chain once and then gives the mutex back,
\* whether it has got a token or not.  With MutexServed it is what RequestEnds
\* needs beside fairness.
THEOREM ChainEnds == Spec => [][DownTheChain]_vars
<1>1. IInv /\ IInv' /\ [Next]_vars => [DownTheChain]_vars
  BY StepChain DEF IInv
<1>2. QED BY Invariance, <1>1, PTL DEF Spec
=============================================================================
