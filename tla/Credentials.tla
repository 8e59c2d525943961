---------------------------- MODULE Credentials ----------------------------
(***************************************************************************)
(* Where a request gets its JWT (nerd/jwt, nerd/oauth, getJWT of the batch *)
(* client and getOAuthAccessToken of the auth client).                     *)
(*                                                                         *)
(* The threads of a process share its batch client, which keeps one JWT    *)
(* and, under its mutex, asks the providers of a chain in turn when that   *)
(* has expired: the environment, the session file, and the auth API with   *)
(* the OAuth token of the session.  An OAuth token that has expired is     *)
(* exchanged with its refresh token, which is good for one exchange.       *)
(* Reading or writing a section of the session is one step, which          *)
(* SessionFile implements.  The 20 ns of DefaultExpireWindow are no time.  *)
(***************************************************************************)
EXTENDS Naturals

CONSTANTS
  Clients,        \* processes, each with its batch client
  Threads,        \* goroutines that make requests
  Owner,          \* the client of each
  Grants,         \* logins
  FirstGrant,     \* the login the session starts with
  None,           \* no login, no JWT, no thread
  EnvJWT,         \* per client: expiry and secret in the environment, or None
  Lifetime,       \* ticks for which a new token is good
  MaxTime,        \* bound on the ticks
  MaxGen          \* bound on the exchanges of a refresh token

\* Token and Secret: NERD_JWT and NERD_JWT_REFRESH_TOKEN, or section jwt.
JWTs == [exp : Nat, secret : BOOLEAN]
\* Section oauth.  The refresh token of a grant is the number of its exchanges.
OAuths == [grant : Grants, gen : Nat, exp : Nat]

ASSUME OwnerAssumption == Owner \in [Threads -> Clients]
ASSUME GrantAssumption == FirstGrant \in Grants
ASSUME EnvAssumption == EnvJWT \in [Clients -> JWTs \cup {None}]
ASSUME TimeAssumption == Lifetime \in Nat /\ MaxTime \in Nat /\ MaxGen \in Nat
ASSUME NoneAssumption ==
  None \notin JWTs \cup OAuths \cup Threads \cup Nat

VARIABLES
  now,            \* the clock, of everyone
  gen,            \* at the server: exchanges of each grant
  oauth, jwt,     \* sections of the session file
  cred,           \* the JWT getJWT keeps: its expiry, which is also the expiration of
                  \* ChainedJWTProvider.curr; None when there is none or curr is nil
  ocred, oexp,    \* the access token getOAuthAccessToken has kept: its expiry, and
                  \* the expiration of its provider
  lock,           \* the mutex of the batch client: who holds it
  pc,             \* where each thread is
  held,           \* the OAuth credentials it has read or is to write
  fresh,          \* the expiry of the JWT it has been given
  began,          \* when it took the mutex
  lost            \* a refresh token that was good has reached no session

clientVars == <<cred, ocred, oexp>>
vars == <<now, gen, oauth, jwt, clientVars, lock, pc, held, fresh, began, lost>>

Steps == {"idle", "wait", "env", "envrefresh", "config", "configrefresh", "writejwt",
          "api", "refresh", "writeoauth", "getjwt", "storejwt", "send"}

TypeOK ==
  /\ now \in Nat /\ gen \in [Grants -> Nat]
  /\ oauth \in OAuths \cup {None} /\ jwt \in JWTs \cup {None}
  /\ cred \in [Clients -> Nat \cup {None}] /\ ocred \in [Clients -> Nat \cup {None}]
  /\ oexp \in [Clients -> Nat]
  /\ lock \in [Clients -> Threads \cup {None}]
  /\ pc \in [Threads -> Steps]
  /\ held \in [Threads -> OAuths \cup {None}]
  /\ fresh \in [Threads -> Nat] /\ began \in [Threads -> Nat]
  /\ lost \in BOOLEAN

Init ==
  /\ now = 0 /\ gen = [g \in Grants |-> 0]
  /\ oauth \in {None, [grant |-> FirstGrant, gen |-> 0, exp |-> Lifetime]}
  /\ jwt \in {None} \cup [exp : {Lifetime}, secret : BOOLEAN]
  /\ cred = [c \in Clients |-> None] /\ ocred = cred
  /\ oexp = [c \in Clients |-> 0]
  /\ lock = [c \in Clients |-> None]
  /\ pc = [t \in Threads |-> "idle"]
  /\ held = [t \in Threads |-> None]
  /\ fresh = [t \in Threads |-> 0] /\ began = fresh
  /\ lost = FALSE

Goes(t, where) == pc' = [pc EXCEPT ![t] = where]
\* Before(expiration) of IsExpired; VerifyExpiresAt of isValid.
Expired(exp) == now >= exp
Valid(exp) == now <= exp

\* What was on the stack of t is no more.
Forgets(t) ==
  /\ held' = [held EXCEPT ![t] = None]
  /\ fresh' = [fresh EXCEPT ![t] = 0] /\ began' = [began EXCEPT ![t] = 0]
\* Mutant: the mutex is not released on the way of an error.
FailsLocked(t) ==
  /\ Forgets(t) /\ Goes(t, "idle") /\ UNCHANGED lock
\* No provider has one: getJWT returns the error of the last, and unlocks.
Fails(t) ==
  /\ lock' = [lock EXCEPT ![Owner[t]] = None]
  /\ Forgets(t) /\ Goes(t, "idle")
\* A provider has one; getJWT keeps it, returns it and unlocks.
Got(t, exp) ==
  /\ cred' = [cred EXCEPT ![Owner[t]] = exp]
  /\ fresh' = [fresh EXCEPT ![t] = exp]
  /\ lock' = [lock EXCEPT ![Owner[t]] = None]
  /\ Goes(t, "send")

-----------------------------------------------------------------------------
\* doRequest: another thread may hold the mutex.
Call(t) ==
  /\ pc[t] = "idle" /\ Goes(t, "wait")
  /\ UNCHANGED <<now, gen, oauth, jwt, clientVars, lock, held, fresh, began, lost>>

Takes(t) ==
  /\ pc[t] = "wait" /\ lock[Owner[t]] = None
  /\ began' = [began EXCEPT ![t] = now]
\* Mutant: what the client has is good enough.
CachedAlways(t) ==
  /\ Takes(t) /\ cred[Owner[t]] # None
  /\ fresh' = [fresh EXCEPT ![t] = cred[Owner[t]]]
  /\ Goes(t, "send")
  /\ UNCHANGED <<now, gen, oauth, jwt, clientVars, lock, held, lost>>
\* getJWT: the JWT it has kept, while the provider it is from has not expired.
Kept(c) == cred[c] # None /\ ~Expired(cred[c])
Cached(t) ==
  /\ Takes(t) /\ Kept(Owner[t])
  /\ fresh' = [fresh EXCEPT ![t] = cred[Owner[t]]]
  /\ Goes(t, "send")
  /\ UNCHANGED <<now, gen, oauth, jwt, clientVars, lock, held, lost>>
\* Mutant: without the mutex.
LockNot(t) ==
  /\ pc[t] = "wait" /\ ~Kept(Owner[t])
  /\ began' = [began EXCEPT ![t] = now]
  /\ cred' = [cred EXCEPT ![Owner[t]] = None]
  /\ Goes(t, "env")
  /\ UNCHANGED <<now, gen, oauth, jwt, lock, ocred, oexp, held, fresh, lost>>
\* Else the chain is asked, and what was kept is not looked at again.
Lock(t) ==
  /\ Takes(t) /\ ~Kept(Owner[t])
  /\ cred' = [cred EXCEPT ![Owner[t]] = None]
  /\ lock' = [lock EXCEPT ![Owner[t]] = t]
  /\ Goes(t, "env")
  /\ UNCHANGED <<now, gen, oauth, jwt, ocred, oexp, held, fresh, lost>>

\* A token with a secret is refreshed when it has expired.
Refreshes(j) == j.secret /\ Expired(j.exp)
\* A token the server issued since t took the mutex.
Issued(t) == {i + Lifetime : i \in began[t]..now}

\* EnvProvider.Retrieve
Env(t) ==
  LET e == EnvJWT[Owner[t]] IN
  /\ pc[t] = "env"
  /\ \/ e = None /\ Goes(t, "config")
        /\ UNCHANGED <<cred, lock, fresh>>
     \/ /\ e # None
        /\ \/ ~Refreshes(e) /\ Valid(e.exp) /\ Got(t, e.exp)
           \/ /\ Refreshes(e) \/ ~Valid(e.exp)
              /\ Goes(t, IF Refreshes(e) THEN "envrefresh" ELSE "config")
              /\ UNCHANGED <<cred, lock, fresh>>
  /\ UNCHANGED <<now, gen, oauth, jwt, ocred, oexp, held, began, lost>>
\* EnvProvider.refresh: the new JWT is kept by the client alone.
EnvRefresh(t) ==
  /\ pc[t] = "envrefresh"
  /\ \/ \E exp \in Issued(t) :
          /\ \/ Valid(exp) /\ Got(t, exp)
             \/ ~Valid(exp) /\ Goes(t, "config")
                /\ UNCHANGED <<cred, lock, fresh>>
     \/ Goes(t, "config") /\ UNCHANGED <<cred, lock, fresh>>
  /\ UNCHANGED <<now, gen, oauth, jwt, ocred, oexp, held, began, lost>>

\* ConfigProvider.Retrieve: the session cannot be read, or says this.
Config(t) ==
  /\ pc[t] = "config"
  /\ \/ Goes(t, "api") /\ UNCHANGED <<cred, lock, fresh>>
     \/ /\ jwt # None
        /\ \/ ~Refreshes(jwt) /\ Valid(jwt.exp) /\ Got(t, jwt.exp)
           \/ /\ Refreshes(jwt) \/ ~Valid(jwt.exp)
              /\ Goes(t, IF Refreshes(jwt) THEN "configrefresh" ELSE "api")
              /\ UNCHANGED <<cred, lock, fresh>>
  /\ UNCHANGED <<now, gen, oauth, jwt, ocred, oexp, held, began, lost>>
\* ConfigProvider.refresh
ConfigRefresh(t) ==
  /\ pc[t] = "configrefresh"
  /\ \/ \E exp \in Issued(t) :
          /\ fresh' = [fresh EXCEPT ![t] = exp]
          /\ Goes(t, "writejwt")
     \/ Goes(t, "api") /\ UNCHANGED fresh
  /\ UNCHANGED <<now, gen, oauth, jwt, cred, ocred, oexp, lock, held, began, lost>>
\* WriteJWT with the secret, and isValid.
WriteRefreshed(t) ==
  /\ pc[t] = "writejwt"
  /\ \/ /\ jwt' = [exp |-> fresh[t], secret |-> TRUE]
        /\ \/ Valid(fresh[t]) /\ Got(t, fresh[t])
           \/ ~Valid(fresh[t]) /\ Goes(t, "api")
              /\ UNCHANGED <<cred, lock, fresh>>
     \/ Goes(t, "api") /\ UNCHANGED <<jwt, cred, lock, fresh>>
  /\ UNCHANGED <<now, gen, oauth, ocred, oexp, held, began, lost>>

\* AuthAPIProvider.Retrieve: getOAuthAccessToken of the auth client, and
\* ConfigProvider.Retrieve of package oauth.
Api(t) ==
  LET c == Owner[t] IN
  /\ pc[t] = "api"
  /\ \/ /\ ocred[c] # None /\ ~Expired(oexp[c]) /\ Goes(t, "getjwt")
        /\ UNCHANGED <<ocred, oexp, lock, held, fresh, began>>
     \/ /\ ocred[c] = None \/ Expired(oexp[c])
        /\ \/ Fails(t) /\ UNCHANGED <<ocred, oexp>>
           \/ oauth = None /\ Fails(t) /\ UNCHANGED <<ocred, oexp>>
           \/ /\ oauth # None /\ oexp' = [oexp EXCEPT ![c] = oauth.exp]
              /\ \/ /\ Expired(oauth.exp) /\ Goes(t, "refresh")
                    /\ held' = [held EXCEPT ![t] = oauth]
                    /\ UNCHANGED ocred
                 \/ /\ ~Expired(oauth.exp) /\ Goes(t, "getjwt")
                    /\ ocred' = [ocred EXCEPT ![c] = oauth.exp]
                    /\ UNCHANGED held
              /\ UNCHANGED <<lock, fresh, began>>
  /\ UNCHANGED <<now, gen, oauth, jwt, cred, lost>>
\* RefreshOAuthCredentials: what the server gives for the refresh token of h.
Exchanged(h) == [grant |-> h.grant, gen |-> h.gen + 1, exp |-> now + Lifetime]
\* The exchange of the refresh token: refused when it has been exchanged before
\* (401); an answer may be lost.
Refresh(t) ==
  LET h == held[t] IN
  /\ pc[t] = "refresh"
  /\ \/ /\ h.gen = gen[h.grant] /\ gen[h.grant] < MaxGen
        /\ gen' = [gen EXCEPT ![h.grant] = h.gen + 1]
        /\ \/ /\ held' = [held EXCEPT ![t] = Exchanged(h)]
              /\ oexp' = [oexp EXCEPT ![Owner[t]] = now + Lifetime]
              /\ Goes(t, "writeoauth")
              /\ UNCHANGED <<lock, fresh, began, lost>>
           \/ Fails(t) /\ lost' = TRUE /\ UNCHANGED oexp
     \/ h.gen # gen[h.grant] /\ Fails(t) /\ UNCHANGED <<gen, oexp, lost>>
     \/ Fails(t) /\ UNCHANGED <<gen, oexp, lost>>
  /\ UNCHANGED <<now, oauth, jwt, cred, ocred>>
\* Mutant: the refresh token that was exchanged is written back.
WriteOldOAuth(t) ==
  /\ pc[t] = "writeoauth"
  /\ \/ /\ oauth' = [held[t] EXCEPT !.gen = held[t].gen - 1]
        /\ ocred' = [ocred EXCEPT ![Owner[t]] = held[t].exp]
        /\ held' = [held EXCEPT ![t] = None]
        /\ Goes(t, "getjwt")
        /\ UNCHANGED <<lock, fresh, began, lost>>
     \/ Fails(t) /\ lost' = TRUE /\ UNCHANGED <<oauth, ocred>>
  /\ UNCHANGED <<now, gen, jwt, cred, oexp>>
\* WriteOAuth.  When it fails the client keeps the old access token with the
\* expiration of the new one.
WriteOAuth(t) ==
  /\ pc[t] = "writeoauth"
  /\ \/ /\ oauth' = held[t]
        /\ ocred' = [ocred EXCEPT ![Owner[t]] = held[t].exp]
        /\ held' = [held EXCEPT ![t] = None]
        /\ Goes(t, "getjwt")
        /\ UNCHANGED <<lock, fresh, began, lost>>
     \/ Fails(t) /\ lost' = TRUE /\ UNCHANGED <<oauth, ocred>>
  /\ UNCHANGED <<now, gen, jwt, cred, oexp>>
\* GetJWT, SetExpirationFromJWT and isValid.
GetJWT(t) ==
  /\ pc[t] = "getjwt"
  /\ \/ \E exp \in Issued(t) :
          /\ \/ /\ Valid(exp) /\ Goes(t, "storejwt")
                /\ fresh' = [fresh EXCEPT ![t] = exp]
                /\ UNCHANGED <<lock, held, began>>
             \/ ~Valid(exp) /\ Fails(t)
     \/ Fails(t)
  /\ UNCHANGED <<now, gen, oauth, jwt, cred, ocred, oexp, lost>>
\* WriteJWT, which removes a secret.
StoreJWT(t) ==
  /\ pc[t] = "storejwt"
  /\ \/ /\ jwt' = [exp |-> fresh[t], secret |-> FALSE]
        /\ Got(t, fresh[t])
        /\ UNCHANGED <<held, began>>
     \/ Fails(t) /\ UNCHANGED <<jwt, cred>>
  /\ UNCHANGED <<now, gen, oauth, ocred, oexp, lost>>
\* The request itself.
Send(t) ==
  /\ pc[t] = "send" /\ Goes(t, "idle")
  /\ Forgets(t)
  /\ UNCHANGED <<now, gen, oauth, jwt, clientVars, lock, lost>>

Retrieve(t) ==
  \/ Env(t) \/ EnvRefresh(t) \/ Config(t) \/ ConfigRefresh(t) \/ WriteRefreshed(t)
  \/ Api(t) \/ Refresh(t) \/ WriteOAuth(t) \/ GetJWT(t) \/ StoreJWT(t)

-----------------------------------------------------------------------------
\* Mutant: without its expiration.
LoginForever(g) ==
  /\ g # FirstGrant /\ gen[g] = 0
  /\ oauth' = [grant |-> g, gen |-> 0, exp |-> None]
  /\ UNCHANGED <<now, gen, jwt, clientVars, lock, pc, held, fresh, began, lost>>
\* `nerd login' of the user, who may be another one.
Login(g) ==
  /\ g # FirstGrant /\ gen[g] = 0
  /\ oauth' = [grant |-> g, gen |-> 0, exp |-> now + Lifetime]
  /\ UNCHANGED <<now, gen, jwt, clientVars, lock, pc, held, fresh, began, lost>>
\* The process ends anywhere, and the next command starts with nothing.
Exit(c) ==
  LET T == {t \in Threads : Owner[t] = c} IN
  /\ \E t \in T : pc[t] # "idle"
  /\ cred' = [cred EXCEPT ![c] = None]
  /\ ocred' = [ocred EXCEPT ![c] = None] /\ oexp' = [oexp EXCEPT ![c] = 0]
  /\ lock' = [lock EXCEPT ![c] = None]
  /\ pc' = [t \in Threads |-> IF t \in T THEN "idle" ELSE pc[t]]
  /\ held' = [t \in Threads |-> IF t \in T THEN None ELSE held[t]]
  /\ fresh' = [t \in Threads |-> IF t \in T THEN 0 ELSE fresh[t]]
  /\ began' = [t \in Threads |-> IF t \in T THEN 0 ELSE began[t]]
  /\ lost' = (lost \/ \E t \in T : pc[t] = "writeoauth")
  /\ UNCHANGED <<now, gen, oauth, jwt>>
Tick ==
  /\ now < MaxTime /\ now' = now + 1
  /\ UNCHANGED <<gen, oauth, jwt, clientVars, lock, pc, held, fresh, began, lost>>

Next ==
  \/ \E t \in Threads : Call(t) \/ Cached(t) \/ Lock(t) \/ Retrieve(t) \/ Send(t)
  \/ \E g \in Grants : Login(g)
  \/ \E c \in Clients : Exit(c)
  \/ Tick

\* A sync.Mutex does not starve a waiter, and the servers are assumed to answer.
Fairness ==
  \A t \in Threads : /\ SF_vars(Cached(t) \/ Lock(t))
                     /\ WF_vars(Retrieve(t)) /\ WF_vars(Send(t))

Spec == Init /\ [][Next]_vars /\ Fairness

-----------------------------------------------------------------------------
\* A request is never made with a JWT that had expired when the request asked for
\* one, whichever provider it is from and whoever else uses the client; nor is
\* a JWT asked for with an access token that had, unless a WriteOAuth has failed.
FreshToken ==
  \A t \in Threads :
    /\ pc[t] = "send" => fresh[t] >= began[t]
    /\ pc[t] = "getjwt" /\ ~lost => ocred[Owner[t]] >= began[t]

\* The login is kept: unless an answer or a write got lost or a process ended
\* between them, the refresh token in the session is one the server will still
\* exchange, or a thread is about to write the one that replaces it.
LoginKept ==
  ~lost /\ oauth # None =>
    \/ oauth.gen = gen[oauth.grant]
    \/ \E t \in Threads : /\ pc[t] = "writeoauth" /\ held[t].grant = oauth.grant
                          /\ held[t].gen = gen[oauth.grant]

\* One thread of a client at a time goes through the providers.
OneRetrieves ==
  \A t \in Threads :
    pc[t] \notin {"idle", "wait", "send"} <=> lock[Owner[t]] = t

\* Whoever asks for a JWT gets one or an error, whatever happens to the others.
RequestEnds == \A t \in Threads : pc[t] = "wait" ~> pc[t] \in {"send", "idle"}
=============================================================================
