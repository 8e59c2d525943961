----------------------------- MODULE LoginFlow -----------------------------
(***************************************************************************)
(* `nerd login' (command/login.go): a local HTTP server, the page it opens *)
(* in the browser, and the code that comes back to it.  Logins of one user *)
(* share the port of the server (OAuthLocalServer), the browser and the    *)
(* session.  The parse errors of /oauth cannot happen: DoRun has parsed    *)
(* the same endpoint.                                                      *)
(***************************************************************************)
CONSTANTS
  Logins,         \* invocations; each has its own random state
  None            \* no login

ASSUME NoneAssumption == None \notin Logins

VARIABLES
  pc,             \* DoRun of each login
  port,           \* the login whose server listens on the port
  server,         \* the goroutine spawnServer of each
  tab,            \* the page in the browser that was opened for each
  sends,          \* the responses that are offered on the doneCh of each
  code,           \* the code a login has received: of whose page
  session,        \* the login whose tokens are in the session
  approved        \* the user has agreed to the page of the login

vars == <<pc, port, server, tab, sends, code, session, approved>>

\* struct response: an error, or the code of a page; a refusal has no code.
Error == [err |-> TRUE, code |-> None]
Answer(l) == [err |-> FALSE, code |-> l]
Responses == {Error, Answer(None)} \cup {Answer(l) : l \in Logins}

TypeOK ==
  /\ pc \in [Logins -> {"start", "open", "wait", "exchange", "write", "ok", "err"}]
  /\ port \in Logins \cup {None}
  /\ server \in [Logins -> {"none", "spawned", "listening", "failed", "closed"}]
  /\ tab \in [Logins -> {"none", "opened", "asked", "agreed", "refused"}]
  /\ sends \in [Logins -> SUBSET Responses]
  /\ code \in [Logins -> Logins \cup {None}]
  /\ session \in Logins \cup {None}
  /\ approved \subseteq Logins

Init ==
  /\ pc = [l \in Logins |-> "start"]
  /\ port = None /\ server = [l \in Logins |-> "none"]
  /\ tab = [l \in Logins |-> "none"]
  /\ sends = [l \in Logins |-> {}]
  /\ code = [l \in Logins |-> None]
  /\ session = None /\ approved = {}

Goes(l, where) == pc' = [pc EXCEPT ![l] = where]
Offers(s, response) == sends' = [sends EXCEPT ![s] = @ \cup {response}]
\* DoRun returns: svr.Close(), and the goroutines end with the process.
Ends(l, how) ==
  /\ Goes(l, how)
  /\ server' = [server EXCEPT ![l] = "closed"]
  /\ port' = IF port = l THEN None ELSE port
  /\ sends' = [sends EXCEPT ![l] = {}]

-----------------------------------------------------------------------------
\* go spawnServer
Spawn(l) ==
  /\ pc[l] = "start" /\ Goes(l, "open")
  /\ server' = [server EXCEPT ![l] = "spawned"]
  /\ UNCHANGED <<port, tab, sends, code, session, approved>>
\* ListenAndServe, which fails when the port is taken.
Listen(l) ==
  /\ server[l] = "spawned"
  /\ \/ /\ port = None /\ port' = l
        /\ server' = [server EXCEPT ![l] = "listening"] /\ UNCHANGED sends
     \/ /\ port # None /\ Offers(l, Error)
        /\ server' = [server EXCEPT ![l] = "failed"] /\ UNCHANGED port
  /\ UNCHANGED <<pc, tab, code, session, approved>>
\* open.Run, which does not wait for the server.
Open(l) ==
  /\ pc[l] = "open"
  /\ \/ Goes(l, "wait") /\ tab' = [tab EXCEPT ![l] = "opened"]
        /\ UNCHANGED <<server, port, sends>>
     \/ Ends(l, "err") /\ UNCHANGED tab
  /\ UNCHANGED <<code, session, approved>>

\* The page is loaded, again until a server is there: /oauth of whichever server
\* listens redirects it to the provider, with the state it came with.
Visit(l) ==
  /\ tab[l] = "opened" /\ port # None
  /\ tab' = [tab EXCEPT ![l] = "asked"]
  /\ UNCHANGED <<pc, port, server, sends, code, session, approved>>
\* The user agrees, or does not.
Agree(l) ==
  /\ tab[l] = "asked"
  /\ \/ tab' = [tab EXCEPT ![l] = "agreed"] /\ approved' = approved \cup {l}
     \/ tab' = [tab EXCEPT ![l] = "refused"] /\ UNCHANGED approved
  /\ UNCHANGED <<pc, port, server, sends, code, session>>
\* Mutant: the state is not compared.
CallbackAny(l) ==
  /\ tab[l] \in {"agreed", "refused"} /\ port # None
  /\ Offers(port, Answer(IF tab[l] = "agreed" THEN l ELSE None))
  /\ UNCHANGED <<pc, port, server, tab, code, session, approved>>
\* /oauth/callback of the server that listens, each time the page is loaded.
Callback(l) ==
  /\ tab[l] \in {"agreed", "refused"} /\ port # None
  /\ Offers(port, IF port # l THEN Error
                  ELSE Answer(IF tab[l] = "agreed" THEN l ELSE None))
  /\ UNCHANGED <<pc, port, server, tab, code, session, approved>>

\* Mutant: what is not the answer is not looked at.
ReceiveCode(l) ==
  /\ pc[l] = "wait"
  /\ \E response \in sends[l] :
       /\ ~response.err
       /\ Goes(l, "exchange")
       /\ code' = [code EXCEPT ![l] = response.code]
       /\ sends' = [sends EXCEPT ![l] = @ \ {response}]
  /\ UNCHANGED <<server, port, tab, session, approved>>
\* oauthResponse := <-doneCh
Receive(l) ==
  /\ pc[l] = "wait"
  /\ \E response \in sends[l] :
       IF response.err THEN Ends(l, "err") /\ UNCHANGED code
       ELSE /\ Goes(l, "exchange")
            /\ code' = [code EXCEPT ![l] = response.code]
            /\ sends' = [sends EXCEPT ![l] = @ \ {response}]
            /\ UNCHANGED <<server, port>>
  /\ UNCHANGED <<tab, session, approved>>
\* GetOAuthCredentials: no tokens for no code.
Exchange(l) ==
  /\ pc[l] = "exchange"
  /\ \/ code[l] # None /\ Goes(l, "write") /\ UNCHANGED <<server, port, sends>>
     \/ Ends(l, "err")
  /\ UNCHANGED <<tab, code, session, approved>>
WriteOAuth(l) ==
  /\ pc[l] = "write"
  /\ \/ session' = code[l] /\ Ends(l, "ok")
     \/ UNCHANGED session /\ Ends(l, "err")
  /\ UNCHANGED <<tab, code, approved>>
\* Mutant: as a way to end that nothing else knows.
InterruptAway(l) ==
  /\ pc[l] \notin {"start", "ok", "err"}
  /\ Ends(l, "interrupted")
  /\ UNCHANGED <<tab, code, session, approved>>
\* The user gives up.
Interrupt(l) ==
  /\ pc[l] \notin {"start", "ok", "err"}
  /\ Ends(l, "err")
  /\ UNCHANGED <<tab, code, session, approved>>

Run(l) == Open(l) \/ Listen(l) \/ Receive(l) \/ Exchange(l) \/ WriteOAuth(l)
User(l) == Visit(l) \/ Agree(l) \/ Callback(l)
Next == \E l \in Logins : Spawn(l) \/ Run(l) \/ User(l) \/ Interrupt(l)

\* The steps of a login are taken, and the user follows the page that was opened,
\* loading it again where no server was there.
Fairness ==
  \A l \in Logins : /\ WF_vars(Open(l)) /\ WF_vars(Listen(l))
                    /\ WF_vars(Receive(l)) /\ WF_vars(Exchange(l))
                    /\ WF_vars(WriteOAuth(l))
                    /\ SF_vars(Visit(l)) /\ WF_vars(Agree(l)) /\ SF_vars(Callback(l))

Spec == Init /\ [][Next]_vars /\ Fairness

-----------------------------------------------------------------------------
\* The tokens in the session are of a login whose own page the user has agreed
\* to, and a login that says it has succeeded has its own: pages of several logins
\* that meet the server of one of them are told apart by their state.
OwnCode ==
  /\ session # None => session \in approved
  /\ \A l \in Logins : pc[l] \in {"write", "ok"} => code[l] = l /\ l \in approved

\* A login that waits for the browser ends, when the user follows the page: with an
\* error when another login holds the port or its page comes to this server.
LoginEnds == \A l \in Logins : pc[l] = "wait" ~> pc[l] \in {"ok", "err"}
=============================================================================
