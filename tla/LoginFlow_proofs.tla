-------------------------- MODULE LoginFlow_proofs --------------------------
(* Proofs about LoginFlow: a login never ends with the code of another page, *)
(* for every number of concurrent logins.                                    *)
EXTENDS LoginFlow, TLAPS

\* What belongs to l is of its own page, and there is a code only if the user has
\* agreed to that page: in the browser, on the doneCh, and in DoRun.
PageInv(l) ==
  /\ tab[l] = "agreed" => l \in approved
  /\ sends[l] \subseteq {Error, Answer(None), Answer(l)}
  /\ Answer(l) \in sends[l] => l \in approved
  /\ code[l] \in {None, l}
  /\ code[l] = l => l \in approved

IInv == TypeOK /\ OwnCode /\ \A l \in Logins : PageInv(l)

\* The server of a login that waits is to listen, listens, or has said it cannot.
ServerInv(l) ==
  /\ server[l] = "listening" <=> port = l
  /\ pc[l] = "start" => server[l] = "none"
  /\ pc[l] \in {"open", "wait"} => server[l] \in {"spawned", "listening", "failed"}
  /\ pc[l] \in {"open", "wait"} /\ server[l] = "failed" => Error \in sends[l]
  /\ pc[l] = "wait" => tab[l] # "none"

\* A login that waits for the browser has an answer, or a page and a server that
\* the page will reach, or is to learn that it has none.
NeverStranded ==
  \A l \in Logins : pc[l] = "wait" =>
    \/ sends[l] # {} \/ server[l] = "spawned"
    \/ port = l /\ tab[l] # "none"

\* The initial state satisfies the invariant.
LEMMA InitIInv == Init => IInv
BY NoneAssumption DEF Init, IInv, TypeOK, OwnCode, PageInv, Responses

\* Every step keeps the state well typed.
LEMMA StepTypeOK == TypeOK /\ [Next]_vars => TypeOK'
<1> SUFFICES ASSUME TypeOK, [Next]_vars PROVE TypeOK'
  OBVIOUS
<1>0. \A r \in Responses : r.err \in BOOLEAN /\ r.code \in Logins \cup {None}
  <2>1. Error.err \in BOOLEAN /\ Error.code \in Logins \cup {None}
    BY DEF Error
  <2>2. \A k \in Logins \cup {None} :
          Answer(k).err \in BOOLEAN /\ Answer(k).code \in Logins \cup {None}
    BY DEF Answer
  <2>3. \A r \in Responses :
          r = Error \/ \E k \in Logins \cup {None} : r = Answer(k)
    BY DEF Responses
  <2>4. QED BY <2>1, <2>2, <2>3
<1>00. /\ Error \in Responses /\ Answer(None) \in Responses
       /\ \A k \in Logins : Answer(k) \in Responses
  BY DEF Responses
<1> USE DEF TypeOK, Goes, Ends, Offers
<1>1. ASSUME NEW l \in Logins, Spawn(l) PROVE TypeOK'
  BY <1>1 DEF Spawn
<1>2. ASSUME NEW l \in Logins, Open(l) PROVE TypeOK'
  BY <1>2 DEF Open
<1>3. ASSUME NEW l \in Logins, Listen(l) PROVE TypeOK'
  BY <1>3, <1>00 DEF Listen
<1>4. ASSUME NEW l \in Logins, Receive(l) PROVE TypeOK'
  BY <1>4, <1>0 DEF Receive
<1>5. ASSUME NEW l \in Logins, Exchange(l) PROVE TypeOK'
  BY <1>5 DEF Exchange
<1>6. ASSUME NEW l \in Logins, WriteOAuth(l) PROVE TypeOK'
  BY <1>6 DEF WriteOAuth
<1>7. ASSUME NEW l \in Logins, User(l) PROVE TypeOK'
  <2>1. CASE Visit(l)
    BY <2>1 DEF Visit
  <2>2. CASE Agree(l)
    BY <2>2 DEF Agree
  <2>3. CASE Callback(l)
    BY <2>3, <1>00 DEF Callback
  <2>4. QED BY <1>7, <2>1, <2>2, <2>3 DEF User
<1>8. ASSUME NEW l \in Logins, Interrupt(l) PROVE TypeOK'
  BY <1>8 DEF Interrupt
<1>9. CASE UNCHANGED vars
  BY <1>9 DEF vars
<1>10. QED
  BY <1>1, <1>2, <1>3, <1>4, <1>5, <1>6, <1>7, <1>8, <1>9 DEF Next, Run

\* The server of a login passes on no code but that of the page of the login.
LEMMA StepPage ==
  ASSUME TypeOK, OwnCode, \A l \in Logins : PageInv(l), [Next]_vars
  PROVE  OwnCode' /\ \A l \in Logins : PageInv(l)'
<1> USE NoneAssumption DEF TypeOK, OwnCode, PageInv, Goes, Ends, Offers
<1>0. /\ \A k \in Logins : Answer(k) # Answer(None) /\ Answer(k) # Error
      /\ \A j, k \in Logins : Answer(j) = Answer(k) => j = k
      /\ \A k \in Logins \cup {None} : Answer(k).code = k
      /\ Error.err
  BY DEF Answer, Error
<1>1. ASSUME NEW l \in Logins, Spawn(l) PROVE OwnCode' /\ \A k \in Logins : PageInv(k)'
  BY <1>1 DEF Spawn
<1>2. ASSUME NEW l \in Logins, Open(l) PROVE OwnCode' /\ \A k \in Logins : PageInv(k)'
  BY <1>2 DEF Open
<1>3. ASSUME NEW l \in Logins, Listen(l) PROVE OwnCode' /\ \A k \in Logins : PageInv(k)'
  BY <1>3, <1>0 DEF Listen
<1>4. ASSUME NEW l \in Logins, Receive(l) PROVE OwnCode' /\ \A k \in Logins : PageInv(k)'
  <2>1. PICK response \in sends[l] :
          IF response.err THEN Ends(l, "err") /\ UNCHANGED code
          ELSE /\ Goes(l, "exchange")
               /\ code' = [code EXCEPT ![l] = response.code]
               /\ sends' = [sends EXCEPT ![l] = @ \ {response}]
               /\ UNCHANGED <<server, port>>
    BY <1>4 DEF Receive
  <2>2. ~response.err => response.code \in {None, l}
                         /\ (response.code = l => l \in approved)
    BY <1>0, <2>1
  <2>3. QED BY <1>4, <2>1, <2>2 DEF Receive
<1>5. ASSUME NEW l \in Logins, Exchange(l) PROVE OwnCode' /\ \A k \in Logins : PageInv(k)'
  BY <1>5 DEF Exchange
<1>6. ASSUME NEW l \in Logins, WriteOAuth(l) PROVE OwnCode' /\ \A k \in Logins : PageInv(k)'
  BY <1>6 DEF WriteOAuth
<1>7. ASSUME NEW l \in Logins, User(l) PROVE OwnCode' /\ \A k \in Logins : PageInv(k)'
  <2>1. CASE Visit(l)
    BY <2>1 DEF Visit
  <2>2. CASE Agree(l)
    BY <2>2 DEF Agree
  <2>3. CASE Callback(l)
    BY <2>3, <1>0 DEF Callback
  <2>4. QED BY <1>7, <2>1, <2>2, <2>3 DEF User
<1>8. ASSUME NEW l \in Logins, Interrupt(l) PROVE OwnCode' /\ \A k \in Logins : PageInv(k)'
  BY <1>8 DEF Interrupt
<1>9. CASE UNCHANGED vars
  BY <1>9 DEF vars
<1>10. QED
  BY <1>1, <1>2, <1>3, <1>4, <1>5, <1>6, <1>7, <1>8, <1>9 DEF Next, Run

\* A login that ends closes no server but its own.
LEMMA StepServer ==
  ASSUME TypeOK, \A l \in Logins : ServerInv(l), [Next]_vars
  PROVE  \A l \in Logins : ServerInv(l)'
<1> USE NoneAssumption DEF TypeOK, ServerInv, Goes, Ends, Offers
<1>1. ASSUME NEW l \in Logins, Spawn(l) PROVE \A k \in Logins : ServerInv(k)'
  BY <1>1 DEF Spawn
<1>2. ASSUME NEW l \in Logins, Open(l) PROVE \A k \in Logins : ServerInv(k)'
  BY <1>2 DEF Open
<1>3. ASSUME NEW l \in Logins, Listen(l) PROVE \A k \in Logins : ServerInv(k)'
  BY <1>3 DEF Listen
<1>4. ASSUME NEW l \in Logins, Receive(l) PROVE \A k \in Logins : ServerInv(k)'
  BY <1>4 DEF Receive
<1>5. ASSUME NEW l \in Logins, Exchange(l) PROVE \A k \in Logins : ServerInv(k)'
  BY <1>5 DEF Exchange
<1>6. ASSUME NEW l \in Logins, WriteOAuth(l) PROVE \A k \in Logins : ServerInv(k)'
  BY <1>6 DEF WriteOAuth
<1>7. ASSUME NEW l \in Logins, User(l) PROVE \A k \in Logins : ServerInv(k)'
  BY <1>7 DEF User, Visit, Agree, Callback
<1>8. ASSUME NEW l \in Logins, Interrupt(l) PROVE \A k \in Logins : ServerInv(k)'
  BY <1>8 DEF Interrupt
<1>9. CASE UNCHANGED vars
  BY <1>9 DEF vars
<1>10. QED
  BY <1>1, <1>2, <1>3, <1>4, <1>5, <1>6, <1>7, <1>8, <1>9 DEF Next, Run

\* The inductive invariant holds in every state.
THEOREM Invariance == Spec => []IInv
<1>1. IInv /\ [Next]_vars => IInv'
  BY StepTypeOK, StepPage DEF IInv
<1>2. QED BY InitIInv, <1>1, PTL DEF Spec

\* The state of the logins is always well typed.
THEOREM LoginTyped == Spec => []TypeOK
<1>1. IInv => TypeOK
  BY DEF IInv
<1>2. QED BY Invariance, <1>1, PTL

\* The tokens of a login are those of the page the user has agreed to.
THEOREM OwnTokens == Spec => []OwnCode
<1>1. IInv => OwnCode
  BY DEF IInv
<1>2. QED BY Invariance, <1>1, PTL

\* A login that waits never waits for nothing: no other login, by ending or by
\* holding the port, takes its server or its answer away.
THEOREM Answered == Spec => []NeverStranded
<1>1. Init => \A l \in Logins : ServerInv(l)
  BY NoneAssumption DEF Init, ServerInv
<1>2. IInv /\ (\A l \in Logins : ServerInv(l)) /\ [Next]_vars
        => \A l \in Logins : ServerInv(l)'
  BY StepServer DEF IInv
<1>3. (\A l \in Logins : ServerInv(l)) => NeverStranded
  BY DEF ServerInv, NeverStranded
<1> DEFINE Served == \A l \in Logins : ServerInv(l)
<1>4. (Init => Served) /\ (IInv /\ Served /\ [Next]_vars => Served')
      /\ (Served => NeverStranded)
  BY <1>1, <1>2, <1>3
<1> HIDE DEF Served
<1>5. QED BY <1>4, Invariance, PTL DEF Spec
=============================================================================
