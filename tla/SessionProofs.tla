--------------------------- MODULE SessionProofs ---------------------------
(***************************************************************************)
(* For any number of pages, requests and codes: a code is sent to the token  *)
(* endpoint once, with the verifier of its request.  What makes it so is     *)
(* that a code is remembered before it is sent, in the sessions in memory    *)
(* and in those in sessionStorage, as long as they know its request at all;  *)
(* and that a request that is forgotten never comes back, as its state is    *)
(* new each time.                                                            *)
(*                                                                         *)
(* The answer to a request finds it unless sessions were replaced, and the   *)
(* key that is kept is the one of the tokens: a code is exchanged, and       *)
(* somebody is logged in, only on a page that came out of sessionStorage,    *)
(* where no call of loadSessions waits to replace what is there.             *)
(***************************************************************************)
EXTENDS Session, TLAPS

(* What the code relies on of an object of sessions.                         *)
Shape(S) ==
  /\ {"requests", "k", "lastRequest"} \subseteq DOMAIN S
  /\ \A r \in DOMAIN S.requests :
       {"usedCodes", "user", "sessionState"} \subseteq DOMAIN S.requests[r]

(* Sessions S, in which there are at most the first n requests, remember     *)
(* each of the codes that are taken, if they know its request.               *)
Remembering(S, taken, issued, n) ==
  /\ Shape(S)
  /\ DOMAIN S.requests \subseteq 1 .. n
  /\ \A code \in taken :
       issued[code] \in DOMAIN S.requests => code \in S.requests[issued[code]].usedCodes

PresentedCodes == {presented[i].code : i \in DOMAIN presented}
InHand == cs.at \in {"keys", "export"}
TakenCodes == PresentedCodes \cup (IF InHand THEN {cs.code} ELSE {})

-----------------------------------------------------------------------------
(* What is done to sessions, and what they remember then.                    *)
LEMMA FreshRemembers ==
  ASSUME NEW taken, NEW issued, NEW n \in Nat
  PROVE  /\ Remembering(Fresh, taken, issued, n)
         /\ Remembering(NoSessions, taken, issued, n)
  BY DEF Remembering, Shape, Fresh, NoSessions

LEMMA RemembersLess ==
  ASSUME NEW S, NEW taken, NEW issued, NEW n \in Nat, Remembering(S, taken, issued, n),
         NEW less \in SUBSET taken, NEW longer,
         \A code \in less : longer[code] = issued[code]
  PROVE  Remembering(S, less, longer, n)
  BY DEF Remembering

LEMMA UsedRemembers ==
  ASSUME NEW S, NEW taken, NEW issued, NEW n \in Nat, Remembering(S, taken, issued, n),
         NEW query, query.state \in DOMAIN S.requests, issued[query.code] = query.state
  PROVE  Remembering(Used(S, query), taken \cup {query.code}, issued, n)
<1>1. /\ Shape(Used(S, query))
      /\ DOMAIN Used(S, query).requests = DOMAIN S.requests
      /\ \A r \in DOMAIN S.requests :
           Used(S, query).requests[r].usedCodes =
             IF r = query.state THEN S.requests[r].usedCodes \cup {query.code}
                                ELSE S.requests[r].usedCodes
  BY DEF Remembering, Shape, Used
<1> QED
  BY <1>1 DEF Remembering

LEMMA AddedRemembers ==
  ASSUME NEW S, NEW taken, NEW issued, NEW n \in Nat, Remembering(S, taken, issued, n),
         \A code \in taken : issued[code] \in 1 .. n
  PROVE  Remembering([S EXCEPT !.lastRequest = n + 1, !.requests = WithRequest(@, n + 1)],
                     taken, issued, n + 1)
<1> DEFINE added == [S EXCEPT !.lastRequest = n + 1, !.requests = WithRequest(@, n + 1)]
<1>1. /\ Shape(added)
      /\ DOMAIN added.requests = DOMAIN S.requests \cup {n + 1}
      /\ \A r \in DOMAIN S.requests \ {n + 1} : added.requests[r] = S.requests[r]
  BY DEF Remembering, Shape, WithRequest, NewRequest
<1> HIDE DEF added
<1>2. DOMAIN added.requests \subseteq 1 .. n + 1
  BY <1>1 DEF Remembering
<1>3. \A code \in taken : issued[code] # n + 1
  OBVIOUS
<1> QED
  BY <1>1, <1>2, <1>3 DEF Remembering, added

LEMMA KeyRemembers ==
  ASSUME NEW S, NEW taken, NEW issued, NEW n \in Nat, Remembering(S, taken, issued, n), NEW key
  PROVE  Remembering([S EXCEPT !.k = key], taken, issued, n)
<1>1. Shape([S EXCEPT !.k = key]) /\ [S EXCEPT !.k = key].requests = S.requests
  BY DEF Remembering, Shape
<1> QED
  BY <1>1 DEF Remembering

LEMMA LoginRemembers ==
  ASSUME NEW S, NEW taken, NEW issued, NEW n \in Nat, Remembering(S, taken, issued, n),
         NEW state, NEW user
  PROVE  Remembering([S EXCEPT !.requests[state].user = user,
                               !.requests[state].sessionState = "loggedin"], taken, issued, n)
<1> DEFINE in == [S EXCEPT !.requests[state].user = user,
                           !.requests[state].sessionState = "loggedin"]
<1>1. /\ Shape(in)
      /\ DOMAIN in.requests = DOMAIN S.requests
      /\ \A r \in DOMAIN S.requests : in.requests[r].usedCodes = S.requests[r].usedCodes
  BY DEF Remembering, Shape
<1> QED
  BY <1>1 DEF Remembering

-----------------------------------------------------------------------------
(* The invariant.  A query holds a code with the state of its request.       *)
Answered(query, issued) ==
  /\ query.kind \in {"none", "error", "code"}
  /\ query.kind = "code" =>
       query.code \in DOMAIN issued /\ query.state = issued[query.code]

Numbers ==
  /\ requests \in Nat
  /\ issuedFor \in Seq(1 .. requests)
  /\ presented \in Seq([code : Nat, verifier : Nat])
  /\ \A i \in DOMAIN presented : presented[i].code \in DOMAIN issuedFor

Places ==
  /\ OnPage => "query" \in DOMAIN location /\ Answered(location.query, issuedFor)
  /\ location.at = "provider" => location.request \in 1 .. requests
  /\ \A query \in left : Answered(query, issuedFor)
  /\ login.at = "challenge" => login.request \in 1 .. requests
  /\ "at" \in DOMAIN location

Hand ==
  /\ {"at", "code", "state", "key", "session"} \subseteq DOMAIN cs
  /\ InHand => /\ cs.code \in DOMAIN issuedFor /\ cs.code \notin PresentedCodes
               /\ cs.state = issuedFor[cs.code]

Remembers ==
  /\ Remembering(stored, TakenCodes, issuedFor, requests)
  /\ Remembering(_sessions, TakenCodes, issuedFor, requests)

SpendInv == Numbers /\ Places /\ Hand /\ Remembers /\ CodesAreSpentOnce

LEMMA InitSpends == Init => SpendInv
<1> SUFFICES ASSUME Init PROVE SpendInv
  OBVIOUS
<1>1. Numbers /\ Places /\ Hand /\ CodesAreSpentOnce
  BY DEF Init, Numbers, Places, Hand, CodesAreSpentOnce, InHand, PresentedCodes, OnPage,
         Answered, NoQuery, Promise, Unlogged
<1>2. Remembers
  BY FreshRemembers DEF Init, Remembers
<1> QED
  BY <1>1, <1>2 DEF SpendInv

(* The codes that are taken are codes that were given.                       *)
LEMMA TakenAreIssued ==
  ASSUME SpendInv
  PROVE  /\ requests \in Nat
         /\ TakenCodes \subseteq DOMAIN issuedFor
         /\ \A code \in DOMAIN issuedFor : issuedFor[code] \in 1 .. requests
  BY DEF SpendInv, Numbers, Hand, TakenCodes, PresentedCodes

(* currentSession goes on with sessions that remember: a code that they do   *)
(* not know as used has not been presented.                                  *)
LEMMA RedirectKeeps ==
  ASSUME SpendInv, NEW query, NEW sessions,
         Remembering(sessions, PresentedCodes, issuedFor, requests),
         HandleRedirect(query, sessions),
         requests' = requests, presented' = presented,
         issuedFor' \in Seq(1 .. requests),
         \A code \in DOMAIN issuedFor :
           code \in DOMAIN issuedFor' /\ issuedFor'[code] = issuedFor[code],
         Answered(query, issuedFor')
  PROVE  Numbers' /\ Hand' /\ Remembers' /\ CodesAreSpentOnce'
<1>1. /\ requests \in Nat /\ PresentedCodes \subseteq DOMAIN issuedFor
      /\ PresentedCodes' = PresentedCodes
  BY DEF SpendInv, Numbers, PresentedCodes
<1>2. Numbers' /\ CodesAreSpentOnce'
  BY DEF SpendInv, Numbers, CodesAreSpentOnce
<1>3. Remembering(sessions, PresentedCodes, issuedFor', requests)
  BY <1>1, RemembersLess
<1>4. CASE Settles(sessions) \/ Refuses(sessions)
  <2>1. /\ ~InHand' /\ Hand' /\ _sessions' = sessions /\ stored' = sessions
    BY <1>4 DEF Settles, Refuses, Promise, InHand, Hand
  <2>2. TakenCodes' = PresentedCodes
    BY <1>1, <2>1 DEF TakenCodes
  <2> QED
    BY <1>2, <1>3, <2>1, <2>2 DEF Remembers
<1>5. CASE /\ query.kind = "code" /\ query.state \in DOMAIN sessions.requests
           /\ query.code \notin sessions.requests[query.state].usedCodes
           /\ Exchanges(sessions, query)
  <2>1. query.code \in DOMAIN issuedFor' /\ query.state = issuedFor'[query.code]
    BY <1>5 DEF Answered
  <2>2. query.code \notin PresentedCodes
    BY <1>3, <1>5, <2>1 DEF Remembering
  <2>3. /\ InHand' /\ cs'.code = query.code /\ cs'.state = query.state
        /\ {"at", "code", "state", "key", "session"} \subseteq DOMAIN cs'
        /\ _sessions' = Used(sessions, query) /\ stored' = Used(sessions, query)
    BY <1>5 DEF Exchanges, Keeps, Promise, InHand
  <2>4. TakenCodes' = PresentedCodes \cup {query.code}
    BY <1>1, <2>3 DEF TakenCodes
  <2>5. Remembering(Used(sessions, query), PresentedCodes \cup {query.code}, issuedFor', requests)
    BY <1>1, <1>3, <1>5, <2>1, UsedRemembers
  <2> QED
    BY <1>1, <1>2, <2>1, <2>2, <2>3, <2>4, <2>5 DEF Hand, Remembers
<1>6. CASE query.kind = "none"
  BY <1>2, <1>4, <1>6 DEF HandleRedirect
<1>7. CASE query.kind = "error"
  BY <1>2, <1>4, <1>7 DEF HandleRedirect
<1>8. CASE query.kind = "code" /\ query.state \notin DOMAIN sessions.requests
  BY <1>2, <1>4, <1>8 DEF HandleRedirect
<1>9. CASE query.kind = "code" /\ query.state \in DOMAIN sessions.requests
  BY <1>2, <1>4, <1>5, <1>9 DEF HandleRedirect
<1> QED
  BY <1>6, <1>7, <1>8, <1>9 DEF Answered

(* A page is loaded with a query.                                            *)
LEMMA PageLoadKeeps ==
  ASSUME SpendInv, NEW query, PageLoads(query),
         issuedFor' \in Seq(1 .. requests),
         \A code \in DOMAIN issuedFor :
           code \in DOMAIN issuedFor' /\ issuedFor'[code] = issuedFor[code],
         Answered(query, issuedFor'),
         \A q \in left' : q \in left \/ (OnPage /\ q = location.query)
  PROVE  SpendInv'
<1>1. /\ requests' = requests /\ presented' = presented
      /\ location' = [at |-> "page", query |-> query] /\ login' = Unlogged
  BY DEF PageLoads
<1>2. Places'
  <2>1. \A q \in left' : Answered(q, issuedFor)
    BY DEF SpendInv, Places
  <2>2. \A q \in left' : Answered(q, issuedFor')
    BY <2>1 DEF Answered
  <2> QED
    BY <1>1, <2>2 DEF Places, OnPage, Unlogged
<1>3. /\ requests \in Nat /\ PresentedCodes \subseteq TakenCodes
      /\ PresentedCodes \subseteq DOMAIN issuedFor /\ PresentedCodes' = PresentedCodes
  BY <1>1, TakenAreIssued DEF TakenCodes, PresentedCodes
<1>4. Remembering(stored, PresentedCodes, issuedFor, requests)
  BY <1>3, RemembersLess DEF SpendInv, Remembers
<1>5. CASE HandleRedirect(query, stored)
  BY <1>1, <1>2, <1>4, <1>5, RedirectKeeps DEF SpendInv
<1>6. CASE /\ stored = NoSessions /\ cs' = Promise("config", Start)
           /\ _sessions' = NoSessions /\ stored' = stored
  <2>1. Numbers' /\ CodesAreSpentOnce'
    BY <1>1 DEF SpendInv, Numbers, CodesAreSpentOnce
  <2>2. Hand'
    BY <1>6 DEF Hand, InHand, Promise
  <2>3. Remembers'
    BY <1>1, <1>3, <1>6, FreshRemembers DEF Remembers
  <2> QED
    BY <1>2, <2>1, <2>2, <2>3 DEF SpendInv
<1> QED
  BY <1>5, <1>6 DEF PageLoads

LEMMA UserLoads ==
  ASSUME SpendInv, ProviderAnswers \/ ProviderRefuses \/ Reload \/ GoBack
  PROVE  SpendInv'
<1>1. issuedFor \in Seq(1 .. requests) /\ requests \in Nat
  BY DEF SpendInv, Numbers
<1>2. CASE ProviderAnswers
  <2>1. /\ issuedFor' = Append(issuedFor, location.request) /\ left' = left
        /\ location.request \in 1 .. requests
        /\ PageLoads(CodeQuery(Len(issuedFor'), location.request))
    BY <1>2 DEF ProviderAnswers, SpendInv, Places
  <2>2. /\ issuedFor' \in Seq(1 .. requests) /\ Len(issuedFor') \in DOMAIN issuedFor'
        /\ issuedFor'[Len(issuedFor')] = location.request
        /\ \A code \in DOMAIN issuedFor :
             code \in DOMAIN issuedFor' /\ issuedFor'[code] = issuedFor[code]
    BY <1>1, <2>1
  <2>3. Answered(CodeQuery(Len(issuedFor'), location.request), issuedFor')
    BY <2>2 DEF Answered, CodeQuery
  <2> QED
    BY <2>1, <2>2, <2>3, PageLoadKeeps
<1>3. CASE ProviderRefuses
  <2>1. Answered(ErrorQuery, issuedFor)
    BY DEF Answered, ErrorQuery
  <2> QED
    BY <1>1, <1>3, <2>1, PageLoadKeeps DEF ProviderRefuses
<1>4. CASE Reload
  <2>1. Answered(location.query, issuedFor)
    BY <1>4 DEF Reload, SpendInv, Places
  <2> QED
    BY <1>1, <1>4, <2>1, PageLoadKeeps DEF Reload
<1>5. CASE GoBack
  <2>1. PICK query \in left : PageLoads(query)
    BY <1>5 DEF GoBack
  <2>2. Answered(query, issuedFor)
    BY <2>1 DEF SpendInv, Places
  <2>3. \A q \in left' : q \in left \/ (OnPage /\ q = location.query)
    BY <1>5 DEF GoBack
  <2>4. issuedFor' = issuedFor
    BY <1>5 DEF GoBack
  <2> QED
    BY <1>1, <2>1, <2>2, <2>3, <2>4, PageLoadKeeps
<1> QED
  BY <1>2, <1>3, <1>4, <1>5

-----------------------------------------------------------------------------
(* A step that presents no code, and takes none in hand.                     *)
LEMMA NoCodeTaken ==
  ASSUME SpendInv, UNCHANGED <<requests, issuedFor, presented>>,
         /\ {"at", "code", "state", "key", "session"} \subseteq DOMAIN cs'
         /\ InHand' => InHand /\ cs'.code = cs.code /\ cs'.state = cs.state
  PROVE  /\ Numbers' /\ Hand' /\ CodesAreSpentOnce'
         /\ TakenCodes' \subseteq TakenCodes
<1>1. PresentedCodes' = PresentedCodes
  BY DEF PresentedCodes
<1> QED
  BY <1>1 DEF SpendInv, Numbers, Hand, CodesAreSpentOnce, TakenCodes

LEMMA SessionsKept ==
  ASSUME SpendInv, UNCHANGED <<stored, _sessions, requests, issuedFor>>,
         TakenCodes' \subseteq TakenCodes
  PROVE  Remembers'
  BY TakenAreIssued, RemembersLess DEF SpendInv, Remembers

(* The steps that leave the sessions alone.                                  *)
LEMMA QuietKeeps ==
  ASSUME SpendInv,
         ConfigFailsForSession \/ ConfigFailsForLogin \/ TokenFails \/ KeysReady
           \/ Leaves \/ AppAsksForKey \/ AppKeyReady \/ UNCHANGED vars
  PROVE  SpendInv'
<1>1. UNCHANGED <<stored, _sessions, requests, issuedFor, presented>>
  BY DEF ConfigFailsForSession, ConfigFailsForLogin, TokenFails, KeysReady, Leaves,
         AppAsksForKey, AppKeyReady, vars, providerVars, clientVars
<1>2. /\ {"at", "code", "state", "key", "session"} \subseteq DOMAIN cs'
      /\ InHand' => InHand /\ cs'.code = cs.code /\ cs'.state = cs.state
  BY DEF SpendInv, Hand, InHand, ConfigFailsForSession, ConfigFailsForLogin, TokenFails,
         KeysReady, Leaves, AppAsksForKey, AppKeyReady, vars, clientVars, Promise
<1>3. Places'
  BY <1>1
  DEF SpendInv, Places, ConfigFailsForSession, ConfigFailsForLogin, TokenFails, KeysReady,
      Leaves, AppAsksForKey, AppKeyReady, vars, clientVars, browserVars, OnPage, Answered,
      NoQuery, Unqueried, Unlogged
<1> QED
  BY <1>1, <1>2, <1>3, NoCodeTaken, SessionsKept DEF SpendInv

(* The sessions that loadSessions makes of a configuration.                  *)
LEMMA ConfigKeeps ==
  ASSUME SpendInv, ConfigForSession
  PROVE  SpendInv'
<1>1. /\ HandleRedirect(location.query, Fresh) /\ OnPage
      /\ UNCHANGED <<location, left, login, requests, issuedFor, presented>>
  BY DEF ConfigForSession, browserVars, providerVars
<1>2. Answered(location.query, issuedFor) /\ requests \in Nat /\ issuedFor \in Seq(1 .. requests)
  BY <1>1 DEF SpendInv, Places, Numbers
<1>3. Remembering(Fresh, PresentedCodes, issuedFor, requests)
  BY <1>2, FreshRemembers
<1>4. Numbers' /\ Hand' /\ Remembers' /\ CodesAreSpentOnce'
  BY <1>1, <1>2, <1>3, RedirectKeeps
<1>5. Places'
  BY <1>1 DEF SpendInv, Places, OnPage, Answered
<1> QED
  BY <1>4, <1>5 DEF SpendInv

(* authViaRedirect makes a request, with a state that no code was given for. *)
LEMMA RegisterKeeps ==
  ASSUME SpendInv, NEW sessions, Remembering(sessions, TakenCodes, issuedFor, requests),
         Registers(sessions), UNCHANGED <<location, left, issuedFor, presented, cs>>
  PROVE  SpendInv'
<1> DEFINE added == [sessions EXCEPT !.lastRequest = requests + 1,
                                     !.requests = WithRequest(@, requests + 1)]
<1>1. /\ requests' = requests + 1 /\ _sessions' = added /\ stored' = added
      /\ login' = [at |-> "challenge", request |-> requests + 1]
  BY DEF Registers
<1>2. TakenCodes' = TakenCodes /\ PresentedCodes' = PresentedCodes /\ InHand' = InHand
  BY DEF TakenCodes, PresentedCodes, InHand
<1>3. Remembering(added, TakenCodes, issuedFor, requests + 1)
  BY TakenAreIssued, AddedRemembers
<1> HIDE DEF added
<1>4. Remembers'
  BY <1>1, <1>2, <1>3 DEF Remembers
<1>5. requests \in Nat /\ 1 .. requests \subseteq 1 .. requests'
  BY <1>1 DEF SpendInv, Numbers
<1>6. Numbers'
  BY <1>1, <1>5 DEF SpendInv, Numbers
<1>7. Hand' /\ CodesAreSpentOnce'
  BY <1>2 DEF SpendInv, Hand, CodesAreSpentOnce
<1>8. Places'
  BY <1>1, <1>5 DEF SpendInv, Places, OnPage, Answered
<1> QED
  BY <1>4, <1>6, <1>7, <1>8 DEF SpendInv

LEMMA LoginKeeps ==
  ASSUME SpendInv, Click \/ ConfigForLogin
  PROVE  SpendInv'
<1>1. UNCHANGED <<location, left, issuedFor, presented, cs>>
  BY DEF Click, ConfigForLogin, browserVars, providerVars
<1>2. CASE Registers(_sessions)
  BY <1>1, <1>2, RegisterKeeps DEF SpendInv, Remembers
<1>3. CASE Registers(Fresh)
  <2>1. Remembering(Fresh, TakenCodes, issuedFor, requests)
    BY TakenAreIssued, FreshRemembers
  <2> QED
    BY <1>1, <1>3, <2>1, RegisterKeeps
<1>4. CASE /\ login' = [at |-> "config", request |-> Nothing]
           /\ UNCHANGED <<stored, requests, _sessions>>
  <2>1. Places'
    BY <1>1, <1>4 DEF SpendInv, Places, OnPage
  <2>2. /\ Numbers' /\ Hand' /\ CodesAreSpentOnce'
        /\ TakenCodes' \subseteq TakenCodes
    BY <1>1, <1>4, NoCodeTaken DEF SpendInv, Hand, InHand
  <2> QED
    BY <1>1, <1>4, <2>1, <2>2, SessionsKept DEF SpendInv
<1> QED
  BY <1>2, <1>3, <1>4 DEF Click, ConfigForLogin

-----------------------------------------------------------------------------
(* The code in hand is presented: it was not before.                         *)
LEMMA TokenRequestKeeps ==
  ASSUME SpendInv, TokenRequested
  PROVE  SpendInv'
<1> DEFINE new == [code |-> cs.code, verifier |-> cs.state]
<1>1. /\ presented' = Append(presented, new) /\ InHand
      /\ _sessions' = [_sessions EXCEPT !.k = cs.key]
      /\ cs' = [cs EXCEPT !.at = "token"]
      /\ UNCHANGED <<stored, location, left, requests, issuedFor, login>>
  BY DEF TokenRequested, InHand, browserVars
<1>2. /\ presented \in Seq([code : Nat, verifier : Nat])
      /\ cs.code \in DOMAIN issuedFor /\ cs.code \notin PresentedCodes
      /\ cs.state = issuedFor[cs.code]
      /\ issuedFor \in Seq(1 .. requests) /\ requests \in Nat
      /\ {"at", "code", "state", "key", "session"} \subseteq DOMAIN cs
  BY <1>1 DEF SpendInv, Numbers, Hand
<1>3. /\ Len(presented) \in Nat /\ DOMAIN presented = 1 .. Len(presented)
      /\ DOMAIN presented' = 1 .. Len(presented) + 1
      /\ \A i \in DOMAIN presented : presented'[i] = presented[i]
      /\ presented'[Len(presented) + 1] = new
  BY <1>1, <1>2
<1>4. Numbers'
  <2>1. new \in [code : Nat, verifier : Nat]
    BY <1>2
  <2>2. presented' \in Seq([code : Nat, verifier : Nat])
    BY <1>1, <1>2, <2>1
  <2> QED
    BY <1>1, <1>2, <1>3, <2>2 DEF SpendInv, Numbers
<1>5. CodesAreSpentOnce'
  <2>1. \A i \in DOMAIN presented : presented[i].code # cs.code
    BY <1>2 DEF PresentedCodes
  <2>2. \A i, j \in DOMAIN presented : i # j => presented[i].code # presented[j].code
    BY DEF SpendInv, CodesAreSpentOnce
  <2>3. \A i, j \in DOMAIN presented' : i # j => presented'[i].code # presented'[j].code
    <3>1. \A i \in DOMAIN presented : presented'[i].code = presented[i].code
      BY <1>3
    <3>2. presented'[Len(presented) + 1].code = cs.code
      BY <1>3
    <3>3. \A i \in DOMAIN presented' : i \in DOMAIN presented \/ i = Len(presented) + 1
      BY <1>3
    <3> QED
      BY <2>1, <2>2, <3>1, <3>2, <3>3
  <2>4. \A i \in DOMAIN presented' : presented'[i].verifier = issuedFor'[presented'[i].code]
    BY <1>1, <1>2, <1>3 DEF SpendInv, CodesAreSpentOnce
  <2> QED
    BY <2>3, <2>4 DEF CodesAreSpentOnce
<1>6. ~InHand' /\ Hand'
  BY <1>1, <1>2 DEF InHand, Hand
<1>7. TakenCodes' = TakenCodes
  <2>1. PresentedCodes' = PresentedCodes \cup {cs.code}
    BY <1>3 DEF PresentedCodes
  <2> QED
    BY <1>1, <1>6, <2>1 DEF TakenCodes
<1>8. Remembers'
  BY <1>1, <1>2, <1>7, KeyRemembers DEF SpendInv, Remembers
<1>9. Places'
  BY <1>1 DEF SpendInv, Places, OnPage
<1> QED
  BY <1>4, <1>5, <1>6, <1>8, <1>9 DEF SpendInv

(* The token arrives: the sessions know who is logged in.                    *)
LEMMA TokenKeeps ==
  ASSUME SpendInv, TokenArrives
  PROVE  SpendInv'
<1> DEFINE in == [_sessions EXCEPT !.requests[cs.state].user = cs.key,
                                   !.requests[cs.state].sessionState = "loggedin"]
<1>1. /\ _sessions' = in /\ stored' = in
      /\ cs' = [cs EXCEPT !.at = "settled", !.session = in.requests[cs.state]]
      /\ location' = [location EXCEPT !.query = NoQuery] /\ OnPage
      /\ UNCHANGED <<left, login, requests, issuedFor, presented>>
  BY DEF TokenArrives, Unqueried, providerVars
<1>2. Remembering(in, TakenCodes, issuedFor, requests)
  BY TakenAreIssued, LoginRemembers DEF SpendInv, Remembers
<1> HIDE DEF in
<1>3. ~InHand' /\ {"at", "code", "state", "key", "session"} \subseteq DOMAIN cs'
  BY <1>1 DEF SpendInv, Hand, InHand
<1>4. /\ Numbers' /\ Hand' /\ CodesAreSpentOnce'
      /\ TakenCodes' \subseteq TakenCodes
  BY <1>1, <1>3, NoCodeTaken
<1>5. Remembers'
  BY <1>1, <1>2, <1>4, TakenAreIssued, RemembersLess DEF Remembers
<1>6. Places'
  BY <1>1 DEF SpendInv, Places, OnPage, Answered, NoQuery
<1> QED
  BY <1>4, <1>5, <1>6 DEF SpendInv

LEMMA NextSpends == SpendInv /\ [Next]_vars => SpendInv'
<1> SUFFICES ASSUME SpendInv, [Next]_vars PROVE SpendInv'
  OBVIOUS
<1> QED
  BY UserLoads, QuietKeeps, ConfigKeeps, LoginKeeps, TokenRequestKeeps, TokenKeeps
  DEF Next, ClientStep, Fails, User

(* A code is sent to the token endpoint once, with its request's verifier.   *)
THEOREM CodesSpentOnce == Spec => []CodesAreSpentOnce
<1>1. SpendInv => CodesAreSpentOnce
  BY DEF SpendInv
<1> QED
  BY <1>1, InitSpends, NextSpends, PTL DEF Spec

-----------------------------------------------------------------------------
(* The requests and the keys.  While no sessions with requests have been     *)
(* replaced, those in memory and those in sessionStorage know every request. *)
AllKnown ==
  ~overwritten =>
    \A r \in 1 .. requests : r \in DOMAIN stored.requests /\ r \in DOMAIN _sessions.requests

(* Sessions have one key, whoever is logged in.                              *)
OneKey(S) ==
  /\ S.lastRequest # Nothing => S.lastRequest \in DOMAIN S.requests
  /\ \A r \in DOMAIN S.requests : S.requests[r].user \in {Nothing, S.k}

(* A code is exchanged with sessions that came out of sessionStorage, which  *)
(* nobody replaces, and with their key if they have one.                     *)
InExchange == cs.at \in {"keys", "export", "token"}
ExchangeHasKey ==
  InExchange =>
    /\ login.at # "config" /\ cs.session.user = Nothing
    /\ cs.state \in DOMAIN _sessions.requests
    /\ cs.key # Nothing
    /\ _sessions.k \in {Nothing, cs.key}
    /\ cs.at = "token" => _sessions.k = cs.key
LoginHasKey ==
  cs.session.user # Nothing => login.at # "config" /\ _sessions.k = cs.session.user

(* The page's key is the one of the exchange, or of who is logged in; App    *)
(* asks for the same, and not before somebody is logged in.                  *)
PageKey == IF InExchange THEN cs.key ELSE cs.session.user
AppWaits == appKey.at \in {"making", "update"}
OneSigningKey ==
  /\ PageKey # Nothing =>
       /\ signingKey \in {Nothing, PageKey}
       /\ AppWaits => appKey.key = PageKey
  /\ cs.at \in {"export", "token"} => signingKey # Nothing
  /\ AppWaits => appKey.key # Nothing

(* What the code relies on of App's call.                                    *)
TaskShape == {"at", "key"} \subseteq DOMAIN appKey

(* The invariant of requests and keys, beside the one of codes.              *)
KeyInv ==
  /\ keys \in Nat
  /\ AllKnown
  /\ OneKey(stored) /\ OneKey(_sessions)
  /\ ExchangeHasKey /\ LoginHasKey /\ OneSigningKey /\ TaskShape

(* Before anything is done there are no requests and no keys.                *)
LEMMA InitHasKey == Init => KeyInv
<1> SUFFICES ASSUME Init PROVE KeyInv
  OBVIOUS
<1>1. AllKnown
  BY DEF Init, AllKnown
<1>2. OneKey(NoSessions)
  BY DEF OneKey, NoSessions, Fresh
<1>3. ExchangeHasKey /\ LoginHasKey /\ OneSigningKey /\ TaskShape
  BY DEF Init, TaskShape, ExchangeHasKey, LoginHasKey, OneSigningKey, InExchange,
     PageKey, AppWaits, Promise, Start, NoTask
<1> QED
  BY <1>1, <1>2, <1>3 DEF Init, KeyInv

(* What is done to sessions, and their key.                                  *)
LEMMA UsedHasKey ==
  ASSUME NEW S, Shape(S), OneKey(S), NEW query, query.state \in DOMAIN S.requests
  PROVE  /\ OneKey(Used(S, query)) /\ Used(S, query).k = S.k
         /\ DOMAIN Used(S, query).requests = DOMAIN S.requests
<1>1. /\ DOMAIN Used(S, query).requests = DOMAIN S.requests
      /\ Used(S, query).k = S.k /\ Used(S, query).lastRequest = S.lastRequest
      /\ \A r \in DOMAIN S.requests : Used(S, query).requests[r].user = S.requests[r].user
  BY DEF Shape, Used
<1> HIDE DEF Used
<1> QED
  BY <1>1 DEF OneKey

(* A new request has no user.                                                *)
LEMMA AddedHasKey ==
  ASSUME NEW S, Shape(S), OneKey(S), NEW n, NEW added,
         added = [S EXCEPT !.lastRequest = n, !.requests = WithRequest(@, n)]
  PROVE  /\ OneKey(added) /\ added.k = S.k
         /\ DOMAIN added.requests = DOMAIN S.requests \cup {n}
<1>1. /\ added.k = S.k /\ added.lastRequest = n
      /\ DOMAIN added.requests = DOMAIN S.requests \cup {n}
      /\ \A r \in DOMAIN added.requests :
           added.requests[r].user = IF r = n THEN Nothing ELSE S.requests[r].user
  BY DEF Shape, WithRequest, NewRequest
<1>2. OneKey(added)
  BY <1>1 DEF OneKey
<1> QED
  BY <1>1, <1>2

(* Who is logged in has the key of the sessions.                             *)
LEMMA LoginIsKeyed ==
  ASSUME NEW S, Shape(S), OneKey(S), NEW state \in DOMAIN S.requests, NEW in,
         in = [S EXCEPT !.requests[state].user = S.k,
                        !.requests[state].sessionState = "loggedin"]
  PROVE  /\ OneKey(in) /\ in.k = S.k
         /\ DOMAIN in.requests = DOMAIN S.requests
         /\ in.requests[state].user = S.k
<1>1. /\ in.k = S.k /\ in.lastRequest = S.lastRequest
      /\ DOMAIN in.requests = DOMAIN S.requests
      /\ \A r \in DOMAIN S.requests :
           in.requests[r].user = IF r = state THEN S.k ELSE S.requests[r].user
  BY DEF Shape
<1>2. OneKey(in)
  BY <1>1 DEF OneKey
<1> QED
  BY <1>1, <1>2

(* currentSession goes on: somebody is logged in with the sessions' key, or  *)
(* a code of one of their requests is exchanged with it.                     *)
LEMMA RedirectHasKey ==
  ASSUME NEW query, query.kind \in {"none", "error", "code"},
         NEW sessions, Shape(sessions), OneKey(sessions), keys \in Nat,
         HandleRedirect(query, sessions)
  PROVE  /\ keys' \in Nat
         /\ OneKey(stored') /\ OneKey(_sessions')
         /\ DOMAIN stored'.requests = DOMAIN sessions.requests
         /\ DOMAIN _sessions'.requests = DOMAIN sessions.requests
         /\ \/ /\ ~InExchange' /\ _sessions' = sessions
               /\ cs'.session.user # Nothing =>
                    cs'.session.user = sessions.k /\ DOMAIN sessions.requests # {}
            \/ /\ cs'.at = "keys" /\ cs'.key # Nothing /\ cs'.session.user = Nothing
               /\ cs'.state \in DOMAIN sessions.requests
               /\ _sessions'.k \in {Nothing, cs'.key}
<1>1. CASE Settles(sessions)
  <2>1. /\ cs'.at = "settled" /\ cs'.session = LastSession(sessions)
        /\ _sessions' = sessions /\ stored' = sessions /\ keys' = keys
    BY <1>1 DEF Settles, Promise
  <2>2. cs'.session.user # Nothing =>
          cs'.session.user = sessions.k /\ DOMAIN sessions.requests # {}
    BY <2>1 DEF LastSession, OneKey, Start
  <2> QED
    BY <2>1, <2>2 DEF InExchange
<1>2. CASE Refuses(sessions)
  BY <1>2 DEF Refuses, Promise, Start, InExchange
<1>3. CASE Exchanges(sessions, query) /\ query.state \in DOMAIN sessions.requests
  <2>1. /\ _sessions' = Used(sessions, query) /\ stored' = Used(sessions, query)
        /\ cs'.at = "keys" /\ cs'.state = query.state /\ cs'.session.user = Nothing
        /\ cs'.key = KeyToMake(sessions)
        /\ Generates(sessions)
    BY <1>3 DEF Exchanges, Keeps, Promise, Start
  <2>2. /\ OneKey(Used(sessions, query)) /\ Used(sessions, query).k = sessions.k
        /\ DOMAIN Used(sessions, query).requests = DOMAIN sessions.requests
    BY <1>3, UsedHasKey
  <2>3. KeyToMake(sessions) # Nothing /\ sessions.k \in {Nothing, KeyToMake(sessions)}
    BY DEF KeyToMake, Nothing
  <2>4. keys' \in Nat
    BY <2>1 DEF Generates
  <2> QED
    BY <1>3, <2>1, <2>2, <2>3, <2>4
<1>4. CASE query.kind = "none"
  BY <1>1, <1>4 DEF HandleRedirect
<1>5. CASE query.kind = "error"
  BY <1>2, <1>5 DEF HandleRedirect
<1>6. CASE query.kind = "code" /\ query.state \notin DOMAIN sessions.requests
  BY <1>2, <1>6 DEF HandleRedirect
<1>7. CASE query.kind = "code" /\ query.state \in DOMAIN sessions.requests
  BY <1>1, <1>3, <1>7 DEF HandleRedirect
<1> QED
  BY <1>4, <1>5, <1>6, <1>7

(* Sessions that are of the shape the code relies on.                        *)
LEMMA SessionsHaveShape ==
  SpendInv => Shape(stored) /\ Shape(_sessions) /\ requests \in Nat
  BY DEF SpendInv, Remembers, Remembering, Numbers

(* Sessions without requests.                                                *)
LEMMA FreshHasKey == OneKey(Fresh) /\ Shape(Fresh) /\ OneKey(NoSessions)
                     /\ DOMAIN Fresh.requests = {} /\ DOMAIN NoSessions.requests = {}
                     /\ Fresh.k = Nothing /\ NoSessions.k = Nothing
  BY DEF OneKey, Shape, Fresh, NoSessions, Nothing

(* A page is loaded: memory is empty, and no key has been asked for.         *)
LEMMA PageLoadHasKey ==
  ASSUME SpendInv, KeyInv, NEW query, query.kind \in {"none", "error", "code"},
         PageLoads(query)
  PROVE  KeyInv'
<1>1. /\ signingKey' = Nothing /\ login'.at = "idle" /\ appKey' = NoTask
      /\ requests' = requests /\ overwritten' = overwritten
  BY DEF PageLoads, Unlogged
<1>2. ~AppWaits' /\ keys \in Nat /\ OneKey(stored) /\ Shape(stored)
  BY <1>1, SessionsHaveShape DEF AppWaits, NoTask, KeyInv
<1>3. CASE HandleRedirect(query, stored)
  <2>1. /\ keys' \in Nat
        /\ OneKey(stored') /\ OneKey(_sessions')
        /\ DOMAIN stored'.requests = DOMAIN stored.requests
        /\ DOMAIN _sessions'.requests = DOMAIN stored.requests
        /\ \/ /\ ~InExchange' /\ _sessions' = stored
              /\ cs'.session.user # Nothing => cs'.session.user = stored.k
           \/ /\ cs'.at = "keys" /\ cs'.key # Nothing /\ cs'.session.user = Nothing
              /\ cs'.state \in DOMAIN stored.requests
              /\ _sessions'.k \in {Nothing, cs'.key}
    BY <1>2, <1>3, RedirectHasKey
  <2>2. AllKnown'
    BY <1>1, <2>1 DEF KeyInv, AllKnown
  <2>3. ExchangeHasKey' /\ LoginHasKey'
    BY <1>1, <2>1 DEF ExchangeHasKey, LoginHasKey, InExchange
  <2>4. OneSigningKey'
    BY <1>1, <1>2, <2>1 DEF OneSigningKey, InExchange
  <2> QED
    BY <1>1, <2>1, <2>2, <2>3, <2>4 DEF KeyInv, TaskShape, NoTask
<1>4. CASE /\ stored = NoSessions /\ cs' = Promise("config", Start)
           /\ _sessions' = NoSessions /\ UNCHANGED <<stored, keys>>
  <2>1. AllKnown'
    BY <1>1, <1>4 DEF KeyInv, AllKnown
  <2>2. ~InExchange' /\ cs'.session.user = Nothing /\ cs'.at = "config"
    BY <1>4 DEF InExchange, Promise, Start
  <2>3. ExchangeHasKey' /\ LoginHasKey' /\ OneSigningKey'
    BY <1>1, <1>2, <2>2 DEF ExchangeHasKey, LoginHasKey, OneSigningKey, PageKey
  <2> QED
    BY <1>1, <1>2, <1>4, <2>1, <2>3, FreshHasKey DEF KeyInv, TaskShape, NoTask
<1> QED
  BY <1>3, <1>4 DEF PageLoads

(* Whoever loads it.                                                         *)
LEMMA UserLoadsHasKey ==
  ASSUME SpendInv, KeyInv, ProviderAnswers \/ ProviderRefuses \/ Reload \/ GoBack
  PROVE  KeyInv'
<1>1. CASE ProviderAnswers
  <2>1. CodeQuery(Len(issuedFor'), location.request).kind = "code"
    BY DEF CodeQuery
  <2> QED
    BY <1>1, <2>1, PageLoadHasKey DEF ProviderAnswers
<1>2. CASE ProviderRefuses
  <2>1. ErrorQuery.kind = "error"
    BY DEF ErrorQuery
  <2> QED
    BY <1>2, <2>1, PageLoadHasKey DEF ProviderRefuses
<1>3. CASE Reload
  <2>1. location.query.kind \in {"none", "error", "code"}
    BY <1>3 DEF Reload, SpendInv, Places, Answered
  <2> QED
    BY <1>3, <2>1, PageLoadHasKey DEF Reload
<1>4. CASE GoBack
  <2>1. PICK query \in left : PageLoads(query)
    BY <1>4 DEF GoBack
  <2>2. query.kind \in {"none", "error", "code"}
    BY <2>1 DEF SpendInv, Places, Answered
  <2> QED
    BY <2>1, <2>2, PageLoadHasKey
<1> QED
  BY <1>1, <1>2, <1>3, <1>4

-----------------------------------------------------------------------------
(* The configuration arrives: nobody is logged in and no code is known, and  *)
(* if sessions with requests are replaced, it is noticed.                    *)
LEMMA ConfigHasKey ==
  ASSUME SpendInv, KeyInv, ConfigForSession
  PROVE  KeyInv'
<1>1. /\ HandleRedirect(location.query, Fresh) /\ OnPage /\ cs.at = "config"
      /\ overwritten' = (overwritten \/ _sessions.requests # <<>>)
      /\ UNCHANGED <<requests, signingKey, login, appKey>>
  BY DEF ConfigForSession, Overwrites
<1>2. location.query.kind \in {"none", "error", "code"} /\ keys \in Nat
  BY <1>1 DEF SpendInv, Places, Answered, KeyInv
<1>3. /\ keys' \in Nat /\ OneKey(stored') /\ OneKey(_sessions')
      /\ ~InExchange' /\ cs'.session.user = Nothing
  BY <1>1, <1>2, FreshHasKey, RedirectHasKey
<1>4. AllKnown'
  <2>1. CASE overwritten'
    BY <2>1 DEF AllKnown
  <2>2. CASE ~overwritten'
    <3>1. ~overwritten /\ _sessions.requests = <<>>
      BY <1>1, <2>2
    <3>2. \A r \in 1 .. requests : r \in DOMAIN _sessions.requests
      BY <3>1 DEF KeyInv, AllKnown
    <3>3. \A r \in 1 .. requests' : FALSE
      BY <1>1, <3>1, <3>2
    <3> QED
      BY <3>3 DEF AllKnown
  <2> QED
    BY <2>1, <2>2
<1>5. ExchangeHasKey' /\ LoginHasKey'
  BY <1>3 DEF ExchangeHasKey, LoginHasKey
<1>6. OneSigningKey'
  <2>1. PageKey' = Nothing /\ cs'.at \notin {"export", "token"}
    BY <1>3 DEF PageKey, InExchange
  <2>2. AppWaits' => appKey'.key # Nothing
    BY <1>1 DEF KeyInv, OneSigningKey, AppWaits
  <2> QED
    BY <2>1, <2>2 DEF OneSigningKey
<1> QED
  BY <1>1, <1>3, <1>4, <1>5, <1>6 DEF KeyInv, TaskShape

(* authViaRedirect: with the sessions there are, or with fresh ones where    *)
(* there were none, and so neither a login nor an exchange.                  *)
LEMMA RegisterHasKey ==
  ASSUME SpendInv, KeyInv, NEW sessions, Shape(sessions), OneKey(sessions),
         Registers(sessions), UNCHANGED <<keys, signingKey, cs, appKey>>,
         \/ sessions = _sessions /\ overwritten' = overwritten
         \/ /\ DOMAIN sessions.requests = {} /\ sessions.k = Nothing /\ login.at = "config"
            /\ overwritten' = (overwritten \/ _sessions.requests # <<>>)
  PROVE  KeyInv'
<1> DEFINE added == [sessions EXCEPT !.lastRequest = requests + 1,
                                     !.requests = WithRequest(@, requests + 1)]
<1>1. /\ requests' = requests + 1 /\ _sessions' = added /\ stored' = added
      /\ login'.at = "challenge"
  BY DEF Registers
<1>2. /\ OneKey(added) /\ added.k = sessions.k
      /\ DOMAIN added.requests = DOMAIN sessions.requests \cup {requests + 1}
  BY AddedHasKey
<1> HIDE DEF added
<1>3. requests \in Nat /\ keys' \in Nat
  BY SessionsHaveShape DEF KeyInv
<1>4. AllKnown'
  <2>1. CASE overwritten'
    BY <2>1 DEF AllKnown
  <2>2. CASE ~overwritten'
    <3>1. \A r \in 1 .. requests : r \in DOMAIN sessions.requests
      <4>1. \A r \in 1 .. requests : r \in DOMAIN _sessions.requests
        BY <2>2 DEF KeyInv, AllKnown
      <4>2. CASE sessions = _sessions
        BY <4>1, <4>2
      <4>3. CASE _sessions.requests = <<>>
        BY <4>1, <4>3
      <4> QED
        BY <2>2, <4>2, <4>3
    <3>2. \A r \in 1 .. requests + 1 : r \in DOMAIN added.requests
      BY <1>2, <1>3, <3>1
    <3> QED
      BY <1>1, <3>2 DEF AllKnown
  <2> QED
    BY <2>1, <2>2
<1>5. InExchange' = InExchange /\ PageKey' = PageKey
  BY DEF InExchange, PageKey
<1>6. ExchangeHasKey'
  <2>1. InExchange => sessions = _sessions
    BY DEF KeyInv, ExchangeHasKey
  <2> QED
    BY <1>1, <1>2, <1>5, <2>1 DEF KeyInv, ExchangeHasKey
<1>7. LoginHasKey'
  <2>1. cs.session.user # Nothing => sessions = _sessions
    BY DEF KeyInv, LoginHasKey
  <2> QED
    BY <1>1, <1>2, <2>1 DEF KeyInv, LoginHasKey
<1>8. OneSigningKey'
  BY <1>5 DEF KeyInv, OneSigningKey, AppWaits
<1> QED
  BY <1>1, <1>2, <1>3, <1>4, <1>6, <1>7, <1>8 DEF KeyInv, TaskShape

(* The login button, with or without a configuration.                        *)
LEMMA LoginsHaveKey ==
  ASSUME SpendInv, KeyInv, Click \/ ConfigForLogin
  PROVE  KeyInv'
<1>0. Shape(_sessions) /\ OneKey(_sessions)
  BY SessionsHaveShape DEF KeyInv
<1>1. CASE Click
  <2>1. CASE _sessions # NoSessions
    <3>1. Registers(_sessions) /\ UNCHANGED <<keys, signingKey, cs, appKey, overwritten>>
      BY <1>1, <2>1 DEF Click
    <3> QED
      BY <1>0, <3>1, RegisterHasKey
  <2>2. CASE _sessions = NoSessions
    <3>1. /\ login' = [at |-> "config", request |-> Nothing]
          /\ UNCHANGED <<stored, requests, _sessions, keys, signingKey, cs, appKey, overwritten>>
      BY <1>1, <2>2 DEF Click
    <3>2. ~InExchange /\ cs.session.user = Nothing
      BY <2>2, FreshHasKey DEF KeyInv, ExchangeHasKey, LoginHasKey
    <3>3. AllKnown' /\ OneSigningKey' /\ ~InExchange'
      BY <3>1, <3>2 DEF KeyInv, AllKnown, OneSigningKey, AppWaits, PageKey, InExchange
    <3>4. ExchangeHasKey' /\ LoginHasKey'
      BY <3>1, <3>2, <3>3 DEF ExchangeHasKey, LoginHasKey
    <3> QED
      BY <3>1, <3>3, <3>4 DEF KeyInv, TaskShape
  <2> QED
    BY <2>1, <2>2
<1>2. CASE ConfigForLogin
  <2>1. /\ Registers(Fresh) /\ login.at = "config"
        /\ overwritten' = (overwritten \/ _sessions.requests # <<>>)
        /\ UNCHANGED <<keys, signingKey, cs, appKey>>
    BY <1>2 DEF ConfigForLogin, Overwrites
  <2> QED
    BY <2>1, FreshHasKey, RegisterHasKey
<1> QED
  BY <1>1, <1>2

-----------------------------------------------------------------------------
(* The exchange.                                                             *)
LEMMA KeysReadyHasKey ==
  ASSUME SpendInv, KeyInv, KeysReady
  PROVE  KeyInv'
<1>1. /\ cs.at = "keys" /\ signingKey' = cs.key /\ cs' = [cs EXCEPT !.at = "export"]
      /\ UNCHANGED <<stored, requests, keys, _sessions, login, appKey, overwritten>>
  BY DEF KeysReady
<1>2. cs'.at = "export" /\ cs'.key = cs.key /\ cs'.state = cs.state /\ cs'.session = cs.session
  BY <1>1 DEF SpendInv, Hand
<1>3. InExchange /\ InExchange' /\ PageKey' = PageKey /\ PageKey = cs.key
  BY <1>1, <1>2 DEF InExchange, PageKey
<1>4. ExchangeHasKey' /\ LoginHasKey' /\ AllKnown'
  BY <1>1, <1>2, <1>3 DEF KeyInv, ExchangeHasKey, LoginHasKey, AllKnown
<1>5. OneSigningKey'
  BY <1>1, <1>2, <1>3 DEF KeyInv, ExchangeHasKey, OneSigningKey, AppWaits
<1> QED
  BY <1>1, <1>4, <1>5 DEF KeyInv, TaskShape

(* It is kept with the sessions.                                             *)
LEMMA TokenRequestHasKey ==
  ASSUME SpendInv, KeyInv, TokenRequested
  PROVE  KeyInv'
<1> DEFINE kept == [_sessions EXCEPT !.k = cs.key]
<1>1. /\ cs.at = "export" /\ _sessions' = kept /\ cs' = [cs EXCEPT !.at = "token"]
      /\ UNCHANGED <<stored, requests, keys, signingKey, login, appKey, overwritten>>
  BY DEF TokenRequested
<1>2. cs'.at = "token" /\ cs'.key = cs.key /\ cs'.state = cs.state /\ cs'.session = cs.session
  BY <1>1 DEF SpendInv, Hand
<1>3. InExchange /\ InExchange' /\ PageKey' = PageKey
  BY <1>1, <1>2 DEF InExchange, PageKey
<1>4. Shape(_sessions) /\ OneKey(_sessions) /\ _sessions.k \in {Nothing, cs.key}
  BY <1>3, SessionsHaveShape DEF KeyInv, ExchangeHasKey
<1>5. /\ kept.k = cs.key /\ kept.requests = _sessions.requests
      /\ kept.lastRequest = _sessions.lastRequest
  BY <1>4 DEF Shape
<1>6. OneKey(kept)
  BY <1>4, <1>5 DEF OneKey
<1> HIDE DEF kept
<1>7. ExchangeHasKey' /\ LoginHasKey' /\ AllKnown'
  BY <1>1, <1>2, <1>3, <1>5 DEF KeyInv, ExchangeHasKey, LoginHasKey, AllKnown
<1>8. OneSigningKey'
  BY <1>1, <1>2, <1>3 DEF KeyInv, OneSigningKey, AppWaits
<1> QED
  BY <1>1, <1>6, <1>7, <1>8 DEF KeyInv, TaskShape

(* The token is bound to it.                                                 *)
LEMMA TokenHasKey ==
  ASSUME SpendInv, KeyInv, TokenArrives
  PROVE  KeyInv'
<1> DEFINE in == [_sessions EXCEPT !.requests[cs.state].user = cs.key,
                                   !.requests[cs.state].sessionState = "loggedin"]
<1>1. /\ cs.at = "token" /\ _sessions' = in /\ stored' = in
      /\ cs' = [cs EXCEPT !.at = "settled", !.session = in.requests[cs.state]]
      /\ UNCHANGED <<requests, keys, signingKey, login, appKey, overwritten>>
  BY DEF TokenArrives
<1>2. InExchange /\ Shape(_sessions) /\ OneKey(_sessions)
      /\ cs.state \in DOMAIN _sessions.requests /\ _sessions.k = cs.key
      /\ login.at # "config"
  BY <1>1, SessionsHaveShape DEF KeyInv, ExchangeHasKey, InExchange
<1>3. /\ OneKey(in) /\ in.k = cs.key /\ DOMAIN in.requests = DOMAIN _sessions.requests
      /\ in.requests[cs.state].user = cs.key
  <2>1. in = [_sessions EXCEPT !.requests[cs.state].user = _sessions.k,
                               !.requests[cs.state].sessionState = "loggedin"]
    BY <1>2
  <2> HIDE DEF in
  <2> QED
    BY <1>2, <2>1, LoginIsKeyed
<1> HIDE DEF in
<1>4. cs'.at = "settled" /\ cs'.session.user = cs.key
  BY <1>1, <1>3 DEF SpendInv, Hand
<1>5. ~InExchange' /\ PageKey' = cs.key /\ PageKey = cs.key
  BY <1>2, <1>4 DEF InExchange, PageKey
<1>6. AllKnown' /\ ExchangeHasKey' /\ LoginHasKey'
  BY <1>1, <1>2, <1>3, <1>4, <1>5 DEF KeyInv, AllKnown, ExchangeHasKey, LoginHasKey
<1>7. OneSigningKey'
  BY <1>1, <1>4, <1>5 DEF KeyInv, OneSigningKey, AppWaits
<1> QED
  BY <1>1, <1>3, <1>6, <1>7 DEF KeyInv, TaskShape

-----------------------------------------------------------------------------
(* App asks for a key when somebody is logged in: no exchange goes on, and   *)
(* the key is that of the sessions, in memory or made from what is stored.   *)
LEMMA AppAskHasKey ==
  ASSUME SpendInv, KeyInv, AppAsksForKey
  PROVE  KeyInv'
<1>1. /\ LoggedIn
      /\ UNCHANGED <<stored, requests, _sessions, signingKey, cs, login, overwritten>>
  BY DEF AppAsksForKey
<1>2. AllKnown' /\ ExchangeHasKey' /\ LoginHasKey' /\ PageKey' = PageKey
  BY <1>1 DEF KeyInv, AllKnown, ExchangeHasKey, LoginHasKey, InExchange, PageKey
<1>3. /\ PageKey = cs.session.user /\ PageKey # Nothing /\ _sessions.k = PageKey
      /\ cs.at \notin {"export", "token"}
  BY <1>1 DEF LoggedIn, PageKey, InExchange, KeyInv, LoginHasKey
<1>4. CASE /\ signingKey # Nothing /\ keys' = keys
           /\ appKey' = [NoTask EXCEPT !.at = "update", !.key = signingKey]
  <2>1. appKey'.key = signingKey /\ TaskShape'
    BY <1>4 DEF NoTask, TaskShape
  <2>2. OneSigningKey'
    BY <1>1, <1>2, <1>3, <1>4, <2>1 DEF KeyInv, OneSigningKey
  <2> QED
    BY <1>1, <1>2, <1>4, <2>1, <2>2 DEF KeyInv
<1>5. CASE /\ signingKey = Nothing /\ Generates(_sessions)
           /\ appKey' = [at |-> "making", key |-> KeyToMake(_sessions)]
  <2>1. keys' \in Nat
    BY <1>5 DEF KeyInv, Generates
  <2>2. appKey'.key = PageKey /\ TaskShape'
    BY <1>3, <1>5 DEF KeyToMake, TaskShape
  <2>3. OneSigningKey'
    BY <1>1, <1>2, <1>3, <1>5, <2>2 DEF OneSigningKey
  <2> QED
    BY <1>1, <1>2, <2>1, <2>2, <2>3 DEF KeyInv
<1> QED
  BY <1>4, <1>5 DEF AppAsksForKey

(* The key that App asked for becomes the signing key.                       *)
LEMMA AppKeyHasKey ==
  ASSUME SpendInv, KeyInv, AppKeyReady
  PROVE  KeyInv'
<1>1. /\ AppWaits /\ signingKey' = appKey.key
      /\ appKey' = [appKey EXCEPT !.at = IF @ = "making" THEN "update" ELSE "done"]
      /\ UNCHANGED <<stored, requests, keys, _sessions, cs, login, overwritten>>
  BY DEF AppKeyReady, AppWaits
<1>2. appKey'.key = appKey.key /\ appKey'.at \in {"update", "done"}
  BY <1>1 DEF KeyInv, TaskShape
<1>3. AllKnown' /\ ExchangeHasKey' /\ LoginHasKey' /\ PageKey' = PageKey
  BY <1>1 DEF KeyInv, AllKnown, ExchangeHasKey, LoginHasKey, InExchange, PageKey
<1>4. OneSigningKey'
  BY <1>1, <1>2, <1>3 DEF KeyInv, OneSigningKey
<1> QED
  BY <1>1, <1>2, <1>3, <1>4 DEF KeyInv, TaskShape

(* The steps that make no key.                                               *)
LEMMA QuietHasKey ==
  ASSUME SpendInv, KeyInv,
         ConfigFailsForSession \/ ConfigFailsForLogin \/ TokenFails \/ Leaves \/ UNCHANGED vars
  PROVE  KeyInv'
<1>1. UNCHANGED <<stored, _sessions, requests, keys, signingKey, appKey, overwritten>>
  BY DEF ConfigFailsForSession, ConfigFailsForLogin, TokenFails, Leaves, vars, clientVars
<1>2. AllKnown' /\ AppWaits' = AppWaits
  BY <1>1 DEF KeyInv, AllKnown, AppWaits
<1>3. CASE ConfigFailsForSession
  <2>1. ~InExchange' /\ cs'.session.user = Nothing
        /\ cs'.at \notin {"export", "token"}
    BY <1>3 DEF ConfigFailsForSession, Promise, Start, InExchange
  <2>2. ExchangeHasKey' /\ LoginHasKey' /\ OneSigningKey'
    BY <1>1, <1>2, <2>1 DEF KeyInv, ExchangeHasKey, LoginHasKey, OneSigningKey, PageKey
  <2> QED
    BY <1>1, <1>2, <2>2 DEF KeyInv, TaskShape
<1>4. CASE TokenFails
  <2>1. cs' = [cs EXCEPT !.at = "rejected"] /\ cs.at = "token" /\ login' = login
    BY <1>4 DEF TokenFails
  <2>2. cs'.at = "rejected" /\ cs'.session = cs.session /\ cs.session.user = Nothing
    BY <2>1 DEF SpendInv, Hand, KeyInv, ExchangeHasKey, InExchange
  <2>3. ~InExchange' /\ PageKey' = Nothing
    BY <2>2 DEF InExchange, PageKey
  <2>4. ExchangeHasKey' /\ LoginHasKey' /\ OneSigningKey'
    BY <1>1, <1>2, <2>2, <2>3 DEF KeyInv, ExchangeHasKey, LoginHasKey, OneSigningKey
  <2> QED
    BY <1>1, <1>2, <2>4 DEF KeyInv, TaskShape
<1>5. CASE cs' = cs /\ login'.at \in {login.at, "idle"}
  <2>1. InExchange' = InExchange /\ PageKey' = PageKey
    BY <1>5 DEF InExchange, PageKey
  <2>2. ExchangeHasKey' /\ LoginHasKey' /\ OneSigningKey'
    BY <1>1, <1>2, <1>5, <2>1 DEF KeyInv, ExchangeHasKey, LoginHasKey, OneSigningKey
  <2> QED
    BY <1>1, <1>2, <2>2 DEF KeyInv, TaskShape
<1>6. CASE ConfigFailsForLogin \/ Leaves \/ UNCHANGED vars
  BY <1>5, <1>6 DEF ConfigFailsForLogin, Leaves, vars, clientVars, Unlogged
<1> QED
  BY <1>3, <1>4, <1>6

(* Every step keeps requests and keys.                                       *)
LEMMA NextHasKey == SpendInv /\ KeyInv /\ [Next]_vars => KeyInv'
<1> SUFFICES ASSUME SpendInv, KeyInv, [Next]_vars PROVE KeyInv'
  OBVIOUS
<1> QED
  BY UserLoadsHasKey, ConfigHasKey, LoginsHaveKey, KeysReadyHasKey, TokenRequestHasKey,
     TokenHasKey, AppAskHasKey, AppKeyHasKey, QuietHasKey
  DEF Next, ClientStep, Fails, User

(* Sessions have one key, and every request is known while no sessions are   *)
(* replaced.                                                                 *)
THEOREM SessionInvariant == Spec => [](SpendInv /\ KeyInv)
<1> QED
  BY InitSpends, InitHasKey, NextSpends, NextHasKey, PTL DEF Spec

(* The answer to a request finds it, unless two calls of loadSessions waited *)
(* for the configuration at once.                                            *)
THEOREM RequestsAreFound == Spec => []RequestIsFound
<1>1. SpendInv /\ KeyInv => RequestIsFound
  <2> SUFFICES ASSUME SpendInv, KeyInv, OnPage, location.query.kind = "code", ~overwritten
      PROVE  location.query.state \in DOMAIN _sessions.requests
    BY DEF RequestIsFound
  <2>1. location.query.state \in 1 .. requests
    BY DEF SpendInv, Places, Answered, Numbers
  <2> QED
    BY <2>1 DEF KeyInv, AllKnown
<1> QED
  BY <1>1, SessionInvariant, PTL

(* The key that is kept is that of the tokens, and whoever is logged in      *)
(* signs requests with it, however often the page is loaded again.           *)
THEOREM KeysAreTheTokens == Spec => []KeyIsTheTokens
<1>1. KeyInv => KeyIsTheTokens
  <2> SUFFICES ASSUME KeyInv PROVE KeyIsTheTokens
    OBVIOUS
  <2>1. \A r \in DOMAIN stored.requests : stored.requests[r].user \in {Nothing, stored.k}
    BY DEF KeyInv, OneKey
  <2>2. ASSUME cs.session.user # Nothing
        PROVE  signingKey \in {Nothing, cs.session.user}
    <3>1. ~InExchange
      BY <2>2 DEF KeyInv, ExchangeHasKey
    <3>2. PageKey = cs.session.user
      BY <3>1 DEF PageKey
    <3> QED
      BY <2>2, <3>2 DEF KeyInv, OneSigningKey
  <2> QED
    BY <2>1, <2>2 DEF KeyIsTheTokens
<1> QED
  BY <1>1, SessionInvariant, PTL
=============================================================================
