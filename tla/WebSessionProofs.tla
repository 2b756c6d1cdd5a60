-------------------------- MODULE WebSessionProofs --------------------------
(***************************************************************************)
(* Proofs about WebSession, and the RefreshTokens in it, for any number of *)
(* calls, requests and pairs of tokens, and for any number of failures,    *)
(* lost answers, expiries, logouts and reloads of the tab.                 *)
(***************************************************************************)
EXTENDS WebSession, FiniteSetTheorems, TLAPS

USE SessionAssumption, TokenAssumption

-----------------------------------------------------------------------------
(* The inductive invariant. *)

\* A request for a session is under way only while the stored one is not fresh.
TabOK ==
    /\ flight.pc = "none" <=> flight.handler = NoHandler
    /\ lives <= events + 1
    /\ session <= issued
    /\ flight.pc # "none" => ~Fresh(session)

\* A handler of the API has a pair that was issued, unless it serves a login.
ServicesOK ==
    \A h \in Handlers :
        /\ service[h].pc \in {"reading", "revoking", "issued"} => service[h].pair \in Pairs
        /\ service[h].pair <= issued

\* If the request in flight has its answer, the pair in it has not aged.
AnswerIsFresh ==
    flight.pc # "none" /\ Answer = "issued" => access[service[flight.handler].pair] = "fresh"

\* A call that nothing disturbed waits for no login that failed, and the token
\* of its second attempt is good: whatever was issued before the call began
\* has reached the tab by the time it is tried again.
CallersOK ==
    \A c \in Callers :
        /\ caller[c].pc = "requesting" => caller[c].token \in Pairs
        /\ caller[c].pc = "failed" => caller[c].disturbed
        /\ Active(c) /\ ~caller[c].disturbed =>
              /\ Waiting(c) => ~Doomed
              /\ Waiting(c) /\ caller[c].retried => AnswerIsFresh
              /\ caller[c].pc = "requesting" => AnswerIsFresh
              /\ caller[c].pc = "requesting" /\ caller[c].retried =>
                    access[caller[c].token] # "expired"

\* What a refresh token was exchanged for, and the handlers that may still
\* exchange it.
Exchanged(n) == {e \in exchanges : e.from = n}
Exchanging(n) == {h \in Handlers : /\ service[h].pc \in {"reading", "revoking", "issuing"}
                                   /\ service[h].pair = n}
Uses(n) == Cardinality(Exchanged(n)) + Cardinality(Exchanging(n))

\* One use of a refresh token for each life of the tab; that of this life is
\* still to come while the token is in the store and not being refreshed.
UsesOK ==
    \A n \in Pairs :
        /\ IsFiniteSet(Exchanged(n)) /\ IsFiniteSet(Exchanging(n))
        /\ Uses(n) <= lives
        /\ session = n /\ flight.pc # "refreshing" => Uses(n) < lives

\* A pair that is on its way to the tab was not used and is in one answer only.
AnswersAreNew ==
    /\ \A h \in Handlers : service[h].pc = "issued" =>
          /\ session # service[h].pair
          /\ Exchanged(service[h].pair) = {} /\ Exchanging(service[h].pair) = {}
    /\ \A g, h \in Handlers :
          service[g].pc = "issued" /\ service[h].pc = "issued"
          /\ service[g].pair = service[h].pair => g = h
    /\ \A e \in exchanges : e.from <= issued

SessionInv ==
    /\ SessionTypeOK
    /\ TabOK
    /\ ServicesOK
    /\ CallersOK
    /\ UsesOK
    /\ AnswersAreNew

-----------------------------------------------------------------------------
(* The steps. *)

\* The two ways into ensureRoleSession: a new call, and the second attempt of
\* one; current is what the store holds then.
Enters(c, f, current) ==
    /\ EnsureSession(c, f, current)
    /\ session' = current
    /\ \/ f = IdleCaller /\ current = session /\ ~Active(c)
       \/ /\ Rejected(c) /\ current = KeptAfter401(c)
          /\ f = [caller[c] EXCEPT !.retried = TRUE]
    /\ UNCHANGED <<events, lives>>

LEMMA SessionSteps ==
  ASSUME [Next]_vars
  PROVE  \/ \E c \in Callers : \E f, current : Enters(c, f, current)
         \/ \E c \in Callers : Served(c) \/ GiveUp(c) \/ RequestFails(c)
         \/ FlightSucceeds \/ FlightFails \/ RefreshRefused \/ RefreshLost \/ LoginLost
         \/ \E h \in Handlers : Serve(h) \/ Discard(h)
         \/ TokenEvent
         \/ Reload
         \/ UNCHANGED vars
  <1>1. ASSUME NEW c \in Callers, Ask(c)
        PROVE  Enters(c, IdleCaller, session)
    BY <1>1 DEF Ask, Enters, NoEvent
  <1>2. ASSUME NEW c \in Callers, Retry(c)
        PROVE  Enters(c, [caller[c] EXCEPT !.retried = TRUE], KeptAfter401(c))
    BY <1>2 DEF Retry, Enters, NoEvent
  <1>3. QED  BY <1>1, <1>2 DEF Next, CallerStep, FlightStep

\* What the tab sends for what its store holds.
LEMMA SentFrames ==
  ASSUME SessionTypeOK, NEW h \in Handlers, NEW n \in Pairs \cup {NoPair}, Send(h, n)
  PROVE  /\ Free(h) /\ UNCHANGED <<issued, row, access, exchanges>>
         /\ service' = [service EXCEPT ![h] = service'[h]]
         /\ \/ /\ n = NoPair /\ service'[h] = LoginFrame
               /\ flight' = [pc |-> "loggingIn", handler |-> h]
            \/ /\ n \in Pairs /\ service'[h] = RefreshFrame(n)
               /\ flight' = [pc |-> "refreshing", handler |-> h]
         /\ service'[h] \in Services
  <1>1. service' = [service EXCEPT ![h] = IF n = NoPair THEN LoginFrame ELSE RefreshFrame(n)]
    BY DEF Send
  <1>2. service \in [Handlers -> Services]
    BY DEF SessionTypeOK, TokensTypeOK
  <1>3. service'[h] = IF n = NoPair THEN LoginFrame ELSE RefreshFrame(n)
    BY <1>1, <1>2
  <1>4. service'[h] \in Services
    BY <1>3 DEF LoginFrame, RefreshFrame, Services
  <1>5. QED  BY <1>1, <1>2, <1>3, <1>4 DEF Send

\* Where a step takes one handler of the API.
LEMMA WhereHandlersGo ==
  ASSUME SessionInv, [Next]_vars, NEW h \in Handlers
  PROVE  \/ service'[h] = service[h]
         \/ service'[h] = NoService /\ Ended(h)
         \/ service'[h] = LoginFrame /\ Free(h)
         \/ /\ service'[h] = RefreshFrame(session) /\ Free(h) /\ session \in Pairs
            /\ session' = session /\ flight.pc = "none" /\ flight'.pc = "refreshing"
         \/ ReadToken(h) \/ RevokeToken(h) \/ IssuePair(h) \/ ServiceFails(h)
  <1> USE DEF SessionInv, SessionTypeOK, TokensTypeOK
  <1>1. ASSUME NEW c \in Callers, NEW f, NEW current, Enters(c, f, current)
        PROVE  \/ service'[h] = service[h]
               \/ service'[h] = LoginFrame /\ Free(h)
               \/ /\ service'[h] = RefreshFrame(session) /\ Free(h) /\ session \in Pairs
                  /\ session' = session /\ flight.pc = "none" /\ flight'.pc = "refreshing"
    <2>1. current \in {session, NoPair} /\ session' = current
      BY <1>1 DEF Enters, KeptAfter401
    <2>2. CASE UseSession(c, f, current) \/ JoinFlight(c, f, current)
      BY <2>2 DEF UseSession, JoinFlight, tokenVars
    <2>3. CASE StartFlight(c, f, current)
      <3>1. PICK g \in Handlers : Send(g, current)
        BY <2>3 DEF StartFlight
      <3>2. current \in Pairs \cup {NoPair} /\ flight.pc = "none"
        BY <2>1, <2>3 DEF StartFlight
      <3>3. QED  BY <2>1, <3>1, <3>2, SentFrames DEF NoPair, Pairs
    <2>4. QED  BY <1>1, <2>2, <2>3 DEF Enters, EnsureSession
  <1>2. ASSUME NEW c \in Callers, Served(c) \/ GiveUp(c) \/ RequestFails(c)
        PROVE  service'[h] = service[h]
    BY <1>2 DEF Served, GiveUp, RequestFails, tokenVars
  <1>3. CASE FlightSucceeds \/ FlightFails
    BY <1>3 DEF FlightSucceeds, FlightFails, Answered, Answer, Ended
  <1>4. CASE RefreshRefused
    BY <1>4 DEF RefreshRefused, FallBackToLogin, Answer, Ended
  <1>5. CASE RefreshLost
    <2>1. PICK g \in Handlers : Send(g, NoPair)
      BY <1>5 DEF RefreshLost
    <2>2. QED  BY <2>1, SentFrames DEF NoPair, Pairs
  <1>6. CASE LoginLost \/ Reload \/ UNCHANGED vars
    BY <1>6 DEF LoginLost, Reload, vars, tokenVars
  <1>7. ASSUME NEW g \in Handlers, Serve(g)
        PROVE  \/ service'[h] = service[h]
               \/ ReadToken(h) \/ RevokeToken(h) \/ IssuePair(h)
    BY <1>7 DEF Serve, ServiceStep, ReadToken, RevokeToken, IssuePair
  <1>8. ASSUME NEW g \in Handlers, Discard(g)
        PROVE  service'[h] = service[h] \/ (service'[h] = NoService /\ Ended(h))
    BY <1>8 DEF Discard
  <1>9. CASE TokenEvent
    BY <1>9 DEF TokenEvent, ServiceFails, Logout, Age, ExpireToken
  <1>10. QED
    BY <1>1, <1>2, <1>3, <1>4, <1>5, <1>6, <1>7, <1>8, <1>9, SessionSteps

\* Only IssuePair counts pairs and exchanges; otherwise tokens only age.
LEMMA WhatIsIssued ==
  ASSUME SessionInv, [Next]_vars
  PROVE  \/ /\ UNCHANGED <<issued, exchanges>>
            /\ \A n \in Pairs : access'[n] = access[n]
                                \/ (TokenEvent /\ access'[n] \in {"ageing", "expired"})
         \/ \E h \in Handlers : IssuePair(h) /\ Serve(h)
  <1> USE DEF SessionInv, SessionTypeOK, TokensTypeOK
  <1>1. ASSUME NEW c \in Callers, NEW f, NEW current, Enters(c, f, current)
        PROVE  UNCHANGED <<issued, exchanges, access>>
    BY <1>1 DEF Enters, EnsureSession, UseSession, JoinFlight, StartFlight, Send, tokenVars
  <1>2. ASSUME NEW c \in Callers, Served(c) \/ GiveUp(c) \/ RequestFails(c)
        PROVE  UNCHANGED <<issued, exchanges, access>>
    BY <1>2 DEF Served, GiveUp, RequestFails, tokenVars
  <1>3. CASE \/ FlightSucceeds \/ FlightFails \/ RefreshRefused \/ RefreshLost
             \/ LoginLost \/ Reload \/ UNCHANGED vars
    BY <1>3 DEF FlightSucceeds, FlightFails, RefreshRefused, FallBackToLogin, RefreshLost,
                Send, LoginLost, Reload, vars, tokenVars
  <1>4. ASSUME NEW h \in Handlers, Serve(h) \/ Discard(h)
        PROVE  UNCHANGED <<issued, exchanges, access>> \/ (IssuePair(h) /\ Serve(h))
    BY <1>4 DEF Serve, ServiceStep, ReadToken, RevokeToken, Discard
  <1>5. CASE TokenEvent
    <2>1. ASSUME NEW m \in Pairs, Age(m), NEW n \in Pairs
          PROVE  access'[n] = access[n] \/ access'[n] \in {"ageing", "expired"}
      BY <2>1 DEF Age
    <2>2. UNCHANGED <<issued, exchanges>>
      BY <1>5 DEF TokenEvent, ServiceFails, Logout, Age, ExpireToken
    <2>3. (\E m \in Pairs : Age(m)) \/ UNCHANGED access
      BY <1>5 DEF TokenEvent, ServiceFails, Logout, ExpireToken
    <2>4. QED  BY <1>5, <2>1, <2>2, <2>3
  <1>6. QED  BY <1>1, <1>2, <1>3, <1>4, <1>5, SessionSteps

-----------------------------------------------------------------------------
(* Types, and what the tab stores. *)

\* The handlers of the API and their tokens keep their types.
LEMMA TokenTypes ==
  ASSUME SessionInv, [Next]_vars
  PROVE  TokensTypeOK'
  <1> USE DEF SessionInv, SessionTypeOK, TokensTypeOK
  <1>0. flight.pc # "none" => flight.handler \in Handlers
    BY DEF TabOK
  <1>1. NoService \in Services /\ LoginFrame \in Services
    BY DEF NoService, LoginFrame, Services
  <1>2. ASSUME NEW h \in Handlers, NEW n \in Pairs \cup {NoPair}, Send(h, n)
        PROVE  TokensTypeOK'
    BY <1>2, SentFrames
  <1>3. ASSUME NEW c \in Callers, NEW f, NEW current, Enters(c, f, current)
        PROVE  TokensTypeOK'
    <2>1. current \in Pairs \cup {NoPair}
      BY <1>3 DEF Enters, KeptAfter401
    <2>2. QED
      BY <1>2, <1>3, <2>1 DEF Enters, EnsureSession, UseSession, JoinFlight, StartFlight,
                              tokenVars
  <1>4. ASSUME NEW c \in Callers, Served(c) \/ GiveUp(c) \/ RequestFails(c)
        PROVE  TokensTypeOK'
    BY <1>4 DEF Served, GiveUp, RequestFails, tokenVars
  <1>5. CASE FlightSucceeds \/ FlightFails
    BY <1>1, <1>5 DEF FlightSucceeds, FlightFails, Answered
  <1>6. CASE RefreshRefused
    BY <1>1, <1>6 DEF RefreshRefused, FallBackToLogin
  <1>7. CASE RefreshLost
    BY <1>2, <1>7 DEF RefreshLost
  <1>8. CASE LoginLost \/ Reload \/ UNCHANGED vars
    BY <1>8 DEF LoginLost, Reload, vars, tokenVars
  <1>9. ASSUME NEW h \in Handlers, ReadToken(h) \/ RevokeToken(h)
        PROVE  TokensTypeOK'
    BY <1>9 DEF ReadToken, RevokeToken, Services
  <1>10. ASSUME NEW h \in Handlers, IssuePair(h)
         PROVE  TokensTypeOK'
    <2>1. issued + 1 \in Pairs
      BY <1>10 DEF IssuePair, Pairs
    <2>2. [pc |-> "issued", pair |-> issued + 1] \in Services
      BY <2>1 DEF Services
    <2>3. exchanges' \subseteq [from : Pairs, to : Pairs]
      BY <1>10, <2>1 DEF IssuePair, Services
    <2>4. /\ issued' \in 0..MaxPairs
          /\ row' \in [Pairs -> {"none", "live", "revoked", "expired"}]
          /\ access' \in [Pairs -> {"none", "fresh", "ageing", "expired"}]
          /\ service' \in [Handlers -> Services]
      BY <1>10, <2>1, <2>2 DEF IssuePair
    <2>5. QED  BY <2>3, <2>4 DEF Pairs
  <1>11. ASSUME NEW h \in Handlers, Discard(h)
         PROVE  TokensTypeOK'
    BY <1>1, <1>11 DEF Discard
  <1>12. CASE TokenEvent
    BY <1>12 DEF TokenEvent, ServiceFails, Logout, Age, ExpireToken, Services
  <1>13. QED
    BY <1>3, <1>4, <1>5, <1>6, <1>7, <1>8, <1>9, <1>10, <1>11, <1>12, SessionSteps
       DEF Serve, ServiceStep

\* The frames that steps give to callers.
LEMMA FrameTypes ==
  ASSUME SessionTypeOK
  PROVE  /\ IdleCaller \in CallerFrames /\ Disturbed \in [Callers -> CallerFrames]
         /\ \A f \in CallerFrames : Thrown(f) \in CallerFrames
  BY DEF SessionTypeOK, IdleCaller, CallerFrames, Disturbed, Thrown

\* Store, request in flight, callers and bounds keep their types.
LEMMA TabTypes ==
  ASSUME SessionInv, [Next]_vars
  PROVE  SessionTypeOK'
  <1> USE DEF SessionInv
  <1>0. TokensTypeOK' /\ SessionTypeOK /\ lives <= events + 1
    BY TokenTypes DEF TabOK
  <1> DEFINE Flights == [pc : {"none", "refreshing", "loggingIn"},
                         handler : Handlers \cup {NoHandler}]
  <1>1. /\ session \in Pairs \cup {NoPair} /\ flight \in Flights
        /\ caller \in [Callers -> CallerFrames]
        /\ events \in 0..MaxEvents /\ lives \in 1..(MaxEvents + 1)
    BY DEF SessionTypeOK
  <1>2. NoFlight \in Flights
    BY DEF NoFlight
  <1>3. ASSUME NEW h \in Handlers, NEW n \in Pairs \cup {NoPair}, Send(h, n)
        PROVE  flight' \in Flights
    BY <1>0, <1>3, SentFrames
  <1> HIDE DEF Flights
  <1>4. ASSUME session' \in Pairs \cup {NoPair}, flight' \in Flights,
               caller' \in [Callers -> CallerFrames],
               events' = events \/ Event,
               lives' = lives \/ (Event /\ lives' = lives + 1)
        PROVE  SessionTypeOK'
    <2>1. events' \in 0..MaxEvents
      BY <1>1, <1>4 DEF Event
    <2>2. lives' \in 1..(MaxEvents + 1)
      BY <1>0, <1>1, <1>4 DEF Event
    <2>3. QED  BY <1>0, <1>4, <2>1, <2>2 DEF SessionTypeOK, Flights, Pairs
  <1>5. ASSUME NEW c \in Callers, NEW f, NEW current, Enters(c, f, current)
        PROVE  SessionTypeOK'
    <2>1. /\ current \in Pairs \cup {NoPair} /\ session' = current /\ f \in CallerFrames
          /\ events' = events /\ lives' = lives
      BY <1>0, <1>1, <1>5, FrameTypes DEF Enters, KeptAfter401, CallerFrames
    <2>2. flight' \in Flights
      BY <1>1, <1>3, <1>5, <2>1 DEF Enters, EnsureSession, UseSession, JoinFlight, StartFlight
    <2>3. CASE UseSession(c, f, current)
      <3>1. current \in Pairs
        BY <2>1, <2>3 DEF UseSession, Fresh
      <3>2. [f EXCEPT !.pc = "requesting", !.token = current] \in CallerFrames
        BY <2>1, <3>1 DEF CallerFrames
      <3>3. caller' \in [Callers -> CallerFrames]
        BY <1>1, <2>3, <3>2 DEF UseSession
      <3>4. QED  BY <1>4, <2>1, <2>2, <3>3
    <2>4. CASE JoinFlight(c, f, current) \/ StartFlight(c, f, current)
      <3>1. /\ [f EXCEPT !.pc = "waiting", !.disturbed = @ \/ Doomed] \in CallerFrames
            /\ [f EXCEPT !.pc = "waiting"] \in CallerFrames
        BY <2>1 DEF CallerFrames, Doomed
      <3>2. caller' \in [Callers -> CallerFrames]
        BY <1>1, <2>4, <3>1 DEF JoinFlight, StartFlight
      <3>3. QED  BY <1>4, <2>1, <2>2, <3>2
    <2>5. QED  BY <1>5, <2>3, <2>4 DEF Enters, EnsureSession
  <1>6. ASSUME NEW c \in Callers, Served(c) \/ GiveUp(c) \/ RequestFails(c)
        PROVE  SessionTypeOK'
    BY <1>0, <1>1, <1>4, <1>6, FrameTypes DEF Served, GiveUp, RequestFails, NoEvent
  <1>7. ASSUME NEW frames \in [Callers -> CallerFrames], ThrowInto(frames)
        PROVE  caller' \in [Callers -> CallerFrames]
    BY <1>0, <1>7, FrameTypes DEF ThrowInto
  <1>8. CASE FlightSucceeds
    <2>1. flight.handler \in Handlers /\ service[flight.handler].pc = "issued"
      BY <1>1, <1>8 DEF FlightSucceeds, Answer, TabOK, Flights
    <2>2. session' \in Pairs
      BY <1>8, <2>1 DEF FlightSucceeds, ServicesOK
    <2>3. caller' \in [Callers -> CallerFrames]
      BY <1>1, <1>8, <2>2 DEF FlightSucceeds, Wake, CallerFrames
    <2>4. QED  BY <1>2, <1>4, <1>8, <2>2, <2>3 DEF FlightSucceeds, NoEvent
  <1>9. CASE FlightFails
    BY <1>1, <1>2, <1>4, <1>7, <1>9 DEF FlightFails, NoEvent
  <1>10. CASE RefreshRefused
    BY <1>1, <1>4, <1>10 DEF RefreshRefused, FallBackToLogin, NoEvent, Flights
  <1>11. CASE RefreshLost
    BY <1>0, <1>3, <1>4, <1>11, FrameTypes DEF RefreshLost
  <1>12. CASE LoginLost
    BY <1>0, <1>1, <1>2, <1>4, <1>7, <1>12, FrameTypes DEF LoginLost
  <1>13. ASSUME NEW h \in Handlers, Serve(h) \/ Discard(h)
         PROVE  SessionTypeOK'
    BY <1>1, <1>4, <1>13 DEF Serve, Discard, NoEvent, tabVars
  <1>14. CASE TokenEvent
    BY <1>0, <1>1, <1>4, <1>14, FrameTypes DEF TokenEvent
  <1>15. CASE Reload
    BY <1>0, <1>1, <1>2, <1>4, <1>15, FrameTypes DEF Reload
  <1>16. CASE UNCHANGED vars
    BY <1>1, <1>4, <1>16 DEF vars, tabVars
  <1>17. QED
    BY <1>5, <1>6, <1>8, <1>9, <1>10, <1>11, <1>12, <1>13, <1>14, <1>15, <1>16, SessionSteps

\* How often tokens were issued: never backwards.
LEMMA IssuedGrows ==
  ASSUME SessionInv, [Next]_vars
  PROVE  issued \in Nat /\ issued' \in Nat /\ issued <= issued'
  <1>1. issued \in Nat /\ issued' \in Nat
    BY TabTypes DEF SessionInv, SessionTypeOK, TokensTypeOK
  <1>2. QED  BY <1>1, WhatIsIssued DEF IssuePair

\* The handlers keep to pairs that were issued.
LEMMA ServicesStep ==
  ASSUME SessionInv, [Next]_vars
  PROVE  ServicesOK'
  <1> SUFFICES ASSUME NEW h \in Handlers
               PROVE  /\ service'[h].pc \in {"reading", "revoking", "issued"} =>
                           service'[h].pair \in Pairs
                      /\ service'[h].pair <= issued'
    BY DEF ServicesOK, Pairs
  <1> USE DEF SessionInv
  <1>0. /\ issued \in Nat /\ issued' \in Nat /\ issued <= issued'
        /\ service[h] \in Services /\ service \in [Handlers -> Services]
        /\ service[h].pair \in Nat /\ session \in Nat
    BY IssuedGrows DEF SessionTypeOK, TokensTypeOK, Services, Pairs, NoPair
  <1>1. /\ service[h].pc \in {"reading", "revoking", "issued"} => service[h].pair \in Pairs
        /\ service[h].pair <= issued /\ session <= issued
    BY DEF ServicesOK, TabOK
  <1>2. CASE service'[h] = service[h]
    BY <1>0, <1>1, <1>2
  <1>3. CASE service'[h] \in {NoService, LoginFrame}
    BY <1>0, <1>3 DEF NoService, LoginFrame, NoPair
  <1>4. CASE service'[h] = RefreshFrame(session) /\ session \in Pairs
    BY <1>0, <1>1, <1>4 DEF RefreshFrame
  <1>5. CASE ReadToken(h) \/ RevokeToken(h) \/ ServiceFails(h)
    <2>1. /\ service'[h].pair = service[h].pair
          /\ service[h].pc \in {"reading", "revoking", "issuing"}
          /\ service'[h].pc \in {"revoking", "refused", "issuing", "failed"}
          /\ service'[h].pc = "revoking" => service[h].pc = "reading"
      BY <1>0, <1>5 DEF ReadToken, RevokeToken, ServiceFails, Services
    <2>2. QED  BY <1>0, <1>1, <2>1
  <1>6. CASE IssuePair(h)
    BY <1>0, <1>6 DEF IssuePair, Pairs
  <1>7. QED  BY <1>2, <1>3, <1>4, <1>5, <1>6, WhereHandlersGo

-----------------------------------------------------------------------------
(* A fresh session is kept. *)

\* What has aged does not become fresh again.
LEMMA StaysStale ==
  ASSUME SessionInv, [Next]_vars, NEW n \in Pairs, n <= issued, access[n] # "fresh"
  PROVE  access'[n] # "fresh"
  <1> USE DEF SessionInv, SessionTypeOK, TokensTypeOK
  <1>1. ASSUME NEW h \in Handlers, IssuePair(h)
        PROVE  access'[n] = access[n]
    BY <1>1 DEF IssuePair, Pairs
  <1>2. QED  BY <1>1, WhatIsIssued

\* The steps that change the store, and what they find there.
LEMMA WhoReplacesTheSession ==
  ASSUME SessionInv, [Next]_vars
  PROVE  \/ session' = session
         \/ ~Fresh(session) /\ session' = NoPair
         \/ /\ FlightSucceeds /\ ~Fresh(session) /\ flight.handler \in Handlers
            /\ service[flight.handler].pc = "issued"
            /\ session' = service[flight.handler].pair
  <1> USE DEF SessionInv
  <1>1. ASSUME NEW c \in Callers, NEW f, NEW current, Enters(c, f, current)
        PROVE  session' = session \/ (~Fresh(session) /\ session' = NoPair)
    BY <1>1 DEF Enters, KeptAfter401, Rejected, Fresh
  <1>2. ASSUME NEW c \in Callers, Served(c) \/ GiveUp(c) \/ RequestFails(c)
        PROVE  session' = session
    BY <1>2 DEF Served, GiveUp, RequestFails
  <1>3. CASE FlightSucceeds
    BY <1>3 DEF FlightSucceeds, Answer, TabOK, SessionTypeOK
  <1>4. CASE RefreshRefused \/ RefreshLost
    BY <1>4 DEF RefreshRefused, FallBackToLogin, RefreshLost, TabOK
  <1>5. CASE FlightFails \/ LoginLost \/ TokenEvent \/ Reload \/ UNCHANGED vars
    BY <1>5 DEF FlightFails, LoginLost, TokenEvent, Reload, vars, tabVars
  <1>6. ASSUME NEW h \in Handlers, Serve(h) \/ Discard(h)
        PROVE  session' = session
    BY <1>6 DEF Serve, Discard, tabVars
  <1>7. QED  BY <1>1, <1>2, <1>3, <1>4, <1>5, <1>6, SessionSteps

\* Nothing is asked for while the stored session is fresh.
LEMMA TabStep ==
  ASSUME SessionInv, [Next]_vars
  PROVE  TabOK'
  <1> USE DEF SessionInv
  <1>0. /\ session \in Pairs \cup {NoPair} /\ session <= issued
        /\ issued \in Nat /\ issued' \in Nat /\ issued <= issued'
        /\ lives \in Nat /\ events \in Nat /\ lives <= events + 1
        /\ flight.pc = "none" <=> flight.handler = NoHandler
        /\ flight.pc # "none" => ~Fresh(session)
    BY IssuedGrows DEF TabOK, SessionTypeOK
  <1>1. session' <= issued'
    <2>1. CASE session' = session \/ session' = NoPair
      BY <1>0, <2>1 DEF NoPair, Pairs
    <2>2. CASE flight.handler \in Handlers /\ session' = service[flight.handler].pair
      <3>1. service[flight.handler].pair \in Nat
        BY <2>2 DEF SessionTypeOK, TokensTypeOK, Services, Pairs, NoPair
      <3>2. QED  BY <1>0, <2>2, <3>1 DEF ServicesOK
    <2>3. QED  BY <2>1, <2>2, WhoReplacesTheSession
  <1>2. ASSUME ~Fresh(session), session' = session
        PROVE  ~Fresh(session)'
    BY <1>0, <1>2, StaysStale DEF Fresh
  <1>3. ~Fresh(NoPair)'
    BY DEF Fresh
  <1>4. ASSUME lives' <= events' + 1, flight' = flight, session' = session
        PROVE  TabOK'
    BY <1>0, <1>1, <1>2, <1>4 DEF TabOK, Fresh
  <1>5. ASSUME lives' <= events' + 1, flight' = NoFlight
        PROVE  TabOK'
    BY <1>1, <1>5 DEF TabOK, NoFlight
  <1>6. ASSUME lives' <= events' + 1, NEW h \in Handlers,
               flight'.handler = h, flight'.pc # "none", ~Fresh(session)'
        PROVE  TabOK'
    BY <1>1, <1>6 DEF TabOK
  <1>7. ASSUME NEW c \in Callers, NEW f, NEW current, Enters(c, f, current)
        PROVE  TabOK'
    <2>1. /\ session' = current /\ current \in {session, NoPair}
          /\ lives' <= events' + 1
      BY <1>0, <1>7 DEF Enters, KeptAfter401
    <2>2. CASE UseSession(c, f, current)
      <3>1. current = session /\ flight' = flight
        BY <2>1, <2>2 DEF UseSession, Fresh
      <3>2. QED  BY <1>4, <2>1, <3>1
    <2>3. ASSUME ~Fresh(current), access' = access
          PROVE  ~Fresh(session)'
      BY <2>1, <2>3 DEF Fresh
    <2>4. CASE JoinFlight(c, f, current)
      BY <1>0, <1>1, <2>1, <2>3, <2>4 DEF JoinFlight, tokenVars, TabOK
    <2>5. CASE StartFlight(c, f, current)
      <3>1. PICK h \in Handlers : Send(h, current)
        BY <2>5 DEF StartFlight
      <3>2. /\ flight'.handler = h /\ flight'.pc # "none" /\ access' = access
        BY <3>1 DEF Send
      <3>3. QED  BY <1>6, <2>1, <2>3, <2>5, <3>2 DEF StartFlight
    <2>6. QED  BY <1>7, <2>2, <2>4, <2>5 DEF Enters, EnsureSession
  <1>8. ASSUME NEW c \in Callers, Served(c) \/ GiveUp(c) \/ RequestFails(c)
        PROVE  TabOK'
    BY <1>0, <1>4, <1>8 DEF Served, GiveUp, RequestFails, NoEvent, Event
  <1>9. CASE FlightSucceeds \/ FlightFails \/ LoginLost \/ Reload
    BY <1>0, <1>5, <1>9 DEF FlightSucceeds, FlightFails, LoginLost, Reload, NoEvent, Event
  <1>10. ASSUME RefreshRefused \/ RefreshLost
         PROVE  TabOK'
    <2>1. /\ session' = NoPair /\ lives' <= events' + 1
          /\ \E h \in Handlers : flight'.handler = h /\ flight'.pc # "none"
      BY <1>0, <1>10 DEF RefreshRefused, FallBackToLogin, RefreshLost, Send, NoEvent, Event
    <2>2. QED  BY <1>3, <1>6, <2>1 DEF Fresh
  <1>11. ASSUME NEW h \in Handlers, Serve(h) \/ Discard(h)
         PROVE  TabOK'
    BY <1>0, <1>4, <1>11 DEF Serve, Discard, NoEvent, tabVars
  <1>12. CASE TokenEvent
    BY <1>0, <1>4, <1>12 DEF TokenEvent, Event
  <1>13. CASE UNCHANGED vars
    BY <1>0, <1>4, <1>13 DEF vars, tabVars
  <1>14. QED
    BY <1>7, <1>8, <1>9, <1>10, <1>11, <1>12, <1>13, SessionSteps

-----------------------------------------------------------------------------
(* What is on its way to the tab is new. *)

LEMMA NewPair ==
  ASSUME SessionInv, NEW h \in Handlers, IssuePair(h)
  PROVE  /\ issued + 1 \in Pairs /\ issued' = issued + 1
         /\ service'[h] = [pc |-> "issued", pair |-> issued + 1]
         /\ \A g \in Handlers : g # h => service'[g] = service[g]
         /\ access'[issued + 1] = "fresh"
         /\ \A n \in Pairs : n # issued + 1 => access'[n] = access[n]
         /\ exchanges' = IF service[h].pair = NoPair THEN exchanges
                         ELSE exchanges \cup {[from |-> service[h].pair, to |-> issued + 1]}
         /\ service[h].pc = "issuing"
  BY DEF SessionInv, SessionTypeOK, TokensTypeOK, IssuePair, Pairs

\* The handlers that may still exchange the refresh token of a pair: one more
\* when the tab sends it, one less when a pair is issued for it.
LEMMA WhoExchanges ==
  ASSUME SessionInv, [Next]_vars, NEW n \in Pairs, NEW h \in Exchanging(n)',
         h \notin Exchanging(n)
  PROVE  /\ n = session /\ service'[h] = RefreshFrame(n)
         /\ session' = session /\ flight.pc = "none" /\ flight'.pc = "refreshing"
  <1> USE DEF SessionInv, SessionTypeOK, TokensTypeOK
  <1>1. h \in Handlers /\ service'[h].pc \in {"reading", "revoking", "issuing"}
        /\ service'[h].pair = n /\ service'[h] # service[h]
    BY DEF Exchanging
  <1>2. service'[h] # NoService /\ service'[h] # LoginFrame
    BY <1>1 DEF NoService, LoginFrame, NoPair, Pairs
  <1>3. ~ReadToken(h) /\ ~RevokeToken(h) /\ ~IssuePair(h) /\ ~ServiceFails(h)
    BY <1>1 DEF ReadToken, RevokeToken, IssuePair, ServiceFails, Services, Exchanging
  <1>4. QED  BY <1>1, <1>2, <1>3, WhereHandlersGo DEF RefreshFrame

LEMMA AnswersStep ==
  ASSUME SessionInv, [Next]_vars
  PROVE  AnswersAreNew'
  <1> USE DEF SessionInv
  <1>0. /\ issued \in Nat /\ session <= issued /\ service \in [Handlers -> Services]
        /\ session \in Nat
        /\ \A h \in Handlers : service[h].pair \in Nat /\ service[h].pair <= issued
        /\ exchanges \subseteq [from : Pairs, to : Pairs]
    BY IssuedGrows DEF SessionTypeOK, TokensTypeOK, Services, Pairs, NoPair, TabOK, ServicesOK
  <1>1. ASSUME NEW h \in Handlers, service'[h].pc = "issued"
        PROVE  service'[h] = service[h] \/ IssuePair(h)
    BY <1>0, <1>1, WhereHandlersGo DEF NoService, LoginFrame, RefreshFrame, ReadToken,
       RevokeToken, ServiceFails, Services
  <1>2. ASSUME NEW i \in Handlers, IssuePair(i), session' = session, flight' = flight
        PROVE  AnswersAreNew'
    <2> PICK new \in Pairs : new = issued + 1
      BY <1>2, NewPair
    <2>0. /\ new \in Pairs /\ issued' = new /\ new \in Nat
          /\ service'[i] = [pc |-> "issued", pair |-> new]
          /\ \A g \in Handlers : g # i => service'[g] = service[g]
          /\ exchanges' = IF service[i].pair = NoPair THEN exchanges
                          ELSE exchanges \cup {[from |-> service[i].pair, to |-> new]}
          /\ service[i].pc = "issuing"
      BY <1>0, <1>2, NewPair
    <2>1. \A h \in Handlers : service[h].pair # new /\ session # new
      BY <1>0
    <2>2. \A e \in exchanges' : e \in exchanges \/ e.from = service[i].pair
      BY <2>0
    <2>3. \A e \in exchanges' : e.from <= issued /\ e.from # new
      BY <1>0, <2>2 DEF AnswersAreNew, Pairs
    <2>4. \A n \in Pairs : Exchanging(n)' \subseteq Exchanging(n)
      BY <1>2, WhoExchanges, <2>0 DEF RefreshFrame, Exchanging
    <2>5. ASSUME NEW h \in Handlers, service'[h].pc = "issued", NEW n, n = service'[h].pair
          PROVE  session' # n /\ Exchanged(n)' = {} /\ Exchanging(n)' = {}
      <3>1. CASE h = i
        <4>1. Exchanged(new)' = {}
          BY <2>3 DEF Exchanged
        <4>2. Exchanging(new) = {}
          BY <2>1 DEF Exchanging
        <4>3. Exchanging(new)' = {}
          BY <2>0, <2>4, <4>2
        <4>4. n = new
          BY <2>0, <2>5, <3>1
        <4>5. QED  BY <1>2, <2>1, <4>1, <4>3, <4>4
      <3>2. CASE h # i
        <4>0. /\ n \in Pairs /\ n = service[h].pair /\ service[h].pc = "issued"
              /\ service'[h] = service[h]
          BY <2>0, <2>5, <3>2 DEF ServicesOK
        <4>1. /\ session # n /\ Exchanged(n) = {} /\ Exchanging(n) = {}
          BY <4>0 DEF AnswersAreNew
        <4>2. service[i].pair # n
          BY <2>0, <4>1 DEF Exchanging
        <4>3. Exchanged(n)' = {}
          BY <2>2, <4>1, <4>2 DEF Exchanged
        <4>4. Exchanging(n)' = {}
          BY <2>4, <4>0, <4>1
        <4>5. QED  BY <1>2, <4>1, <4>3, <4>4
      <3>3. QED  BY <3>1, <3>2
    <2>6. ASSUME NEW g \in Handlers, NEW h \in Handlers, service'[g].pc = "issued",
                 service'[h].pc = "issued", service'[g].pair = service'[h].pair
          PROVE  g = h
      BY <2>0, <2>1, <2>6 DEF AnswersAreNew
    <2>7. \A e \in exchanges' : e.from <= issued'
      <3>1. \A e \in exchanges' : e.from \in Nat
        BY <2>2, <1>0 DEF Pairs
      <3>2. QED  BY <1>0, <2>0, <2>3, <3>1
    <2>8. QED  BY <2>5, <2>6, <2>7 DEF AnswersAreNew, Exchanged, Exchanging
  <1>3. ASSUME \A i \in Handlers : ~IssuePair(i), UNCHANGED <<issued, exchanges>>
        PROVE  AnswersAreNew'
    <2>1. ASSUME NEW h \in Handlers, service'[h].pc = "issued", NEW n, n = service'[h].pair
          PROVE  session' # n /\ Exchanged(n)' = {} /\ Exchanging(n)' = {}
      <3>0. /\ n \in Pairs /\ n = service[h].pair /\ service[h].pc = "issued"
            /\ service'[h] = service[h]
        BY <1>1, <1>3, <2>1 DEF ServicesOK
      <3>1. /\ session # n /\ Exchanged(n) = {} /\ Exchanging(n) = {}
        BY <3>0 DEF AnswersAreNew
      <3>2. Exchanged(n)' = {}
        BY <1>3, <3>1 DEF Exchanged
      <3>3. Exchanging(n)' = {}
        BY <3>0, <3>1, WhoExchanges
      <3>4. session' # n
        <4>1. CASE session' \in {session, NoPair}
          BY <3>0, <3>1, <4>1 DEF NoPair, Pairs
        <4>2. CASE /\ FlightSucceeds /\ flight.handler \in Handlers
                   /\ service[flight.handler].pc = "issued"
                   /\ session' = service[flight.handler].pair
          <5>1. service'[flight.handler] = NoService
            BY <1>0, <4>2 DEF FlightSucceeds, Answered
          <5>2. flight.handler # h
            BY <2>1, <5>1 DEF NoService
          <5>3. QED  BY <3>0, <4>2, <5>2 DEF AnswersAreNew
        <4>3. QED  BY <4>1, <4>2, WhoReplacesTheSession
      <3>5. QED  BY <3>2, <3>3, <3>4
    <2>2. ASSUME NEW g \in Handlers, NEW h \in Handlers, service'[g].pc = "issued",
                 service'[h].pc = "issued", service'[g].pair = service'[h].pair
          PROVE  g = h
      BY <1>1, <1>3, <2>2 DEF AnswersAreNew
    <2>3. QED  BY <1>3, <2>1, <2>2 DEF AnswersAreNew, Exchanged, Exchanging
  <1>4. ASSUME NEW i \in Handlers, IssuePair(i)
        PROVE  session' = session /\ flight' = flight
    <2>1. ~(UNCHANGED <<issued, exchanges>>)
      BY <1>0, <1>4 DEF IssuePair
    <2>2. \E h \in Handlers : Serve(h)
      BY <2>1, WhatIsIssued
    <2>3. QED  BY <2>2 DEF Serve, tabVars
  <1>5. QED
    BY <1>2, <1>3, <1>4, WhatIsIssued

-----------------------------------------------------------------------------
(* One exchange in each life of the tab. *)

\* A refresh that begins is sent by one request, which the store stays for.
LEMMA WhenARefreshBegins ==
  ASSUME SessionInv, [Next]_vars, flight.pc = "none", flight'.pc = "refreshing"
  PROVE  /\ UNCHANGED <<exchanges, lives>>
         /\ \E h \in Handlers : \A g \in Handlers : g # h => service'[g] = service[g]
  <1> USE DEF SessionInv, SessionTypeOK, TokensTypeOK
  <1>1. ASSUME NEW c \in Callers, NEW f, NEW current, Enters(c, f, current)
        PROVE  /\ UNCHANGED <<exchanges, lives>>
               /\ \E h \in Handlers : \A g \in Handlers : g # h => service'[g] = service[g]
    BY <1>1 DEF Enters, EnsureSession, UseSession, JoinFlight, StartFlight, Send
  <1>2. ASSUME NEW c \in Callers, Served(c) \/ GiveUp(c) \/ RequestFails(c)
        PROVE  FALSE
    BY <1>2 DEF Served, GiveUp, RequestFails
  <1>3. ASSUME \/ FlightSucceeds \/ FlightFails \/ RefreshRefused \/ RefreshLost
               \/ LoginLost \/ TokenEvent \/ Reload \/ UNCHANGED vars
        PROVE  FALSE
    BY <1>3 DEF FlightSucceeds, FlightFails, RefreshRefused, RefreshLost, LoginLost,
                TokenEvent, Reload, vars, tabVars, NoFlight
  <1>4. ASSUME NEW h \in Handlers, Serve(h) \/ Discard(h)
        PROVE  FALSE
    BY <1>4 DEF Serve, Discard, tabVars
  <1>5. QED  BY <1>1, <1>2, <1>3, <1>4, SessionSteps

\* A refresh that ends, ends the session it was for, or a life of the tab.
LEMMA WhenARefreshEnds ==
  ASSUME SessionInv, [Next]_vars, flight.pc = "refreshing", flight'.pc # "refreshing",
         session' = session
  PROVE  session = NoPair \/ lives' = lives + 1
  <1> USE DEF SessionInv
  <1>1. ASSUME NEW c \in Callers, NEW f, NEW current, Enters(c, f, current)
        PROVE  FALSE
    BY <1>1 DEF Enters, EnsureSession, UseSession, JoinFlight, StartFlight
  <1>2. ASSUME NEW c \in Callers, Served(c) \/ GiveUp(c) \/ RequestFails(c)
        PROVE  FALSE
    BY <1>2 DEF Served, GiveUp, RequestFails
  <1>3. ASSUME FlightFails \/ LoginLost \/ TokenEvent \/ UNCHANGED vars
        PROVE  FALSE
    BY <1>3 DEF FlightFails, LoginLost, TokenEvent, vars, tabVars
  <1>4. ASSUME FlightSucceeds
        PROVE  FALSE
    <2>1. /\ flight.handler \in Handlers /\ service[flight.handler].pc = "issued"
          /\ session' = service[flight.handler].pair
      BY <1>4 DEF FlightSucceeds, Answer, TabOK, SessionTypeOK
    <2>2. QED  BY <2>1 DEF AnswersAreNew
  <1>5. CASE RefreshRefused \/ RefreshLost
    BY <1>5 DEF RefreshRefused, FallBackToLogin, RefreshLost
  <1>6. CASE Reload
    BY <1>6 DEF Reload
  <1>7. ASSUME NEW h \in Handlers, Serve(h) \/ Discard(h)
        PROVE  FALSE
    BY <1>7 DEF Serve, Discard, tabVars
  <1>8. QED  BY <1>1, <1>2, <1>3, <1>4, <1>5, <1>6, <1>7, SessionSteps

\* The tab is not loaded backwards.
LEMMA LivesGrow ==
  ASSUME SessionInv, [Next]_vars
  PROVE  lives \in Nat /\ lives' \in Nat /\ lives >= 1 /\ lives <= lives'
  <1>1. lives \in Nat /\ lives' \in Nat /\ lives >= 1
    BY TabTypes DEF SessionInv, SessionTypeOK
  <1>2. lives' = lives \/ lives' = lives + 1
    BY SessionSteps
       DEF Enters, Served, GiveUp, RequestFails, FlightSucceeds, FlightFails, RefreshRefused,
           RefreshLost, LoginLost, Serve, Discard, TokenEvent, Reload, vars
  <1>3. QED  BY <1>1, <1>2

\* One element more counts for one at most.
LEMMA OneMore ==
  ASSUME NEW S, NEW x, IsFiniteSet(S)
  PROVE  /\ IsFiniteSet(S \cup {x}) /\ Cardinality(S \cup {x}) \in Nat
         /\ Cardinality(S \cup {x}) <= Cardinality(S) + 1
  <1>1. Cardinality(S) \in Nat
    BY FS_CardinalityType
  <1>2. IsFiniteSet(S \cup {x})
    BY FS_AddElement
  <1>3. Cardinality(S \cup {x}) = Cardinality(S)
        \/ Cardinality(S \cup {x}) = Cardinality(S) + 1
    BY FS_AddElement
  <1>4. QED  BY <1>1, <1>2, <1>3

\* The uses of one refresh token after a step that begins none.
LEMMA UsesKept ==
  ASSUME SessionInv, [Next]_vars, NEW n \in Pairs, Exchanging(n)' \subseteq Exchanging(n)
  PROVE  /\ IsFiniteSet(Exchanged(n)') /\ IsFiniteSet(Exchanging(n)')
         /\ Uses(n) \in Nat /\ Uses(n)' \in Nat /\ Uses(n)' <= Uses(n)
         /\ Uses(n) = 0 <=> Exchanged(n) = {} /\ Exchanging(n) = {}
  <1>0. /\ IsFiniteSet(Exchanged(n)) /\ IsFiniteSet(Exchanging(n))
        /\ Cardinality(Exchanged(n)) \in Nat /\ Cardinality(Exchanging(n)) \in Nat
    BY FS_CardinalityType DEF SessionInv, UsesOK
  <1>1. Uses(n) = 0 <=> Exchanged(n) = {} /\ Exchanging(n) = {}
    BY <1>0, FS_EmptySet DEF Uses
  <1>2. /\ IsFiniteSet(Exchanging(n)')
        /\ Cardinality(Exchanging(n)') \in Nat
        /\ Cardinality(Exchanging(n)') <= Cardinality(Exchanging(n))
    BY <1>0, FS_Subset, FS_CardinalityType
  <1>3. CASE Exchanged(n)' = Exchanged(n)
    <2>1. Cardinality(Exchanged(n)') = Cardinality(Exchanged(n))
      BY <1>3
    <2>2. QED  BY <1>0, <1>1, <1>2, <1>3, <2>1 DEF Uses
  <1>4. ASSUME NEW h \in Handlers, IssuePair(h), service[h].pair = n
        PROVE  /\ IsFiniteSet(Exchanged(n)') /\ Uses(n)' \in Nat /\ Uses(n)' <= Uses(n)
    <2> DEFINE e == [from |-> n, to |-> issued + 1]
    <2>1. exchanges' = exchanges \cup {e} /\ service'[h].pc = "issued"
          /\ service[h].pc = "issuing"
      BY <1>4, NewPair DEF NoPair, Pairs
    <2>2. Exchanged(n)' = Exchanged(n) \cup {e}
      BY <2>1 DEF Exchanged
    <2>3. /\ IsFiniteSet(Exchanged(n)') /\ Cardinality(Exchanged(n)') \in Nat
          /\ Cardinality(Exchanged(n)') <= Cardinality(Exchanged(n)) + 1
      BY <1>0, <2>2, OneMore
    <2>4. h \in Exchanging(n) /\ Exchanging(n)' \subseteq Exchanging(n) \ {h}
      BY <1>4, <2>1 DEF Exchanging
    <2>5. /\ IsFiniteSet(Exchanging(n) \ {h})
          /\ Cardinality(Exchanging(n) \ {h}) = Cardinality(Exchanging(n)) - 1
      BY <1>0, <2>4, FS_RemoveElement
    <2>6. Cardinality(Exchanging(n)') <= Cardinality(Exchanging(n)) - 1
      BY <2>4, <2>5, FS_Subset
    <2>7. QED  BY <1>0, <1>2, <2>3, <2>6 DEF Uses
  <1>5. ASSUME NEW h \in Handlers, IssuePair(h), service[h].pair # n
        PROVE  Exchanged(n)' = Exchanged(n)
    BY <1>5, NewPair DEF Exchanged
  <1>6. CASE UNCHANGED exchanges
    BY <1>3, <1>6 DEF Exchanged
  <1>7. QED
    BY <1>0, <1>1, <1>2, <1>3, <1>4, <1>5, <1>6, WhatIsIssued DEF Uses

LEMMA UsesStep ==
  ASSUME SessionInv, [Next]_vars
  PROVE  UsesOK'
  <1> SUFFICES ASSUME NEW n \in Pairs
               PROVE  /\ IsFiniteSet(Exchanged(n)') /\ IsFiniteSet(Exchanging(n)')
                      /\ Uses(n)' <= lives'
                      /\ session' = n /\ flight'.pc # "refreshing" => Uses(n)' < lives'
    BY DEF UsesOK, Pairs
  <1>0. /\ IsFiniteSet(Exchanged(n)) /\ IsFiniteSet(Exchanging(n))
        /\ Uses(n) <= lives
        /\ session = n /\ flight.pc # "refreshing" => Uses(n) < lives
    BY DEF SessionInv, UsesOK
  <1>1. CASE Exchanging(n)' \subseteq Exchanging(n)
    <2>1. /\ IsFiniteSet(Exchanged(n)') /\ IsFiniteSet(Exchanging(n)')
          /\ Uses(n) \in Nat /\ Uses(n)' \in Nat /\ Uses(n)' <= Uses(n)
          /\ Uses(n) = 0 <=> Exchanged(n) = {} /\ Exchanging(n) = {}
      BY <1>1, UsesKept
    <2>2. Uses(n)' <= lives'
      BY <1>0, <2>1, LivesGrow
    <2>3. ASSUME session' = n, flight'.pc # "refreshing"
          PROVE  Uses(n)' < lives'
      <3>1. CASE session = n
        <4>1. CASE flight.pc # "refreshing"
          BY <1>0, <2>1, <3>1, <4>1, LivesGrow
        <4>2. CASE flight.pc = "refreshing"
          <5>1. lives' = lives + 1
            BY <2>3, <3>1, <4>2, WhenARefreshEnds DEF NoPair, Pairs
          <5>2. QED  BY <1>0, <2>1, <5>1, LivesGrow
        <4>3. QED  BY <4>1, <4>2
      <3>2. CASE session # n
        <4>1. /\ flight.handler \in Handlers /\ service[flight.handler].pc = "issued"
              /\ n = service[flight.handler].pair
          BY <2>3, <3>2, WhoReplacesTheSession DEF NoPair, Pairs
        <4>2. Exchanged(n) = {} /\ Exchanging(n) = {}
          BY <4>1 DEF SessionInv, AnswersAreNew
        <4>3. QED  BY <2>1, <4>2, LivesGrow
      <3>3. QED  BY <3>1, <3>2
    <2>4. QED  BY <2>1, <2>2, <2>3
  <1>2. ASSUME NEW h \in Exchanging(n)', h \notin Exchanging(n)
        PROVE  /\ IsFiniteSet(Exchanged(n)') /\ IsFiniteSet(Exchanging(n)')
               /\ Uses(n)' <= lives' /\ flight'.pc = "refreshing"
    <2>1. /\ n = session /\ flight.pc = "none" /\ flight'.pc = "refreshing"
      BY <1>2, WhoExchanges
    <2>2. PICK g \in Handlers : \A k \in Handlers : k # g => service'[k] = service[k]
      BY <2>1, WhenARefreshBegins
    <2>3. Exchanging(n)' \subseteq Exchanging(n) \cup {g}
      BY <2>2 DEF Exchanging
    <2>4. /\ Cardinality(Exchanged(n)) \in Nat /\ Cardinality(Exchanging(n)) \in Nat
      BY <1>0, FS_CardinalityType
    <2>5. /\ IsFiniteSet(Exchanging(n) \cup {g})
          /\ Cardinality(Exchanging(n) \cup {g}) \in Nat
          /\ Cardinality(Exchanging(n) \cup {g}) <= Cardinality(Exchanging(n)) + 1
      BY <1>0, OneMore
    <2>6. /\ IsFiniteSet(Exchanging(n)') /\ Cardinality(Exchanging(n)') \in Nat
          /\ Cardinality(Exchanging(n)') <= Cardinality(Exchanging(n)) + 1
      <3>1. /\ IsFiniteSet(Exchanging(n)')
            /\ Cardinality(Exchanging(n)') <= Cardinality(Exchanging(n) \cup {g})
        BY <2>3, <2>5, FS_Subset
      <3>2. Cardinality(Exchanging(n)') \in Nat
        BY <3>1, FS_CardinalityType
      <3>3. QED  BY <2>4, <2>5, <3>1, <3>2
    <2>7. Exchanged(n)' = Exchanged(n) /\ lives' = lives
      BY <2>1, WhenARefreshBegins DEF Exchanged
    <2>8. Cardinality(Exchanged(n)') = Cardinality(Exchanged(n)) /\ IsFiniteSet(Exchanged(n)')
      BY <1>0, <2>7
    <2>9. Uses(n) < lives
      BY <1>0, <2>1
    <2>10. QED  BY <2>1, <2>4, <2>6, <2>7, <2>8, <2>9, LivesGrow DEF Uses
  <1>3. QED  BY <1>1, <1>2

-----------------------------------------------------------------------------
(* Calls fail for a cause. *)

\* A call that is under way when something disturbs it knows.
LEMMA DisturbedFrames ==
  ASSUME SessionTypeOK, NEW c \in Callers
  PROVE  /\ Disturbed[c] \in CallerFrames
         /\ Disturbed[c].pc = caller[c].pc /\ Disturbed[c].token = caller[c].token
         /\ Active(c) => Disturbed[c].disturbed
         /\ caller[c].disturbed => Disturbed[c].disturbed
         /\ Thrown(Disturbed[c]).pc = "failed"
         /\ Thrown(Disturbed[c]).disturbed = Disturbed[c].disturbed
  BY DEF SessionTypeOK, CallerFrames, Disturbed, Thrown, IdleCaller

\* What the steps that disturb calls leave of one.
LEMMA DisturbingSteps ==
  ASSUME SessionInv, NEW c \in Callers,
         \/ caller'[c] = Disturbed[c]
         \/ caller'[c] = Thrown(Disturbed[c]) /\ Active(c)
         \/ caller'[c] = IdleCaller
  PROVE  CallersOK!(c)'
  <1>1. /\ caller[c].pc = "requesting" => caller[c].token \in Pairs
        /\ caller[c].pc = "failed" => caller[c].disturbed
    BY DEF SessionInv, CallersOK
  <1>2. CASE caller'[c] = Disturbed[c]
    BY <1>1, <1>2, DisturbedFrames DEF SessionInv, Active, Pairs
  <1>3. CASE caller'[c] = Thrown(Disturbed[c]) /\ Active(c)
    BY <1>3, DisturbedFrames DEF SessionInv, Active, Waiting
  <1>4. CASE caller'[c] = IdleCaller
    BY <1>4 DEF IdleCaller, Active, Waiting
  <1>5. QED  BY <1>2, <1>3, <1>4

\* A step that leaves a call alone leaves what it may rely on, if the request
\* in flight does not fail and no token expires.
LEMMA CallerKept ==
  ASSUME SessionInv, NEW c \in Callers, caller'[c] = caller[c],
         Doomed' => Doomed, AnswerIsFresh => AnswerIsFresh',
         \A n \in Pairs : access[n] # "expired" => access'[n] # "expired"
  PROVE  CallersOK!(c)'
  <1>1. CallersOK!(c)
    BY DEF SessionInv, CallersOK
  <1>2. caller'[c].pc = "requesting" => caller[c].token \in Pairs
    BY <1>1
  <1>3. QED  BY <1>1, <1>2 DEF Active, Waiting, Pairs

\* A request that has just been sent has neither failed nor been answered.
LEMMA SentIsOpen ==
  ASSUME flight'.pc # "none", service'[flight'.handler].pc \in {"reading", "issuing"}
  PROVE  ~Doomed' /\ AnswerIsFresh'
  BY DEF Doomed, AnswerIsFresh, Answer

\* What a step of the API, or the loss of interest in an answer, does to the
\* request in flight.
LEMMA ServingKeepsAnswers ==
  ASSUME SessionInv, NEW h \in Handlers, Serve(h) \/ Discard(h)
  PROVE  /\ caller' = caller
         /\ Doomed' => Doomed
         /\ AnswerIsFresh => AnswerIsFresh'
         /\ \A n \in Pairs : access[n] # "expired" => access'[n] # "expired"
  <1> USE DEF SessionInv, SessionTypeOK, TokensTypeOK
  <1>0. /\ caller' = caller /\ flight' = flight
        /\ flight.pc # "none" => flight.handler \in Handlers
    BY DEF Serve, Discard, tabVars, TabOK
  <1>1. CASE ReadToken(h) \/ RevokeToken(h)
    <2>1. /\ service'[h].pc \in {"revoking", "refused", "issuing"} /\ access' = access
          /\ \A g \in Handlers : g # h => service'[g] = service[g]
      BY <1>1 DEF ReadToken, RevokeToken, Services
    <2>2. QED  BY <1>0, <2>1 DEF Doomed, AnswerIsFresh, Answer
  <1>2. CASE IssuePair(h)
    <2>1. /\ issued + 1 \in Pairs
          /\ service'[h] = [pc |-> "issued", pair |-> issued + 1]
          /\ \A g \in Handlers : g # h => service'[g] = service[g]
          /\ access'[issued + 1] = "fresh"
          /\ \A n \in Pairs : n # issued + 1 => access'[n] = access[n]
      BY <1>2, NewPair
    <2>2. \A n \in Pairs : access[n] # "expired" => access'[n] # "expired"
      BY <2>1
    <2>3. Doomed' => Doomed
      BY <1>0, <2>1 DEF Doomed
    <2>4. ASSUME AnswerIsFresh, flight'.pc # "none", service'[flight'.handler].pc = "issued"
          PROVE  access'[service'[flight'.handler].pair] = "fresh"
      <3>1. CASE flight.handler = h
        BY <1>0, <2>1, <3>1
      <3>2. CASE flight.handler # h
        <4>1. /\ service'[flight.handler] = service[flight.handler]
              /\ service[flight.handler].pair \in Pairs
              /\ access[service[flight.handler].pair] = "fresh"
          BY <1>0, <2>1, <2>4, <3>2 DEF ServicesOK, AnswerIsFresh, Answer
        <4>2. access'[service[flight.handler].pair] = "fresh"
          BY <2>1, <4>1
        <4>3. QED  BY <1>0, <4>1, <4>2
      <3>3. QED  BY <3>1, <3>2
    <2>5. QED  BY <1>0, <2>2, <2>3, <2>4 DEF AnswerIsFresh, Answer
  <1>3. CASE Discard(h)
    <2>1. access' = access /\ flight.handler # h
          /\ \A g \in Handlers : g # h => service'[g] = service[g]
      BY <1>3 DEF Discard
    <2>2. QED  BY <1>0, <2>1 DEF Doomed, AnswerIsFresh, Answer
  <1>4. QED  BY <1>1, <1>2, <1>3 DEF Serve, ServiceStep

\* A call that enters ensureRoleSession, for the first time or the second.
LEMMA EnteringCaller ==
  ASSUME SessionInv, NEW c \in Callers, NEW f, NEW current, Enters(c, f, current)
  PROVE  /\ CallersOK!(c)'
         /\ \A d \in Callers : d # c => caller'[d] = caller[d]
         /\ Doomed' => Doomed
         /\ AnswerIsFresh => AnswerIsFresh'
         /\ access' = access
  <1> USE DEF SessionInv, SessionTypeOK, TokensTypeOK
  <1>0. /\ current \in Pairs \cup {NoPair} /\ f \in CallerFrames
        /\ f.retried /\ ~f.disturbed => AnswerIsFresh
        /\ Fresh(current) => current = session /\ flight.pc = "none"
    <2>1. current \in Pairs \cup {NoPair} /\ f \in CallerFrames
      BY FrameTypes DEF Enters, KeptAfter401, CallerFrames
    <2>2. ASSUME f.retried, ~f.disturbed
          PROVE  AnswerIsFresh
      <3>1. /\ Rejected(c) /\ f = [caller[c] EXCEPT !.retried = TRUE]
        BY <2>2 DEF Enters, IdleCaller
      <3>2. caller[c].pc = "requesting" /\ ~caller[c].disturbed
        BY <2>2, <3>1 DEF Rejected, CallerFrames
      <3>3. QED  BY <3>2 DEF CallersOK, Active
    <2>3. Fresh(current) => current = session /\ flight.pc = "none"
      BY DEF Enters, KeptAfter401, Fresh, TabOK
    <2>4. QED  BY <2>1, <2>2, <2>3
  <1>1. CASE UseSession(c, f, current)
    <2>1. /\ flight' = flight /\ service' = service /\ access' = access
          /\ caller' = [caller EXCEPT ![c] = [f EXCEPT !.pc = "requesting", !.token = current]]
          /\ flight.pc = "none" /\ current \in Pairs /\ access[current] = "fresh"
      BY <1>0, <1>1 DEF UseSession, tokenVars, Fresh
    <2>2. /\ Doomed' => Doomed
          /\ AnswerIsFresh'
      BY <2>1 DEF Doomed, AnswerIsFresh, Answer
    <2>3. /\ caller'[c].pc = "requesting" /\ caller'[c].token = current
          /\ \A d \in Callers : d # c => caller'[d] = caller[d]
      BY <1>0, <2>1 DEF CallerFrames
    <2>4. CallersOK!(c)'
      BY <2>1, <2>2, <2>3 DEF Active, Waiting, Pairs
    <2>5. QED  BY <2>1, <2>2, <2>3, <2>4
  <1>2. CASE JoinFlight(c, f, current)
    <2>1. /\ flight' = flight /\ service' = service /\ access' = access
          /\ caller' = [caller EXCEPT ![c] =
                          [f EXCEPT !.pc = "waiting", !.disturbed = @ \/ Doomed]]
      BY <1>2 DEF JoinFlight, tokenVars
    <2>2. /\ Doomed' <=> Doomed
          /\ AnswerIsFresh' <=> AnswerIsFresh
      BY <2>1 DEF Doomed, AnswerIsFresh, Answer
    <2>3. /\ caller'[c].pc = "waiting" /\ caller'[c].retried = f.retried
          /\ caller'[c].disturbed = (f.disturbed \/ Doomed)
          /\ \A d \in Callers : d # c => caller'[d] = caller[d]
      BY <1>0, <2>1 DEF CallerFrames
    <2>4. ~caller'[c].disturbed => ~f.disturbed /\ ~Doomed'
      BY <2>2, <2>3
    <2>5. ~caller'[c].disturbed /\ caller'[c].retried => AnswerIsFresh'
      BY <1>0, <2>2, <2>3, <2>4
    <2>6. CallersOK!(c)'
      BY <2>3, <2>4, <2>5 DEF Waiting
    <2>7. QED  BY <2>1, <2>2, <2>3, <2>6
  <1>3. CASE StartFlight(c, f, current)
    <2>1. PICK h \in Handlers : Send(h, current)
      BY <1>3 DEF StartFlight
    <2>2. /\ flight'.handler = h /\ flight'.pc # "none" /\ access' = access
          /\ service'[h] = LoginFrame \/ service'[h] = RefreshFrame(current)
      BY <1>0, <2>1, SentFrames
    <2>3. ~Doomed' /\ AnswerIsFresh'
      BY <2>2, SentIsOpen DEF LoginFrame, RefreshFrame
    <2>4. /\ caller'[c].pc = "waiting"
          /\ \A d \in Callers : d # c => caller'[d] = caller[d]
      BY <1>0, <1>3 DEF StartFlight, CallerFrames
    <2>5. CallersOK!(c)'
      BY <2>3, <2>4 DEF Waiting
    <2>6. QED  BY <2>2, <2>3, <2>4, <2>5
  <1>4. QED  BY <1>1, <1>2, <1>3 DEF Enters, EnsureSession

LEMMA CallersStep ==
  ASSUME SessionInv, [Next]_vars
  PROVE  CallersOK'
  <1> SUFFICES ASSUME NEW c \in Callers
               PROVE  CallersOK!(c)'
    BY DEF CallersOK
  <1> USE DEF SessionInv
  <1>0. CallersOK!(c) /\ SessionTypeOK /\ caller \in [Callers -> CallerFrames]
    BY DEF CallersOK, SessionTypeOK
  <1>1. ASSUME NEW d \in Callers, NEW f, NEW current, Enters(d, f, current)
        PROVE  CallersOK!(c)'
    <2>1. CASE c = d
      BY <1>1, <2>1, EnteringCaller
    <2>2. CASE c # d
      <3>1. /\ caller'[c] = caller[c]
            /\ Doomed' => Doomed
            /\ AnswerIsFresh => AnswerIsFresh'
            /\ access' = access
        BY <1>1, <2>2, EnteringCaller
      <3>2. QED  BY <3>1, CallerKept
    <2>3. QED  BY <2>1, <2>2
  <1>2. ASSUME UNCHANGED <<access, service, flight>>, caller'[c] = caller[c]
        PROVE  CallersOK!(c)'
    <2>1. (Doomed' => Doomed) /\ (AnswerIsFresh => AnswerIsFresh')
      BY <1>2 DEF Doomed, AnswerIsFresh, Answer
    <2>2. QED  BY <1>2, <2>1, CallerKept
  <1>3. ASSUME NEW d \in Callers, Served(d)
        PROVE  CallersOK!(c)'
    <2>1. CASE c = d
      BY <1>0, <1>3, <2>1, DisturbingSteps DEF Served
    <2>2. CASE c # d
      BY <1>0, <1>2, <1>3, <2>2 DEF Served, tokenVars
    <2>3. QED  BY <2>1, <2>2
  <1>4. ASSUME NEW d \in Callers, GiveUp(d)
        PROVE  CallersOK!(c)'
    <2>1. CASE c = d
      <3>1. caller[c].disturbed /\ caller'[c] = Thrown(caller[c])
        BY <1>0, <1>4, <2>1 DEF GiveUp, Rejected, Active
      <3>2. caller'[c].pc = "failed" /\ caller'[c].disturbed
        BY <3>1 DEF Thrown, IdleCaller
      <3>3. QED  BY <3>2 DEF Active, Waiting
    <2>2. CASE c # d
      BY <1>0, <1>2, <1>4, <2>2 DEF GiveUp, tokenVars
    <2>3. QED  BY <2>1, <2>2
  <1>5. ASSUME NEW d \in Callers, RequestFails(d)
        PROVE  CallersOK!(c)'
    <2>1. caller'[c] = Disturbed[c] \/ (caller'[c] = Thrown(Disturbed[c]) /\ Active(c))
      BY <1>0, <1>5, FrameTypes DEF RequestFails, Active
    <2>2. QED  BY <2>1, DisturbingSteps
  <1>6. CASE TokenEvent \/ RefreshLost \/ Reload
    BY <1>6, DisturbingSteps DEF TokenEvent, RefreshLost, Reload
  <1>7. CASE LoginLost
    BY <1>7, DisturbingSteps DEF LoginLost, ThrowInto, Waiting, Active
  <1>8. CASE FlightSucceeds
    <2>1. /\ flight.handler \in Handlers /\ service[flight.handler].pc = "issued"
          /\ flight.pc # "none"
          /\ session' = service[flight.handler].pair /\ session' \in Pairs
      BY <1>0, <1>8 DEF FlightSucceeds, Answer, TabOK, SessionTypeOK, ServicesOK
    <2>2. ~Doomed' /\ AnswerIsFresh' /\ access' = access
      BY <1>8 DEF FlightSucceeds, NoFlight, Doomed, AnswerIsFresh
    <2>3. CASE Waiting(c)
      <3>1. caller'[c] = [caller[c] EXCEPT !.pc = "requesting", !.token = session']
        BY <1>8, <2>3 DEF FlightSucceeds, Wake
      <3>2. /\ caller'[c].pc = "requesting" /\ caller'[c].token = session'
            /\ caller'[c].retried = caller[c].retried
            /\ caller'[c].disturbed = caller[c].disturbed
        BY <1>0, <3>1 DEF CallerFrames
      <3>3. ~caller[c].disturbed /\ caller[c].retried => access[session'] = "fresh"
        BY <1>0, <2>1, <2>3 DEF Active, Waiting, AnswerIsFresh, Answer
      <3>4. QED  BY <2>1, <2>2, <3>2, <3>3 DEF Active, Waiting, Pairs
    <2>4. CASE ~Waiting(c)
      <3>1. caller'[c] = caller[c]
        BY <1>8, <2>4 DEF FlightSucceeds, Wake
      <3>2. QED  BY <2>2, <3>1, CallerKept
    <2>5. QED  BY <2>3, <2>4
  <1>9. CASE FlightFails
    <2>1. ~Doomed' /\ AnswerIsFresh' /\ access' = access
      BY <1>9 DEF FlightFails, NoFlight, Doomed, AnswerIsFresh
    <2>2. CASE Waiting(c)
      <3>1. Doomed
        BY <1>9 DEF FlightFails, Doomed, Answer
      <3>2. caller[c].disturbed
        BY <1>0, <2>2, <3>1 DEF Active, Waiting
      <3>3. caller'[c] = Thrown(caller[c])
        BY <1>9, <2>2 DEF FlightFails, ThrowInto
      <3>4. caller'[c].pc = "failed" /\ caller'[c].disturbed
        BY <3>2, <3>3 DEF Thrown, IdleCaller
      <3>5. QED  BY <3>4 DEF Active, Waiting
    <2>3. CASE ~Waiting(c)
      <3>1. caller'[c] = caller[c]
        BY <1>9, <2>3 DEF FlightFails, ThrowInto
      <3>2. QED  BY <2>1, <3>1, CallerKept
    <2>4. QED  BY <2>2, <2>3
  <1>10. CASE RefreshRefused
    <2>1. /\ caller' = caller /\ access' = access /\ flight'.pc # "none"
          /\ service'[flight'.handler].pc = "issuing"
      BY <1>0, <1>10 DEF RefreshRefused, FallBackToLogin, SessionTypeOK, TokensTypeOK,
                         LoginFrame
    <2>2. QED  BY <2>1, SentIsOpen, CallerKept
  <1>11. ASSUME NEW h \in Handlers, Serve(h) \/ Discard(h)
         PROVE  CallersOK!(c)'
    <2>1. /\ caller' = caller
          /\ Doomed' => Doomed
          /\ AnswerIsFresh => AnswerIsFresh'
          /\ \A n \in Pairs : access[n] # "expired" => access'[n] # "expired"
      BY <1>11, ServingKeepsAnswers
    <2>2. caller'[c] = caller[c]
      BY <2>1
    <2>3. QED  BY <2>1, <2>2, CallerKept
  <1>12. CASE UNCHANGED vars
    BY <1>2, <1>12 DEF vars, tokenVars, tabVars
  <1>13. QED
    BY <1>1, <1>3, <1>4, <1>5, <1>6, <1>7, <1>8, <1>9, <1>10, <1>11, <1>12, SessionSteps

-----------------------------------------------------------------------------
(* The theorems. *)

LEMMA SessionInitInv == Init => SessionInv
  <1> SUFFICES ASSUME Init PROVE SessionInv
    OBVIOUS
  <1> USE DEF Init, TokensInit
  <1>1. SessionTypeOK
    BY DEF SessionTypeOK, TokensTypeOK, NoService, Services, NoFlight, IdleCaller, CallerFrames
  <1>2. TabOK
    BY DEF TabOK, NoFlight, NoPair
  <1>3. ServicesOK
    <2>1. \A h \in Handlers : service[h].pc = "idle" /\ service[h].pair = 0
      BY DEF NoService, NoPair
    <2>2. issued = 0
      OBVIOUS
    <2>3. 0 <= 0
      OBVIOUS
    <2>4. QED
      <3> SUFFICES ASSUME NEW h \in Handlers
                   PROVE  /\ service[h].pc \in {"reading", "revoking", "issued"}
                                => service[h].pair \in Pairs
                          /\ service[h].pair <= issued
        BY DEF ServicesOK
      <3> HIDE DEF Init, TokensInit
      <3>1. service[h].pc = "idle" /\ service[h].pair = 0
        BY <2>1
      <3>2. QED  BY <2>2, <2>3, <3>1
  <1>4. CallersOK
    BY DEF CallersOK, IdleCaller, Active, Waiting
  <1>5. \A n \in Pairs : Exchanged(n) = {} /\ Exchanging(n) = {}
    BY DEF Exchanged, Exchanging, NoService
  <1>6. UsesOK
    <2> SUFFICES ASSUME NEW n \in Pairs
                 PROVE  UsesOK!(n)
      BY DEF UsesOK
    <2>1. IsFiniteSet({}) /\ Cardinality({}) = 0
      BY FS_EmptySet
    <2>2. /\ IsFiniteSet(Exchanged(n)) /\ IsFiniteSet(Exchanging(n))
          /\ Uses(n) = 0
      BY <1>5, <2>1 DEF Uses
    <2>3. lives = 1 /\ session # n
      BY DEF NoPair, Pairs
    <2>4. QED  BY <2>2, <2>3
  <1>7. AnswersAreNew
    BY DEF AnswersAreNew, NoService
  <1>8. QED  BY <1>1, <1>2, <1>3, <1>4, <1>6, <1>7 DEF SessionInv

LEMMA SessionStepInv == SessionInv /\ [Next]_vars => SessionInv'
  BY TabTypes, TabStep, ServicesStep, CallersStep, UsesStep, AnswersStep DEF SessionInv

LEMMA SessionInvariant == Spec => []SessionInv
  BY SessionInitInv, SessionStepInv, PTL DEF Spec

\* The variables hold what they are declared for, always.
THEOREM SessionTypes == Spec => []SessionTypeOK
  <1>1. SessionInv => SessionTypeOK
    BY DEF SessionInv
  <1>2. QED  BY <1>1, SessionInvariant, PTL

(***************************************************************************)
(* A refresh token is exchanged at most once in each life of the tab,      *)
(* whatever is lost, refused or logged out, and however many calls ask for *)
(* a session at the same time.                                             *)
(***************************************************************************)
THEOREM RefreshTokensAreUsedOnce == Spec => []ExchangedOncePerLife
  <1>1. SessionInv => ExchangedOncePerLife
    <2> SUFFICES ASSUME SessionInv, NEW n \in Pairs
                 PROVE  Cardinality({e \in exchanges : e.from = n}) <= lives
      BY DEF ExchangedOncePerLife
    <2>1. /\ IsFiniteSet(Exchanged(n)) /\ IsFiniteSet(Exchanging(n)) /\ Uses(n) <= lives
          /\ lives \in Nat
      BY DEF SessionInv, UsesOK, SessionTypeOK
    <2>2. Cardinality(Exchanged(n)) \in Nat /\ Cardinality(Exchanging(n)) \in Nat
      BY <2>1, FS_CardinalityType
    <2>3. Cardinality(Exchanged(n)) <= lives
      BY <2>1, <2>2 DEF Uses
    <2>4. QED  BY <2>3 DEF Exchanged
  <1>2. QED  BY <1>1, SessionInvariant, PTL

(***************************************************************************)
(* A session whose access token is fresh is never thrown away.             *)
(***************************************************************************)
THEOREM FreshSessionsAreKept == Spec => FreshSessionKept
  <1>1. SessionInv /\ [Next]_vars => [Fresh(session) => session' = session]_vars
    BY WhoReplacesTheSession
  <1>2. QED  BY <1>1, SessionInvariant, PTL DEF Spec, FreshSessionKept

(***************************************************************************)
(* A call fails only if something failed, expired, was revoked or reloaded *)
(* while it was under way.                                                 *)
(***************************************************************************)
THEOREM CallsFailForCause == Spec => []FailsOnlyForCause
  <1>1. SessionInv => FailsOnlyForCause
    BY DEF SessionInv, CallersOK, FailsOnlyForCause
  <1>2. QED  BY <1>1, SessionInvariant, PTL
=============================================================================
