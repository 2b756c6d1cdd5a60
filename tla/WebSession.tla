----------------------------- MODULE WebSession -----------------------------
(***************************************************************************)
(* session-tokens.ts: how one tab of the web application gets an access    *)
(* token of one role for its API calls.  Callers of withRoleAccessToken    *)
(* share one session (kept in localStorage) and one request for a new one: *)
(* a refresh, and a login when that does not succeed.  A call that is      *)
(* answered 401 drops the session it used, unless it was replaced          *)
(* meanwhile, and tries once more.                                         *)
(*                                                                         *)
(* JavaScript runs to completion: what happens between two answers of the  *)
(* network, continuations of promises included, is one step.               *)
(***************************************************************************)
EXTENDS RefreshTokens, FiniteSets

CONSTANTS Callers,     \* calls of withRoleAccessToken at the same time
          NoHandler,   \* the handler of no request
          MaxEvents    \* bound on everything that disturbs: see Event

ASSUME SessionAssumption == NoHandler \notin Handlers /\ MaxEvents \in Nat

VARIABLES session,   \* the pair in the session store
          flight,    \* sessionRequests: the request in flight
          caller,    \* caller[c]: the frame of a call of withRoleAccessToken
          events,    \* how much of MaxEvents is used
          lives      \* history: how often the tab was loaded

tabVars == <<session, flight, caller>>
vars == <<tokenVars, tabVars, events, lives>>

-----------------------------------------------------------------------------
NoFlight == [pc |-> "none", handler |-> NoHandler]
IdleCaller == [pc |-> "idle", token |-> NoPair, retried |-> FALSE, disturbed |-> FALSE]

\* disturbed is history: something happened that may make the call fail.
CallerFrames == [pc : {"idle", "waiting", "requesting", "failed"},
                 token : Pairs \cup {NoPair}, retried : BOOLEAN, disturbed : BOOLEAN]

SessionTypeOK ==
    /\ TokensTypeOK
    /\ session \in Pairs \cup {NoPair}
    /\ flight \in [pc : {"none", "refreshing", "loggingIn"},
                   handler : Handlers \cup {NoHandler}]
    /\ caller \in [Callers -> CallerFrames]
    /\ events \in 0..MaxEvents
    /\ lives \in 1..(MaxEvents + 1)

Init ==
    /\ TokensInit
    /\ session = NoPair
    /\ flight = NoFlight
    /\ caller = [c \in Callers |-> IdleCaller]
    /\ events = 0
    /\ lives = 1

\* Time passes, someone logs out, something fails, the tab is reloaded.
Event == events < MaxEvents /\ events' = events + 1
NoEvent == UNCHANGED events

\* The frame of a call that throws.
Thrown(f) == [IdleCaller EXCEPT !.pc = "failed", !.disturbed = f.disturbed]

Active(c) == caller[c].pc \in {"waiting", "requesting"}
Disturbed == [c \in Callers |-> [caller[c] EXCEPT !.disturbed = @ \/ Active(c)]]

\* isAccessTokenFresh, with its buffer of a minute.
Fresh(n) == n # NoPair /\ access[n] = "fresh"

-----------------------------------------------------------------------------
(* ensureRoleSession, for caller c with frame f, when the store holds      *)
(* current.  Its promise resolves in the same step, or with the flight.    *)

UseSession(c, f, current) ==
    /\ Fresh(current)
    /\ caller' = [caller EXCEPT ![c] = [f EXCEPT !.pc = "requesting", !.token = current]]
    /\ UNCHANGED <<flight, tokenVars>>

\* A request in flight whose login has failed already, which c does not know yet.
Doomed == flight.pc = "loggingIn" /\ service[flight.handler].pc = "failed"

JoinFlight(c, f, current) ==
    /\ ~Fresh(current)
    /\ flight.pc # "none"
    /\ caller' = [caller EXCEPT ![c] =
                    [f EXCEPT !.pc = "waiting", !.disturbed = @ \/ Doomed]]
    /\ UNCHANGED <<flight, tokenVars>>

\* The request with which refreshOrLoginRoleSession begins.
Send(h, n) ==
    /\ Free(h)
    /\ service' = [service EXCEPT ![h] = IF n = NoPair THEN LoginFrame ELSE RefreshFrame(n)]
    /\ flight' = [pc |-> IF n = NoPair THEN "loggingIn" ELSE "refreshing", handler |-> h]
    /\ UNCHANGED <<issued, row, access, exchanges>>

StartFlight(c, f, current) ==
    /\ ~Fresh(current)
    /\ flight.pc = "none"
    /\ \E h \in Handlers : Send(h, current)
    /\ caller' = [caller EXCEPT ![c] = [f EXCEPT !.pc = "waiting"]]

EnsureSession(c, f, current) ==
    \/ UseSession(c, f, current)
    \/ JoinFlight(c, f, current)
    \/ StartFlight(c, f, current)

-----------------------------------------------------------------------------
(* withRoleAccessToken. *)

\* A component calls the API.
Ask(c) ==
    /\ ~Active(c)
    /\ EnsureSession(c, IdleCaller, session)
    /\ NoEvent
    /\ UNCHANGED <<session, lives>>

\* The API verified the token and did what was asked.
Served(c) ==
    /\ caller[c].pc = "requesting"
    /\ access[caller[c].token] # "expired"
    /\ caller' = [caller EXCEPT ![c] = IdleCaller]
    /\ NoEvent
    /\ UNCHANGED <<tokenVars, session, flight, lives>>

Rejected(c) == caller[c].pc = "requesting" /\ access[caller[c].token] = "expired"

\* Mutant: the store is cleared whatever it holds by now.
KeptAfter401None(c) == NoPair

\* The session that the 401 of c leaves in the store.
KeptAfter401(c) == IF session = caller[c].token THEN NoPair ELSE session

\* 401: once more, with another session.
Retry(c) ==
    /\ Rejected(c)
    /\ ~caller[c].retried
    /\ session' = KeptAfter401(c)
    /\ EnsureSession(c, [caller[c] EXCEPT !.retried = TRUE], KeptAfter401(c))
    /\ NoEvent
    /\ UNCHANGED lives

\* 401 again.
GiveUp(c) ==
    /\ Rejected(c)
    /\ caller[c].retried
    /\ caller' = [caller EXCEPT ![c] = Thrown(caller[c])]
    /\ NoEvent
    /\ UNCHANGED <<tokenVars, session, flight, lives>>

\* The request itself fails, otherwise than with 401.
RequestFails(c) ==
    /\ caller[c].pc = "requesting"
    /\ Event
    /\ caller' = [Disturbed EXCEPT ![c] = Thrown(Disturbed[c])]
    /\ UNCHANGED <<tokenVars, session, flight, lives>>

-----------------------------------------------------------------------------
(* refreshOrLoginRoleSession.  The answer of a request reaches the tab, or *)
(* is lost on the way, also when the API has done its part.                *)

Answer == service[flight.handler].pc
Answered == service' = [service EXCEPT ![flight.handler] = NoService]

Waiting(c) == caller[c].pc = "waiting"

\* Mutant: only one of the callers hears of it.
WakeFirst(n) ==
    \/ \E c \in Callers :
         /\ Waiting(c)
         /\ caller' = [caller EXCEPT ![c].pc = "requesting", ![c].token = n]
    \/ (\A c \in Callers : ~Waiting(c)) /\ UNCHANGED caller

\* The promise that the waiting callers share is resolved ...
Wake(n) ==
    caller' = [c \in Callers |->
                 IF Waiting(c)
                 THEN [caller[c] EXCEPT !.pc = "requesting", !.token = n]
                 ELSE caller[c]]

\* ... or rejected.
ThrowInto(frames) ==
    caller' = [c \in Callers |-> IF Waiting(c) THEN Thrown(frames[c]) ELSE frames[c]]

\* setSession, sessionRequests.delete, and the callers go on.
FlightSucceeds ==
    /\ flight.pc # "none"
    /\ Answer = "issued"
    /\ session' = service[flight.handler].pair
    /\ flight' = NoFlight
    /\ Wake(session')
    /\ Answered
    /\ NoEvent
    /\ UNCHANGED <<issued, row, access, exchanges, lives>>

\* The login fails: all that wait throw.
FlightFails ==
    /\ flight.pc = "loggingIn"
    /\ Answer = "failed"
    /\ flight' = NoFlight
    /\ ThrowInto(caller)
    /\ Answered
    /\ NoEvent
    /\ UNCHANGED <<issued, row, access, exchanges, session, lives>>

\* Mutant: a refresh that does not succeed is not followed by a login.
FallBackToNothing ==
    /\ session' = NoPair
    /\ flight' = NoFlight
    /\ ThrowInto(caller)
    /\ Answered
    /\ UNCHANGED <<issued, row, access, exchanges>>

\* clearSession, and a login.
FallBackToLogin ==
    /\ session' = NoPair
    /\ \E h \in Handlers :
         /\ Free(h)
         /\ service' = [service EXCEPT ![flight.handler] = NoService, ![h] = LoginFrame]
         /\ flight' = [pc |-> "loggingIn", handler |-> h]
    /\ UNCHANGED <<issued, row, access, exchanges, caller>>

\* The refresh was refused, or failed.
RefreshRefused ==
    /\ flight.pc = "refreshing"
    /\ Answer \in {"refused", "failed"}
    /\ FallBackToLogin
    /\ NoEvent
    /\ UNCHANGED lives

\* Mutant: the lost refresh is sent again.
RefreshResent ==
    /\ flight.pc = "refreshing"
    /\ Event
    /\ \E h \in Handlers : Send(h, session)
    /\ caller' = Disturbed
    /\ UNCHANGED <<session, lives>>

\* The answer to a refresh is lost; the handler goes on for nobody.
RefreshLost ==
    /\ flight.pc = "refreshing"
    /\ Event
    /\ session' = NoPair
    /\ \E h \in Handlers : Send(h, NoPair)
    /\ caller' = Disturbed
    /\ UNCHANGED lives

\* The answer to a login is lost.
LoginLost ==
    /\ flight.pc = "loggingIn"
    /\ Event
    /\ flight' = NoFlight
    /\ ThrowInto(Disturbed)
    /\ UNCHANGED <<tokenVars, session, lives>>

\* Nobody waits for the answer of h any more.
Discard(h) ==
    /\ Ended(h)
    /\ flight.handler # h
    /\ service' = [service EXCEPT ![h] = NoService]
    /\ NoEvent
    /\ UNCHANGED <<issued, row, access, exchanges, tabVars, lives>>

-----------------------------------------------------------------------------
\* The tab is loaded anew: the stored session stays, everything else is gone.
Reload ==
    /\ Event
    /\ flight' = NoFlight
    /\ caller' = [c \in Callers |-> IdleCaller]
    /\ lives' = lives + 1
    /\ UNCHANGED <<tokenVars, session>>

\* What happens on the side of the API and with time.
TokenEvent ==
    /\ Event
    /\ \/ \E h \in Handlers : ServiceFails(h)
       \/ \E n \in Pairs : Logout(n) \/ Age(n) \/ ExpireToken(n)
    /\ caller' = Disturbed
    /\ UNCHANGED <<session, flight, lives>>

Serve(h) == ServiceStep(h) /\ NoEvent /\ UNCHANGED <<tabVars, lives>>

CallerStep(c) == Served(c) \/ Retry(c) \/ GiveUp(c)
FlightStep == FlightSucceeds \/ FlightFails \/ RefreshRefused

Next ==
    \/ \E c \in Callers : Ask(c) \/ CallerStep(c) \/ RequestFails(c)
    \/ FlightStep \/ RefreshLost \/ LoginLost
    \/ \E h \in Handlers : Serve(h) \/ Discard(h)
    \/ TokenEvent \/ Reload

\* Requests are answered and promises settle; nobody has to ask.
Fairness ==
    /\ \A c \in Callers : WF_vars(CallerStep(c))
    /\ WF_vars(FlightStep)
    /\ \A h \in Handlers : WF_vars(Serve(h)) /\ WF_vars(Discard(h))

Spec == Init /\ [][Next]_vars
FairSpec == Spec /\ Fairness

-----------------------------------------------------------------------------
\* One life of the tab uses a refresh token at most once, so that it is never
\* exchanged for more pairs than there were lives, although the API revokes it
\* without a condition and answers may be lost (sessionRequests shares the
\* request, clearSession drops what was used).
ExchangedOncePerLife ==
    \A n \in Pairs : Cardinality({e \in exchanges : e.from = n}) <= lives

\* A session whose access token is fresh is not thrown away: neither by a late
\* 401 of an older one, nor by a refresh that fails.
FreshSessionKept == [][Fresh(session) => session' = session]_vars

\* A call fails only if something failed, expired or was revoked, or the tab was
\* reloaded, while the call was in flight; what happened before is made good by
\* a refresh, a login or the second attempt.
FailsOnlyForCause ==
    \A c \in Callers : caller[c].pc = "failed" => caller[c].disturbed

\* Every call ends, unless the tab does: no caller waits for a request that is
\* over, and no handler is waited for in vain.
CallersReturn ==
    \A c \in Callers : Active(c) ~> ~Active(c)
=============================================================================
