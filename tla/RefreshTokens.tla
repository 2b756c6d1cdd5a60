--------------------------- MODULE RefreshTokens ---------------------------
(***************************************************************************)
(* AuthService's side of a session: login and refresh, which issue a pair  *)
(* of an access token (a signed claim, valid until it expires) and a       *)
(* refresh token (a row that can be revoked), and logout.  A refresh reads *)
(* the row, revokes it and inserts the next one in three awaits, and the   *)
(* update has no condition.  Signing and hashing are abstracted: a request *)
(* carries a token that was issued.                                        *)
(***************************************************************************)
EXTENDS Naturals

CONSTANTS Handlers,   \* requests to /auth in flight
          MaxPairs    \* bound on the pairs that are issued

ASSUME TokenAssumption == MaxPairs \in Nat

Pairs == 1..MaxPairs
NoPair == 0

VARIABLES issued,     \* the number of pairs issued: pair n was the n-th
          row,        \* row[n]: the refresh token of pair n
          access,     \* access[n]: the age of the access token of pair n
          service,    \* service[h]: the frame of handler h
          exchanges   \* history: {[from, to]}, which pair was issued for which

tokenVars == <<issued, row, access, service, exchanges>>

-----------------------------------------------------------------------------
NoService == [pc |-> "idle", pair |-> NoPair]

Services == [pc : {"idle", "reading", "revoking", "issuing", "issued", "refused", "failed"},
             pair : Pairs \cup {NoPair}]

TokensTypeOK ==
    /\ issued \in 0..MaxPairs
    /\ row \in [Pairs -> {"none", "live", "revoked", "expired"}]
    /\ access \in [Pairs -> {"none", "fresh", "ageing", "expired"}]
    /\ service \in [Handlers -> Services]
    /\ exchanges \subseteq [from : Pairs, to : Pairs]

TokensInit ==
    /\ issued = 0
    /\ row = [n \in Pairs |-> "none"]
    /\ access = [n \in Pairs |-> "none"]
    /\ service = [h \in Handlers |-> NoService]
    /\ exchanges = {}

Free(h) == service[h].pc = "idle"
Ended(h) == service[h].pc \in {"issued", "refused", "failed"}

\* POST /auth/login with the right password: its first write is the new row.
LoginFrame == [pc |-> "issuing", pair |-> NoPair]

\* POST /auth/refresh with the refresh token of pair n.
RefreshFrame(n) == [pc |-> "reading", pair |-> n]

-----------------------------------------------------------------------------
\* Mutant: the state of the row is taken for the next step.
ReadTokenRaw(h) ==
    /\ service[h].pc = "reading"
    /\ service' = [service EXCEPT ![h].pc = row[service[h].pair]]
    /\ UNCHANGED <<issued, row, access, exchanges>>

\* findFirst with revokedAt null and expiresAt in the future.
ReadToken(h) ==
    /\ service[h].pc = "reading"
    /\ service' = [service EXCEPT ![h].pc =
                     IF row[service[h].pair] = "live" THEN "revoking" ELSE "refused"]
    /\ UNCHANGED <<issued, row, access, exchanges>>

\* refreshToken.update by id.
RevokeToken(h) ==
    /\ service[h].pc = "revoking"
    /\ row' = [row EXCEPT ![service[h].pair] = "revoked"]
    /\ service' = [service EXCEPT ![h].pc = "issuing"]
    /\ UNCHANGED <<issued, access, exchanges>>

\* issueTokenPair, and the answer.
IssuePair(h) ==
    /\ service[h].pc = "issuing"
    /\ issued < MaxPairs
    /\ LET n == issued + 1 IN
         /\ issued' = n
         /\ row' = [row EXCEPT ![n] = "live"]
         /\ access' = [access EXCEPT ![n] = "fresh"]
         /\ service' = [service EXCEPT ![h] = [pc |-> "issued", pair |-> n]]
         /\ exchanges' = IF service[h].pair = NoPair THEN exchanges
                         ELSE exchanges \cup {[from |-> service[h].pair, to |-> n]}

ServiceStep(h) == ReadToken(h) \/ RevokeToken(h) \/ IssuePair(h)

\* The database rejects an await of the handler.
ServiceFails(h) ==
    /\ service[h].pc \in {"reading", "revoking", "issuing"}
    /\ service' = [service EXCEPT ![h].pc = "failed"]
    /\ UNCHANGED <<issued, row, access, exchanges>>

\* POST /auth/logout with the refresh token of pair n: one updateMany.
Logout(n) ==
    /\ row[n] = "live"
    /\ row' = [row EXCEPT ![n] = "revoked"]
    /\ UNCHANGED <<issued, access, service, exchanges>>

\* Time: the access token comes near its end, or reaches it.
Age(n) ==
    /\ \E age \in {"ageing", "expired"} :
         /\ access[n] \in {"fresh", "ageing"} \ {age}
         /\ access' = [access EXCEPT ![n] = age]
    /\ UNCHANGED <<issued, row, service, exchanges>>

\* Time: the refresh token reaches its end.
ExpireToken(n) ==
    /\ row[n] = "live"
    /\ row' = [row EXCEPT ![n] = "expired"]
    /\ UNCHANGED <<issued, access, service, exchanges>>
=============================================================================
