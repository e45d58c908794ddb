------------------------------ MODULE Sessions ------------------------------
(***************************************************************************)
(* Login, refresh and logout.  A refresh trades a token for a new one: it  *)
(* reads the row, creates the successor and revokes the old row, three     *)
(* statements that commit on their own and that those of other requests    *)
(* come between.  A statement can fail: an error of the last one of a      *)
(* request is ignored.  A process can stop, an answer can be lost.         *)
(***************************************************************************)
EXTENDS Values, Integers, Sequences, SequencesExt

CONSTANTS
  Apps,          \* clients, each of one user
  UserOf,
  Handlers,      \* requests that the server works on at a time
  TokenLife,     \* for how long a refresh token can be used
  MaxTokens,     \* bound: rows of refresh_tokens
  MaxTime        \* bound: the clock

ASSUME SessionConstants == TokenLife \in Nat /\ None \notin Nat

VARIABLES
  tokens,        \* rows [user, expires, revoked, next] by id
  wallet,        \* the token an app holds, or None
  handler,       \* [pc, app, token, since, next]
  time

sessionVars == <<tokens, wallet, handler, time>>

Work(pc, a, t, now, next) == [pc |-> pc, app |-> a, token |-> t, since |-> now, next |-> next]
Waiting == Work("free", None, None, 0, None)
NewToken(u, now) == [user |-> u, expires |-> now + TokenLife, revoked |-> FALSE, next |-> None]

SessionsInit ==
  /\ tokens = <<>>
  /\ wallet = [a \in Apps |-> None]
  /\ handler = [h \in Handlers |-> Waiting]
  /\ time = 0

CreateRefreshToken(u, now) ==
  /\ Len(tokens) < MaxTokens
  /\ tokens' = Append(tokens, NewToken(u, now))

Revoked(row, next) ==
  [user |-> row.user, expires |-> row.expires, revoked |-> TRUE, next |-> next]

\* Mutant: a revoked row is revoked again.
RevokeAgain(t, next) == tokens' = [tokens EXCEPT ![t] = Revoked(@, next)]
(* UPDATE ... WHERE id = ... AND revoked_at IS NULL                        *)
RevokeRefreshToken(t, next) ==
  tokens' = IF tokens[t].revoked THEN tokens
            ELSE [tokens EXCEPT ![t] = Revoked(tokens[t], next)]

RevokeAllRefreshTokensForUser(u) ==
  tokens' = [t \in DOMAIN tokens |->
               IF tokens[t].user = u THEN Revoked(tokens[t], tokens[t].next) ELSE tokens[t]]

(* The app gets the answer, or does not.                                   *)
Response(a, t) == wallet' \in {wallet, [wallet EXCEPT ![a] = t]}

Login(a) ==
  /\ CreateRefreshToken(UserOf[a], time)
  /\ Response(a, Len(tokens) + 1)
  /\ UNCHANGED <<handler, time>>

(* The row is read and looked at: revoked, expired, or good.               *)
Refresh(h, a) ==
  /\ handler[h] = Waiting /\ wallet[a] # None
  /\ LET row == tokens[wallet[a]]
         pc == IF row.revoked THEN "revokeAll"
               ELSE IF time > row.expires THEN "revoke" ELSE "create"
     IN  handler' = [handler EXCEPT ![h] = Work(pc, a, wallet[a], time, None)]
  /\ UNCHANGED <<tokens, wallet, time>>

CreateSuccessor(h) ==
  /\ handler[h].pc = "create"
  /\ CreateRefreshToken(tokens[handler[h].token].user, handler[h].since)
  /\ handler' = [handler EXCEPT ![h] =
       Work("trade", handler[h].app, handler[h].token, handler[h].since, Len(tokens) + 1)]
  /\ UNCHANGED <<wallet, time>>

TradeToken(h) ==
  /\ handler[h].pc = "trade"
  /\ RevokeRefreshToken(handler[h].token, handler[h].next)
  /\ Response(handler[h].app, handler[h].next)
  /\ handler' = [handler EXCEPT ![h] = Waiting]
  /\ UNCHANGED time

Logout(h, a) ==
  /\ handler[h] = Waiting /\ wallet[a] # None
  /\ handler' = [handler EXCEPT ![h] = Work("revoke", a, wallet[a], 0, None)]
  /\ UNCHANGED <<tokens, wallet, time>>

(* After a logout, of a token that has expired, or of all of a user.       *)
Revoke(h) ==
  /\ handler[h].pc \in {"revoke", "revokeAll"}
  /\ IF handler[h].pc = "revoke" THEN RevokeRefreshToken(handler[h].token, None)
     ELSE RevokeAllRefreshTokensForUser(tokens[handler[h].token].user)
  /\ Response(handler[h].app, None)
  /\ handler' = [handler EXCEPT ![h] = Waiting]
  /\ UNCHANGED time

Fail(h) ==
  /\ handler[h].pc \in {"create", "trade", "revoke", "revokeAll"}
  /\ CASE handler[h].pc = "create" -> UNCHANGED wallet
       [] handler[h].pc = "trade"  -> Response(handler[h].app, handler[h].next)
       [] OTHER                    -> Response(handler[h].app, None)
  /\ handler' = [handler EXCEPT ![h] = Waiting]
  /\ UNCHANGED <<tokens, time>>

Stop ==
  /\ \E h \in Handlers : handler[h] # Waiting
  /\ handler' = [h \in Handlers |-> Waiting]
  /\ UNCHANGED <<tokens, wallet, time>>

Clock == time < MaxTime /\ time' = time + 1 /\ UNCHANGED <<tokens, wallet, handler>>

SessionsNext ==
  \/ \E a \in Apps : Login(a)
  \/ \E h \in Handlers, a \in Apps : Refresh(h, a) \/ Logout(h, a)
  \/ \E h \in Handlers : CreateSuccessor(h) \/ TradeToken(h) \/ Revoke(h) \/ Fail(h)
  \/ Stop \/ Clock

SessionsSpec == SessionsInit /\ [][SessionsNext]_sessionVars

-----------------------------------------------------------------------------
(* A row changes once, when it is revoked.  If that names a successor, the *)
(* successor works at that moment, whatever other requests of the user     *)
(* have revoked meanwhile: it is of the same user, not revoked, expires no *)
(* earlier, and it is nobody else's successor.                             *)
TradesAreFair ==
  [][\A t \in DOMAIN tokens :
       tokens'[t] # tokens[t] =>
         LET n == tokens'[t].next IN
         /\ ~tokens[t].revoked /\ tokens'[t].revoked
         /\ n # None =>
              /\ tokens'[n].user = tokens[t].user /\ ~tokens'[n].revoked
              /\ tokens'[n].expires >= tokens[t].expires
              /\ \A u \in DOMAIN tokens' \ {t} : tokens'[u].next # n]_sessionVars
=============================================================================
