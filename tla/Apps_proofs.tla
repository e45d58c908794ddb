----------------------------- MODULE Apps_proofs -----------------------------
(***************************************************************************)
(* What apps rely on: their sessions, the pushes and the rate limiter, for *)
(* any number of apps, requests, devices, goroutines and addresses.        *)
(*                                                                         *)
(* A token is traded for a token that works.  What makes it so is that     *)
(* nobody but the request that made it knows a successor until the old     *)
(* token is revoked, so only the revocation of everything the user has can *)
(* reach both, and that reaches the old one as well: then the trade        *)
(* changes nothing.                                                        *)
(*                                                                         *)
(* A device hears of the last change of its group: until it has, a change  *)
(* waits for its goroutine or a goroutine still has the device ahead of    *)
(* it, with a version that is new enough.                                  *)
(*                                                                         *)
(* The rate limiter implements one bucket per address, for any cost, burst *)
(* and time to live that IdleFills allows.  A client that is forgotten was *)
(* not seen for so long that its bucket is full, and no request holds it:  *)
(* removing it changes nothing that an address could notice.               *)
(***************************************************************************)
EXTENDS Sessions, Pushes, RateLimiter, TLAPS

USE SessionConstants, PushConstants

Users == {UserOf[a] : a \in Apps}
Token == [user: Users, expires: Nat, revoked: BOOLEAN, next: Nat \cup {None}]
Works ==
  [pc: {"free", "create", "trade", "revoke", "revokeAll"}, app: Apps \cup {None},
   token: Nat \cup {None}, since: Nat, next: Nat \cup {None}]

TypeOK ==
  /\ tokens \in Seq(Token)
  /\ wallet \in [Apps -> Nat \cup {None}]
  /\ handler \in [Handlers -> Works]
  /\ time \in Nat

(* Who names a token names a row; a request without work names none.       *)
NamesAreRows ==
  /\ \A a \in Apps : wallet[a] # None => wallet[a] \in 1..Len(tokens)
  /\ \A h \in Handlers :
       /\ handler[h].pc # "free" => handler[h].app \in Apps /\ handler[h].token \in 1..Len(tokens)
       /\ handler[h].pc = "free" => handler[h].token = None
       /\ handler[h].next # None => handler[h].pc = "trade"
       /\ handler[h].pc = "trade" => handler[h].next \in 1..Len(tokens)
  /\ \A t \in 1..Len(tokens) : tokens[t].next # None => tokens[t].next \in 1..Len(tokens)

(* Only a revoked token has a successor.                                   *)
GoodHasNoNext == \A t \in 1..Len(tokens) : ~tokens[t].revoked => tokens[t].next = None

(* No token outlives one that would be made now, and the token that a      *)
(* request trades outlives none that the request makes.                    *)
ExpiryIsOrdered ==
  /\ \A t \in 1..Len(tokens) : tokens[t].expires <= time + TokenLife
  /\ \A h \in Handlers : handler[h].pc \in {"create", "trade"} =>
       /\ handler[h].since <= time
       /\ tokens[handler[h].token].expires <= handler[h].since + TokenLife

(* A successor that has not replaced its token yet is known to nobody      *)
(* else, and has not been revoked unless the token has.                    *)
Secret(h) ==
  LET n == handler[h].next
      t == handler[h].token
  IN  /\ \A a \in Apps : wallet[a] # n
      /\ \A g \in Handlers : handler[g].token # n /\ (g # h => handler[g].next # n)
      /\ \A u \in 1..Len(tokens) : tokens[u].next # n
      /\ tokens[n].user = tokens[t].user
      /\ tokens[n].expires = handler[h].since + TokenLife
      /\ tokens[n].revoked => tokens[t].revoked
SecretUntilTraded == \A h \in Handlers : handler[h].pc = "trade" => Secret(h)

IInv == TypeOK /\ NamesAreRows /\ GoodHasNoNext /\ ExpiryIsOrdered /\ SecretUntilTraded

-----------------------------------------------------------------------------
LEMMA RowIsToken == ASSUME TypeOK, NEW t \in 1..Len(tokens) PROVE tokens[t] \in Token
BY DEF TypeOK

(* A request that has work is not waiting.                                 *)
LEMMA WaitingIsFree ==
  ASSUME IInv, NEW h \in Handlers
  PROVE  handler[h] = Waiting => handler[h].pc = "free" /\ handler[h].token = None /\ handler[h].next = None
BY DEF Waiting, Work

LEMMA InitHolds == SessionsInit => IInv
<1> SUFFICES ASSUME SessionsInit PROVE IInv OBVIOUS
<1> USE DEF SessionsInit, Waiting, Work
<1>1. TypeOK BY DEF TypeOK, Works
<1>2. Len(tokens) = 0 OBVIOUS
<1>3. \A h \in Handlers : handler[h] = Waiting OBVIOUS
<1>4. NamesAreRows BY <1>2, <1>3 DEF NamesAreRows
<1>5. GoodHasNoNext /\ ExpiryIsOrdered /\ SecretUntilTraded
  BY <1>2, <1>3 DEF GoodHasNoNext, ExpiryIsOrdered, SecretUntilTraded
<1> QED BY <1>1, <1>4, <1>5 DEF IInv

-----------------------------------------------------------------------------
(* Statements on the rows.  A new row is the last, the others stay.        *)
LEMMA Created ==
  ASSUME TypeOK, NEW u \in Users, NEW clock \in Nat, CreateRefreshToken(u, clock)
  PROVE  /\ tokens' \in Seq(Token)
         /\ Len(tokens) \in Nat /\ Len(tokens') = Len(tokens) + 1
         /\ \A t \in 1..Len(tokens) : tokens'[t] = tokens[t]
         /\ tokens'[Len(tokens) + 1] = NewToken(u, clock)
<1>1. NewToken(u, clock) \in Token BY DEF NewToken, Token
<1>2. tokens \in Seq(Token) /\ tokens' = Append(tokens, NewToken(u, clock))
  BY DEF TypeOK, CreateRefreshToken
<1> HIDE DEF Token
<1> QED BY <1>1, <1>2

(* What revoking does: the rows stay, and each of them is what it was, or  *)
(* was good and is revoked, with the successor that it is given.           *)
LEMMA RevokedOne ==
  ASSUME IInv, NEW t \in 1..Len(tokens), NEW n \in Nat \cup {None}, RevokeRefreshToken(t, n)
  PROVE  /\ tokens' \in Seq(Token) /\ Len(tokens') = Len(tokens)
         /\ \A r \in 1..Len(tokens) \ {t} : tokens'[r] = tokens[r]
         /\ tokens'[t].revoked
         /\ tokens'[t].user = tokens[t].user /\ tokens'[t].expires = tokens[t].expires
         /\ tokens[t].revoked => tokens'[t] = tokens[t]
         /\ ~tokens[t].revoked => tokens'[t].next = n
<1>1. tokens[t] \in Token /\ tokens \in Seq(Token) BY RowIsToken DEF IInv, TypeOK
<1>2. CASE tokens[t].revoked
  <2>1. tokens' = tokens BY <1>2 DEF RevokeRefreshToken
  <2> QED BY <2>1, <1>1, <1>2
<1>3. CASE ~tokens[t].revoked
  <2> DEFINE row == Revoked(tokens[t], n)
  <2>1. /\ row \in Token /\ row.revoked /\ row.user = tokens[t].user
        /\ row.expires = tokens[t].expires /\ row.next = n
    BY <1>1 DEF Revoked, Token
  <2>2. tokens' = [tokens EXCEPT ![t] = row] BY <1>3 DEF RevokeRefreshToken
  <2> HIDE DEF row, Token
  <2>3. tokens' \in Seq(Token) /\ Len(tokens') = Len(tokens) BY <1>1, <2>1, <2>2
  <2>4. tokens'[t] = row /\ \A r \in 1..Len(tokens) \ {t} : tokens'[r] = tokens[r] BY <1>1, <2>2
  <2> QED BY <2>1, <2>3, <2>4, <1>3
<1> QED BY <1>2, <1>3

LEMMA RevokedAll ==
  ASSUME IInv, NEW u, RevokeAllRefreshTokensForUser(u)
  PROVE  /\ tokens' \in Seq(Token) /\ Len(tokens') = Len(tokens)
         /\ \A r \in 1..Len(tokens) :
              /\ tokens'[r].user = tokens[r].user /\ tokens'[r].expires = tokens[r].expires
              /\ tokens'[r].next = tokens[r].next
              /\ tokens'[r].revoked = (tokens[r].revoked \/ tokens[r].user = u)
              /\ tokens[r].revoked => tokens'[r] = tokens[r]
<1>1. tokens \in Seq(Token) /\ Len(tokens) \in Nat /\ DOMAIN tokens = 1..Len(tokens)
  BY DEF IInv, TypeOK
<1> DEFINE row(r) == IF tokens[r].user = u THEN Revoked(tokens[r], tokens[r].next) ELSE tokens[r]
<1>2. ASSUME NEW r \in 1..Len(tokens)
      PROVE  /\ row(r) \in Token
             /\ row(r).user = tokens[r].user /\ row(r).expires = tokens[r].expires
             /\ row(r).next = tokens[r].next
             /\ row(r).revoked = (tokens[r].revoked \/ tokens[r].user = u)
             /\ tokens[r].revoked => row(r) = tokens[r]
  <2>1. tokens[r] \in Token BY RowIsToken DEF IInv
  <2>2. CASE tokens[r].user = u
    <3> DEFINE new == Revoked(tokens[r], tokens[r].next)
    <3>1. row(r) = new BY <2>2
    <3>2. /\ new \in Token /\ new.user = tokens[r].user /\ new.expires = tokens[r].expires
          /\ new.next = tokens[r].next /\ new.revoked = TRUE
      BY <2>1 DEF Revoked, Token
    <3>3. tokens[r].revoked => new = tokens[r] BY <2>1 DEF Revoked, Token
    <3> HIDE DEF new
    <3> QED BY <3>1, <3>2, <3>3, <2>2
  <2>3. CASE tokens[r].user # u
    <3>1. row(r) = tokens[r] BY <2>3
    <3>2. tokens[r].revoked \in BOOLEAN BY <2>1 DEF Token
    <3> QED BY <3>1, <3>2, <2>1, <2>3
  <2> QED BY <2>2, <2>3
<1>3. tokens' = [r \in 1..Len(tokens) |-> row(r)] BY <1>1 DEF RevokeAllRefreshTokensForUser
<1> HIDE DEF row, Token
<1>4. tokens' \in Seq(Token) /\ Len(tokens') = Len(tokens) BY <1>1, <1>2, <1>3
<1>5. \A r \in 1..Len(tokens) : tokens'[r] = row(r) BY <1>3
<1> QED BY <1>2, <1>4, <1>5

(* What an app has after the answer: what it had, or what it was sent.     *)
LEMMA Answered ==
  ASSUME IInv, NEW a \in Apps, NEW t \in Nat \cup {None}, Response(a, t)
  PROVE  /\ wallet' \in [Apps -> Nat \cup {None}]
         /\ \A x \in Apps : wallet'[x] = wallet[x] \/ wallet'[x] = t
BY DEF Response, IInv, TypeOK

-----------------------------------------------------------------------------
LEMMA LoginKeeps == ASSUME IInv, NEW a \in Apps, Login(a) PROVE IInv'
<1> DEFINE new == Len(tokens) + 1
<1>1. time \in Nat /\ UserOf[a] \in Users BY DEF IInv, TypeOK, Users
<1>2. /\ tokens' \in Seq(Token)
      /\ Len(tokens) \in Nat /\ Len(tokens') = new
      /\ \A t \in 1..Len(tokens) : tokens'[t] = tokens[t]
      /\ tokens'[new] = NewToken(UserOf[a], time)
  BY <1>1, Created DEF Login, IInv
<1>3. /\ wallet' \in [Apps -> Nat \cup {None}]
      /\ \A x \in Apps : wallet'[x] = wallet[x] \/ wallet'[x] = new
  BY <1>2, Answered DEF Login
<1>4. handler' = handler /\ time' = time BY DEF Login
<1>5. TypeOK' BY <1>2, <1>3, <1>4 DEF IInv, TypeOK
<1>6. /\ tokens'[new].expires = time + TokenLife /\ tokens'[new].next = None
      /\ ~tokens'[new].revoked
  BY <1>2 DEF NewToken
<1>7. NamesAreRows' BY <1>2, <1>3, <1>4, <1>6 DEF IInv, NamesAreRows
<1>8. GoodHasNoNext' BY <1>2, <1>6 DEF IInv, GoodHasNoNext
<1>9. ExpiryIsOrdered'
  <2>1. \A t \in 1..Len(tokens') : tokens'[t].expires <= time' + TokenLife
    BY <1>1, <1>2, <1>4, <1>6 DEF IInv, ExpiryIsOrdered
  <2>2. \A h \in Handlers : handler[h].pc \in {"create", "trade"} => handler[h].token \in 1..Len(tokens)
    BY DEF IInv, NamesAreRows
  <2> QED BY <2>1, <2>2, <1>2, <1>4 DEF IInv, ExpiryIsOrdered
<1>10. ASSUME NEW h \in Handlers, handler[h].pc = "trade" PROVE Secret(h)'
  <2>1. handler[h].next \in 1..Len(tokens) /\ handler[h].token \in 1..Len(tokens)
    BY <1>10 DEF IInv, NamesAreRows
  <2>2. Secret(h) BY <1>10 DEF IInv, SecretUntilTraded
  <2>3. \A u \in 1..Len(tokens') : tokens'[u].next # handler[h].next
    BY <1>2, <1>6, <2>1, <2>2 DEF Secret
  <2>4. \A x \in Apps : wallet'[x] # handler[h].next BY <1>2, <1>3, <2>1, <2>2 DEF Secret
  <2> QED BY <1>2, <1>4, <2>1, <2>2, <2>3, <2>4 DEF Secret
<1>11. SecretUntilTraded' BY <1>4, <1>10 DEF SecretUntilTraded
<1> QED BY <1>5, <1>7, <1>8, <1>9, <1>11 DEF IInv

(* A request starts on a token of a wallet, which is nobody's secret.      *)
LEMMA StartKeeps ==
  ASSUME IInv, NEW h \in Handlers, NEW a \in Apps, NEW pc \in {"create", "revoke", "revokeAll"},
         NEW clock \in Nat, clock = time \/ pc # "create",
         handler[h] = Waiting, wallet[a] # None,
         handler' = [handler EXCEPT ![h] = Work(pc, a, wallet[a], clock, None)],
         UNCHANGED <<tokens, wallet, time>>
  PROVE  IInv'
<1> DEFINE work == Work(pc, a, wallet[a], clock, None)
<1>1. wallet[a] \in 1..Len(tokens) /\ Len(tokens) \in Nat BY DEF IInv, NamesAreRows, TypeOK
<1>2. /\ work \in Works /\ work.pc = pc /\ work.app = a /\ work.token = wallet[a]
      /\ work.since = clock /\ work.next = None
  BY <1>1 DEF Work, Works
<1> HIDE DEF work
<1>3. handler \in [Handlers -> Works] /\ handler' = [handler EXCEPT ![h] = work]
  BY DEF IInv, TypeOK, work
<1>4. handler' \in [Handlers -> Works] /\ handler'[h] = work /\ \A g \in Handlers \ {h} : handler'[g] = handler[g]
  BY <1>2, <1>3
<1>5. TypeOK' BY <1>4 DEF IInv, TypeOK
<1>6. NamesAreRows' BY <1>1, <1>2, <1>4 DEF IInv, NamesAreRows
<1>7. GoodHasNoNext' BY DEF IInv, GoodHasNoNext
<1>8. ExpiryIsOrdered' BY <1>1, <1>2, <1>4 DEF IInv, ExpiryIsOrdered
<1>9. ASSUME NEW g \in Handlers, handler'[g].pc = "trade" PROVE Secret(g)'
  <2>1. g # h /\ handler'[g] = handler[g] BY <1>2, <1>4, <1>9
  <2>2. Secret(g) BY <2>1, <1>9 DEF IInv, SecretUntilTraded
  <2>3. handler[g].next \in 1..Len(tokens) BY <2>1, <1>9 DEF IInv, NamesAreRows
  <2>4. \A f \in Handlers : handler'[f].token # handler[g].next /\ (f # g => handler'[f].next # handler[g].next)
    BY <1>2, <1>4, <2>2, <2>3 DEF Secret
  <2> QED BY <2>1, <2>2, <2>4 DEF Secret
<1>10. SecretUntilTraded' BY <1>9 DEF SecretUntilTraded
<1> QED BY <1>5, <1>6, <1>7, <1>8, <1>10 DEF IInv

LEMMA RefreshKeeps == ASSUME IInv, NEW h \in Handlers, NEW a \in Apps, Refresh(h, a) PROVE IInv'
<1> DEFINE row == tokens[wallet[a]]
           pc == IF row.revoked THEN "revokeAll" ELSE IF time > row.expires THEN "revoke" ELSE "create"
<1>1. pc \in {"create", "revoke", "revokeAll"} OBVIOUS
<1>2. /\ handler[h] = Waiting /\ wallet[a] # None
      /\ handler' = [handler EXCEPT ![h] = Work(pc, a, wallet[a], time, None)]
      /\ UNCHANGED <<tokens, wallet, time>>
  BY DEF Refresh
<1> HIDE DEF pc
<1>3. time \in Nat BY DEF IInv, TypeOK
<1> QED BY <1>1, <1>2, <1>3, StartKeeps

LEMMA LogoutKeeps == ASSUME IInv, NEW h \in Handlers, NEW a \in Apps, Logout(h, a) PROVE IInv'
BY StartKeeps DEF Logout

LEMMA CreateKeeps == ASSUME IInv, NEW h \in Handlers, CreateSuccessor(h) PROVE IInv'
<1> DEFINE new == Len(tokens) + 1
           old == handler[h].token
           row == NewToken(tokens[old].user, handler[h].since)
           work == Work("trade", handler[h].app, old, handler[h].since, new)
<1>1. handler[h].pc = "create" BY DEF CreateSuccessor
<1>2. handler[h] \in Works /\ old \in 1..Len(tokens) /\ handler[h].app \in Apps
  BY <1>1 DEF IInv, TypeOK, NamesAreRows
<1>3. tokens[old].user \in Users /\ handler[h].since \in Nat /\ tokens[old].expires \in Nat
  BY <1>2, RowIsToken DEF IInv, Token, Works
<1>4. /\ tokens' \in Seq(Token)
      /\ Len(tokens) \in Nat /\ Len(tokens') = new
      /\ \A t \in 1..Len(tokens) : tokens'[t] = tokens[t]
      /\ tokens'[new] = row
  BY <1>3, Created DEF CreateSuccessor, IInv
<1>5. /\ row.user = tokens[old].user /\ row.expires = handler[h].since + TokenLife
      /\ row.next = None /\ ~row.revoked
  BY DEF NewToken
<1>6. /\ work \in Works /\ work.pc = "trade" /\ work.app = handler[h].app /\ work.token = old
      /\ work.since = handler[h].since /\ work.next = new
  BY <1>2, <1>3, <1>4 DEF Work, Works
<1> HIDE DEF row, work
<1>7. handler \in [Handlers -> Works] /\ handler' = [handler EXCEPT ![h] = work]
  BY DEF IInv, TypeOK, CreateSuccessor, work
<1>8. handler' \in [Handlers -> Works] /\ handler'[h] = work /\ \A g \in Handlers \ {h} : handler'[g] = handler[g]
  BY <1>6, <1>7
<1>9. wallet' = wallet /\ time' = time BY DEF CreateSuccessor
<1>10. TypeOK' BY <1>4, <1>8, <1>9 DEF IInv, TypeOK
<1>11. NamesAreRows' BY <1>2, <1>4, <1>5, <1>6, <1>8, <1>9 DEF IInv, NamesAreRows
<1>12. GoodHasNoNext' BY <1>4, <1>5 DEF IInv, GoodHasNoNext
<1>13. handler[h].since <= time /\ tokens[old].expires <= handler[h].since + TokenLife
  BY <1>1 DEF IInv, ExpiryIsOrdered
<1>14. ExpiryIsOrdered'
  <2>1. time \in Nat BY DEF IInv, TypeOK
  <2>2. \A t \in 1..Len(tokens') : tokens'[t].expires <= time' + TokenLife
    <3>1. \A t \in 1..Len(tokens) : tokens'[t].expires <= time' + TokenLife
      BY <1>4, <1>9 DEF IInv, ExpiryIsOrdered
    <3>2. tokens'[new].expires <= time' + TokenLife BY <2>1, <1>3, <1>4, <1>5, <1>9, <1>13
    <3> QED BY <3>1, <3>2, <1>4
  <2>3. ASSUME NEW g \in Handlers, handler'[g].pc \in {"create", "trade"}
        PROVE  handler'[g].since <= time' /\ tokens'[handler'[g].token].expires <= handler'[g].since + TokenLife
    <3>1. CASE g = h BY <3>1, <1>2, <1>4, <1>6, <1>8, <1>9, <1>13
    <3>2. CASE g # h
      <4>1. handler'[g] = handler[g] /\ handler[g].token \in 1..Len(tokens)
        BY <3>2, <2>3, <1>8 DEF IInv, NamesAreRows
      <4> QED BY <4>1, <2>3, <1>4, <1>9 DEF IInv, ExpiryIsOrdered
    <3> QED BY <3>1, <3>2
  <2> QED BY <2>2, <2>3 DEF ExpiryIsOrdered
<1>15. ASSUME NEW g \in Handlers, handler'[g].pc = "trade" PROVE Secret(g)'
  <2>1. CASE g = h
    <3>1. \A x \in Apps : wallet[x] # new BY <1>4 DEF IInv, NamesAreRows
    <3>2. \A f \in Handlers : handler'[f].token # new /\ (f # h => handler'[f].next # new)
      BY <1>2, <1>4, <1>6, <1>8 DEF IInv, NamesAreRows
    <3>3. \A u \in 1..Len(tokens') : tokens'[u].next # new BY <1>4, <1>5 DEF IInv, NamesAreRows
    <3>4. tokens'[new].user = tokens'[old].user BY <1>2, <1>4, <1>5
    <3> QED BY <2>1, <3>1, <3>2, <3>3, <3>4, <1>4, <1>5, <1>6, <1>8, <1>9 DEF Secret
  <2>2. CASE g # h
    <3>1. handler'[g] = handler[g] /\ handler[g].pc = "trade" BY <2>2, <1>8, <1>15
    <3>2. handler[g].next \in 1..Len(tokens) /\ handler[g].token \in 1..Len(tokens)
      BY <3>1 DEF IInv, NamesAreRows
    <3>3. Secret(g) BY <3>1 DEF IInv, SecretUntilTraded
    <3>4. \A f \in Handlers : handler'[f].token # handler[g].next /\ (f # g => handler'[f].next # handler[g].next)
      BY <1>4, <1>6, <1>8, <3>2, <3>3 DEF Secret
    <3>5. \A u \in 1..Len(tokens') : tokens'[u].next # handler[g].next
      BY <1>4, <1>5, <3>2, <3>3 DEF Secret
    <3> QED BY <3>1, <3>2, <3>3, <3>4, <3>5, <1>4, <1>9 DEF Secret
  <2> QED BY <2>1, <2>2
<1>16. SecretUntilTraded' BY <1>15 DEF SecretUntilTraded
<1> QED BY <1>10, <1>11, <1>12, <1>14, <1>16 DEF IInv

(* A request ends: rows are the same or are revoked, the revoked ones stay *)
(* as they are, and an app is sent nothing but the request's successor.    *)
LEMMA EndKeeps ==
  ASSUME IInv, NEW h \in Handlers,
         tokens' \in Seq(Token), Len(tokens') = Len(tokens),
         \A r \in 1..Len(tokens) :
           /\ tokens'[r].user = tokens[r].user /\ tokens'[r].expires = tokens[r].expires
           /\ tokens'[r].next = tokens[r].next \/ tokens'[r].next = handler[h].next
           /\ ~tokens'[r].revoked => tokens'[r].next = None,
         \A g \in Handlers \ {h} :
           handler[g].pc = "trade" /\ tokens'[handler[g].next].revoked
             => tokens'[handler[g].token].revoked,
         wallet' \in [Apps -> Nat \cup {None}],
         \A a \in Apps : wallet'[a] = wallet[a] \/ wallet'[a] = None \/ wallet'[a] = handler[h].next,
         handler' = [handler EXCEPT ![h] = Waiting], time' = time
  PROVE  IInv'
<1>1. Waiting \in Works /\ Waiting.pc = "free" /\ Waiting.token = None /\ Waiting.next = None
  BY DEF Waiting, Work, Works
<1>2. handler \in [Handlers -> Works] BY DEF IInv, TypeOK
<1>3. /\ handler' \in [Handlers -> Works]
      /\ handler'[h] = Waiting
      /\ \A g \in Handlers \ {h} : handler'[g] = handler[g]
  BY <1>1, <1>2
<1>4. handler[h].next # None => handler[h].next \in 1..Len(tokens) BY DEF IInv, NamesAreRows
<1>5. TypeOK' BY <1>3 DEF IInv, TypeOK
<1>6. NamesAreRows' BY <1>1, <1>3, <1>4 DEF IInv, NamesAreRows
<1>7. GoodHasNoNext' BY DEF GoodHasNoNext
<1>8. ExpiryIsOrdered'
  <2>1. \A t \in 1..Len(tokens') : tokens'[t].expires <= time' + TokenLife
    BY DEF IInv, ExpiryIsOrdered
  <2>2. ASSUME NEW g \in Handlers, handler'[g].pc \in {"create", "trade"}
        PROVE  handler'[g].since <= time' /\ tokens'[handler'[g].token].expires <= handler'[g].since + TokenLife
    <3>1. g # h /\ handler'[g] = handler[g] BY <1>1, <1>3, <2>2
    <3>2. handler[g].token \in 1..Len(tokens) BY <3>1, <2>2 DEF IInv, NamesAreRows
    <3> QED BY <3>1, <3>2, <2>2 DEF IInv, ExpiryIsOrdered
  <2> QED BY <2>1, <2>2 DEF ExpiryIsOrdered
<1>9. ASSUME NEW g \in Handlers, handler'[g].pc = "trade" PROVE Secret(g)'
  <2>1. g # h /\ handler'[g] = handler[g] /\ handler[g].pc = "trade" BY <1>1, <1>3, <1>9
  <2>2. handler[g].next \in 1..Len(tokens) /\ handler[g].token \in 1..Len(tokens)
    BY <2>1 DEF IInv, NamesAreRows
  <2>3. Secret(g) BY <2>1 DEF IInv, SecretUntilTraded
  <2>4. handler[h].next # handler[g].next /\ None # handler[g].next BY <2>1, <2>2, <2>3 DEF Secret
  <2>5. \A a \in Apps : wallet'[a] # handler[g].next BY <2>3, <2>4 DEF Secret
  <2>6. \A f \in Handlers : handler'[f].token # handler[g].next /\ (f # g => handler'[f].next # handler[g].next)
    BY <1>1, <1>3, <2>3, <2>4 DEF Secret
  <2>7. \A u \in 1..Len(tokens') : tokens'[u].next # handler[g].next BY <2>3, <2>4 DEF Secret
  <2>8. tokens'[handler[g].next].revoked => tokens'[handler[g].token].revoked BY <2>1
  <2> QED BY <2>1, <2>2, <2>3, <2>5, <2>6, <2>7, <2>8 DEF Secret
<1>10. SecretUntilTraded' BY <1>9 DEF SecretUntilTraded
<1> QED BY <1>5, <1>6, <1>7, <1>8, <1>10 DEF IInv

(* The old token and its successor are of one user, and the successor is   *)
(* in no request: what revokes it revokes the old one.                     *)
LEMMA OneIsRevoked ==
  ASSUME IInv, NEW h \in Handlers, handler[h].pc # "free", NEW n \in Nat \cup {None},
         RevokeRefreshToken(handler[h].token, n)
  PROVE  \A g \in Handlers \ {h} :
           handler[g].pc = "trade" /\ tokens'[handler[g].next].revoked
             => tokens'[handler[g].token].revoked
<1> DEFINE t == handler[h].token
<1>1. t \in 1..Len(tokens) BY DEF IInv, NamesAreRows
<1>2. /\ \A r \in 1..Len(tokens) \ {t} : tokens'[r] = tokens[r]
      /\ tokens'[t].revoked
  BY <1>1, RevokedOne
<1> SUFFICES ASSUME NEW g \in Handlers \ {h}, handler[g].pc = "trade", tokens'[handler[g].next].revoked
             PROVE  tokens'[handler[g].token].revoked
  OBVIOUS
<1>3. /\ handler[g].next \in 1..Len(tokens) /\ handler[g].token \in 1..Len(tokens)
      /\ Secret(g)
  BY DEF IInv, NamesAreRows, SecretUntilTraded
<1>4. handler[g].next # t BY <1>3 DEF Secret
<1>5. tokens[handler[g].next].revoked => tokens[handler[g].token].revoked BY <1>3 DEF Secret
<1> QED BY <1>2, <1>3, <1>4, <1>5

LEMMA TradeKeeps == ASSUME IInv, NEW h \in Handlers, TradeToken(h) PROVE IInv'
<1> DEFINE t == handler[h].token
           n == handler[h].next
<1>1. /\ handler[h].pc = "trade" /\ RevokeRefreshToken(t, n) /\ Response(handler[h].app, n)
      /\ handler' = [handler EXCEPT ![h] = Waiting] /\ time' = time
  BY DEF TradeToken
<1>2. t \in 1..Len(tokens) /\ n \in 1..Len(tokens) /\ handler[h].app \in Apps /\ Len(tokens) \in Nat
  BY <1>1 DEF IInv, NamesAreRows, TypeOK
<1>3. n \in Nat /\ n \in Nat \cup {None} BY <1>2
<1>4. /\ tokens' \in Seq(Token) /\ Len(tokens') = Len(tokens)
      /\ \A r \in 1..Len(tokens) \ {t} : tokens'[r] = tokens[r]
      /\ tokens'[t].revoked
      /\ tokens'[t].user = tokens[t].user /\ tokens'[t].expires = tokens[t].expires
      /\ tokens[t].revoked => tokens'[t] = tokens[t]
      /\ ~tokens[t].revoked => tokens'[t].next = n
  BY <1>1, <1>2, <1>3, RevokedOne
<1>5. \A r \in 1..Len(tokens) :
        /\ tokens'[r].user = tokens[r].user /\ tokens'[r].expires = tokens[r].expires
        /\ tokens'[r].next = tokens[r].next \/ tokens'[r].next = n
        /\ ~tokens'[r].revoked => tokens'[r].next = None
  BY <1>4 DEF IInv, GoodHasNoNext
<1>6. \A g \in Handlers \ {h} :
        handler[g].pc = "trade" /\ tokens'[handler[g].next].revoked
          => tokens'[handler[g].token].revoked
  BY <1>1, <1>3, OneIsRevoked
<1>7. /\ wallet' \in [Apps -> Nat \cup {None}]
      /\ \A a \in Apps : wallet'[a] = wallet[a] \/ wallet'[a] = n
  BY <1>1, <1>2, <1>3, Answered
<1> QED BY <1>1, <1>4, <1>5, <1>6, <1>7, EndKeeps

LEMMA RevokeKeeps == ASSUME IInv, NEW h \in Handlers, Revoke(h) PROVE IInv'
<1> DEFINE t == handler[h].token
<1>1. /\ handler[h].pc \in {"revoke", "revokeAll"} /\ Response(handler[h].app, None)
      /\ handler' = [handler EXCEPT ![h] = Waiting] /\ time' = time
  BY DEF Revoke
<1>2. t \in 1..Len(tokens) /\ handler[h].app \in Apps BY <1>1 DEF IInv, NamesAreRows
<1>3. /\ wallet' \in [Apps -> Nat \cup {None}]
      /\ \A a \in Apps : wallet'[a] = wallet[a] \/ wallet'[a] = None
  BY <1>1, <1>2, Answered
<1>4. CASE handler[h].pc = "revoke"
  <2>1. RevokeRefreshToken(t, None) BY <1>4 DEF Revoke
  <2>2. /\ tokens' \in Seq(Token) /\ Len(tokens') = Len(tokens)
        /\ \A r \in 1..Len(tokens) \ {t} : tokens'[r] = tokens[r]
        /\ tokens'[t].revoked
        /\ tokens'[t].user = tokens[t].user /\ tokens'[t].expires = tokens[t].expires
        /\ tokens[t].revoked => tokens'[t] = tokens[t]
        /\ ~tokens[t].revoked => tokens'[t].next = None
    BY <1>2, <2>1, RevokedOne
  <2>3. handler[h].next = None BY <1>4 DEF IInv, NamesAreRows
  <2>4. \A r \in 1..Len(tokens) :
          /\ tokens'[r].user = tokens[r].user /\ tokens'[r].expires = tokens[r].expires
          /\ tokens'[r].next = tokens[r].next \/ tokens'[r].next = handler[h].next
          /\ ~tokens'[r].revoked => tokens'[r].next = None
    BY <2>2, <2>3 DEF IInv, GoodHasNoNext
  <2>5. \A g \in Handlers \ {h} :
          handler[g].pc = "trade" /\ tokens'[handler[g].next].revoked
            => tokens'[handler[g].token].revoked
    BY <1>1, <2>1, OneIsRevoked
  <2> QED BY <1>1, <1>3, <2>2, <2>4, <2>5, EndKeeps
<1>5. CASE handler[h].pc = "revokeAll"
  <2> DEFINE u == tokens[t].user
  <2>1. RevokeAllRefreshTokensForUser(u) BY <1>5 DEF Revoke
  <2>2. /\ tokens' \in Seq(Token) /\ Len(tokens') = Len(tokens)
        /\ \A r \in 1..Len(tokens) :
             /\ tokens'[r].user = tokens[r].user /\ tokens'[r].expires = tokens[r].expires
             /\ tokens'[r].next = tokens[r].next
             /\ tokens'[r].revoked = (tokens[r].revoked \/ tokens[r].user = u)
             /\ tokens[r].revoked => tokens'[r] = tokens[r]
    BY <2>1, RevokedAll
  <2> HIDE DEF u
  <2>3. \A r \in 1..Len(tokens) : ~tokens'[r].revoked => tokens'[r].next = None
    BY <2>2 DEF IInv, GoodHasNoNext
  <2>4. ASSUME NEW g \in Handlers \ {h}, handler[g].pc = "trade", tokens'[handler[g].next].revoked
        PROVE  tokens'[handler[g].token].revoked
    <3>1. /\ handler[g].next \in 1..Len(tokens) /\ handler[g].token \in 1..Len(tokens)
          /\ Secret(g)
      BY <2>4 DEF IInv, NamesAreRows, SecretUntilTraded
    <3>2. /\ tokens[handler[g].next].revoked => tokens[handler[g].token].revoked
          /\ tokens[handler[g].next].user = tokens[handler[g].token].user
      BY <3>1 DEF Secret
    <3> QED BY <2>2, <2>4, <3>1, <3>2
  <2> QED BY <1>1, <1>3, <2>2, <2>3, <2>4, EndKeeps
<1> QED BY <1>1, <1>4, <1>5

LEMMA FailKeeps == ASSUME IInv, NEW h \in Handlers, Fail(h) PROVE IInv'
<1>1. /\ handler[h].pc \in {"create", "trade", "revoke", "revokeAll"}
      /\ tokens' = tokens /\ time' = time
      /\ handler' = [handler EXCEPT ![h] = Waiting]
  BY DEF Fail
<1>2. wallet' = wallet \/ Response(handler[h].app, handler[h].next) \/ Response(handler[h].app, None)
  BY DEF Fail
<1>3. handler[h].app \in Apps /\ handler[h].next \in Nat \cup {None}
  BY <1>1 DEF IInv, NamesAreRows, TypeOK, Works
<1>4. /\ wallet' \in [Apps -> Nat \cup {None}]
      /\ \A a \in Apps : wallet'[a] = wallet[a] \/ wallet'[a] = None \/ wallet'[a] = handler[h].next
  <2>1. CASE wallet' = wallet BY <2>1 DEF IInv, TypeOK
  <2>2. CASE Response(handler[h].app, handler[h].next) BY <2>2, <1>3, Answered
  <2>3. CASE Response(handler[h].app, None) BY <2>3, <1>3, Answered
  <2> QED BY <1>2, <2>1, <2>2, <2>3
<1>5. tokens' \in Seq(Token) BY <1>1 DEF IInv, TypeOK
<1>6. \A r \in 1..Len(tokens) : ~tokens'[r].revoked => tokens'[r].next = None
  BY <1>1 DEF IInv, GoodHasNoNext
<1>7. \A g \in Handlers \ {h} :
        handler[g].pc = "trade" /\ tokens'[handler[g].next].revoked
          => tokens'[handler[g].token].revoked
  BY <1>1 DEF IInv, SecretUntilTraded, Secret
<1> QED BY <1>1, <1>4, <1>5, <1>6, <1>7, EndKeeps

LEMMA StopKeeps == ASSUME IInv, Stop PROVE IInv'
<1>1. Waiting \in Works /\ Waiting.pc = "free" /\ Waiting.token = None /\ Waiting.next = None
  BY DEF Waiting, Work, Works
<1>2. handler' = [h \in Handlers |-> Waiting] /\ UNCHANGED <<tokens, wallet, time>> BY DEF Stop
<1>3. TypeOK' BY <1>1, <1>2 DEF IInv, TypeOK
<1>4. NamesAreRows' BY <1>1, <1>2 DEF IInv, NamesAreRows
<1>5. (GoodHasNoNext /\ ExpiryIsOrdered /\ SecretUntilTraded)'
  BY <1>1, <1>2 DEF IInv, GoodHasNoNext, ExpiryIsOrdered, SecretUntilTraded
<1> QED BY <1>3, <1>4, <1>5 DEF IInv

LEMMA ClockKeeps == ASSUME IInv, Clock PROVE IInv'
<1>1. time \in Nat /\ time' = time + 1 /\ UNCHANGED <<tokens, wallet, handler>>
  BY DEF IInv, TypeOK, Clock
<1>2. (TypeOK /\ NamesAreRows /\ GoodHasNoNext)' BY <1>1 DEF IInv, TypeOK, NamesAreRows, GoodHasNoNext
<1>3. ExpiryIsOrdered'
  <2>1. \A t \in 1..Len(tokens) : tokens[t].expires \in Nat BY RowIsToken DEF IInv, Token
  <2>2. \A h \in Handlers : handler[h].since \in Nat BY DEF IInv, TypeOK, Works
  <2> QED BY <1>1, <2>1, <2>2 DEF IInv, ExpiryIsOrdered
<1>4. SecretUntilTraded' BY <1>1 DEF IInv, SecretUntilTraded, Secret
<1> QED BY <1>2, <1>3, <1>4 DEF IInv

LEMMA NextKeeps == IInv /\ [SessionsNext]_sessionVars => IInv'
<1> SUFFICES ASSUME IInv, [SessionsNext]_sessionVars PROVE IInv' OBVIOUS
<1>1. CASE UNCHANGED sessionVars
  BY <1>1 DEF sessionVars, IInv, TypeOK, NamesAreRows, GoodHasNoNext, ExpiryIsOrdered,
              SecretUntilTraded, Secret
<1>2. CASE SessionsNext
  BY <1>2, LoginKeeps, RefreshKeeps, LogoutKeeps, CreateKeeps, TradeKeeps, RevokeKeeps, FailKeeps,
     StopKeeps, ClockKeeps
  DEF SessionsNext
<1> QED BY <1>1, <1>2

(* Every name of a token is a row, and the successor that a request has    *)
(* made is known to nobody else and is not revoked before the token it     *)
(* replaces (Sessions: handleRefresh, repository_refresh_tokens.go).       *)
THEOREM SessionInvariant == SessionsSpec => []IInv
BY InitHolds, NextKeeps, PTL DEF SessionsSpec

-----------------------------------------------------------------------------
(* What a step may do to row t: TradesAreFair, of one row.                 *)
Fair(t) ==
  tokens'[t] # tokens[t] =>
    LET n == tokens'[t].next IN
    /\ ~tokens[t].revoked /\ tokens'[t].revoked
    /\ n # None =>
         /\ tokens'[n].user = tokens[t].user /\ ~tokens'[n].revoked
         /\ tokens'[n].expires >= tokens[t].expires
         /\ \A u \in DOMAIN tokens' \ {t} : tokens'[u].next # n

LEMMA CreatedIsFair ==
  ASSUME IInv, NEW u \in Users, NEW clock \in Nat, CreateRefreshToken(u, clock), NEW t \in 1..Len(tokens)
  PROVE  Fair(t)
BY Created DEF Fair, IInv

LEMMA TradeIsFair ==
  ASSUME IInv, NEW h \in Handlers, TradeToken(h), NEW r \in 1..Len(tokens)
  PROVE  Fair(r)
<1> DEFINE t == handler[h].token
           n == handler[h].next
<1>1. handler[h].pc = "trade" /\ RevokeRefreshToken(t, n) BY DEF TradeToken
<1>2. t \in 1..Len(tokens) /\ n \in 1..Len(tokens) /\ Secret(h)
  BY <1>1 DEF IInv, NamesAreRows, SecretUntilTraded
<1>3. n \in Nat \cup {None} /\ n # None BY <1>2
<1>4. /\ tokens' \in Seq(Token) /\ Len(tokens') = Len(tokens)
      /\ \A x \in 1..Len(tokens) \ {t} : tokens'[x] = tokens[x]
      /\ tokens'[t].revoked
      /\ tokens[t].revoked => tokens'[t] = tokens[t]
      /\ ~tokens[t].revoked => tokens'[t].next = n
  BY <1>1, <1>2, <1>3, RevokedOne
<1>5. CASE r # t \/ tokens[t].revoked BY <1>4, <1>5 DEF Fair
<1>6. CASE r = t /\ ~tokens[t].revoked
  <2>1. n # t BY <1>2 DEF Secret
  <2>2. tokens'[n] = tokens[n] BY <1>2, <1>4, <2>1
  <2>3. /\ tokens[n].user = tokens[t].user /\ ~tokens[n].revoked
        /\ tokens[n].expires = handler[h].since + TokenLife
        /\ \A x \in 1..Len(tokens) : tokens[x].next # n
    BY <1>2, <1>6 DEF Secret
  <2>4. tokens[t].expires <= handler[h].since + TokenLife BY <1>1 DEF IInv, ExpiryIsOrdered
  <2>5. tokens[t].expires \in Nat /\ handler[h].since \in Nat
    BY <1>2, RowIsToken DEF IInv, Token, TypeOK, Works
  <2>6. tokens[n].expires >= tokens[t].expires BY <2>3, <2>4, <2>5
  <2>7. DOMAIN tokens' = 1..Len(tokens) BY <1>4
  <2>8. \A u \in DOMAIN tokens' \ {t} : tokens'[u].next # n BY <1>4, <2>3, <2>7
  <2> QED BY <1>4, <1>6, <2>2, <2>3, <2>6, <2>8 DEF Fair
<1> QED BY <1>5, <1>6

LEMMA RevokeIsFair ==
  ASSUME IInv, NEW h \in Handlers, Revoke(h), NEW r \in 1..Len(tokens)
  PROVE  Fair(r)
<1> DEFINE t == handler[h].token
<1>1. handler[h].pc \in {"revoke", "revokeAll"} /\ t \in 1..Len(tokens)
  BY DEF Revoke, IInv, NamesAreRows
<1>2. tokens[r].revoked \in BOOLEAN /\ (~tokens[r].revoked => tokens[r].next = None)
  BY RowIsToken DEF IInv, GoodHasNoNext, Token
<1>3. CASE handler[h].pc = "revoke"
  <2>1. RevokeRefreshToken(t, None) BY <1>3 DEF Revoke
  <2>2. /\ \A x \in 1..Len(tokens) \ {t} : tokens'[x] = tokens[x]
        /\ tokens'[t].revoked
        /\ tokens[t].revoked => tokens'[t] = tokens[t]
        /\ ~tokens[t].revoked => tokens'[t].next = None
    BY <1>1, <2>1, RevokedOne
  <2> QED BY <2>2 DEF Fair
<1>4. CASE handler[h].pc = "revokeAll"
  <2> DEFINE u == tokens[t].user
  <2>1. RevokeAllRefreshTokensForUser(u) BY <1>4 DEF Revoke
  <2>2. /\ tokens'[r].next = tokens[r].next
        /\ tokens'[r].revoked = (tokens[r].revoked \/ tokens[r].user = u)
        /\ tokens[r].revoked => tokens'[r] = tokens[r]
        /\ tokens' \in Seq(Token) /\ Len(tokens') = Len(tokens)
        /\ tokens'[r].user = tokens[r].user /\ tokens'[r].expires = tokens[r].expires
    BY <2>1, RevokedAll
  <2> HIDE DEF u
  <2>3. tokens[r].user # u => tokens'[r] = tokens[r]
    <3>1. tokens[r] \in Token /\ tokens'[r] \in Token BY <2>2, RowIsToken DEF IInv
    <3>2. tokens[r].user # u => tokens'[r].revoked = tokens[r].revoked BY <1>2, <2>2
    <3> QED BY <2>2, <3>1, <3>2 DEF Token
  <2> QED BY <1>2, <2>2, <2>3 DEF Fair
<1> QED BY <1>1, <1>3, <1>4

LEMMA StepIsFair ==
  IInv /\ [SessionsNext]_sessionVars => \A t \in DOMAIN tokens : Fair(t)
<1> SUFFICES ASSUME IInv, [SessionsNext]_sessionVars, NEW t \in DOMAIN tokens PROVE Fair(t) OBVIOUS
<1>1. t \in 1..Len(tokens) BY DEF IInv, TypeOK
<1>2. CASE tokens' = tokens BY <1>2 DEF Fair
<1>3. ASSUME NEW a \in Apps, Login(a) PROVE Fair(t)
  <2>1. time \in Nat /\ UserOf[a] \in Users BY DEF IInv, TypeOK, Users
  <2> QED BY <1>1, <1>3, <2>1, CreatedIsFair DEF Login
<1>4. ASSUME NEW h \in Handlers, CreateSuccessor(h) PROVE Fair(t)
  <2>1. handler[h].token \in 1..Len(tokens) /\ handler[h].since \in Nat
    BY <1>4 DEF IInv, NamesAreRows, CreateSuccessor, TypeOK, Works
  <2>2. tokens[handler[h].token].user \in Users BY <2>1, RowIsToken DEF IInv, Token
  <2> QED BY <1>1, <1>4, <2>1, <2>2, CreatedIsFair DEF CreateSuccessor
<1>5. ASSUME NEW h \in Handlers, NEW a \in Apps, Refresh(h, a) \/ Logout(h, a) PROVE Fair(t)
  BY <1>2, <1>5 DEF Refresh, Logout
<1>6. ASSUME NEW h \in Handlers, Fail(h) PROVE Fair(t) BY <1>2, <1>6 DEF Fail
<1>7. CASE Stop \/ Clock \/ UNCHANGED sessionVars BY <1>2, <1>7 DEF Stop, Clock, sessionVars
<1> QED BY <1>1, <1>3, <1>4, <1>5, <1>6, <1>7, TradeIsFair, RevokeIsFair DEF SessionsNext

(* A row changes once, when it is revoked, and the successor it is given   *)
(* works then, lasts no less and succeeds nothing else, whatever the       *)
(* statements of other requests came between (Sessions: handleRefresh).    *)
THEOREM TradesStayFair == SessionsSpec => TradesAreFair
<1>1. IInv /\ [SessionsNext]_sessionVars =>
        [\A t \in DOMAIN tokens :
           tokens'[t] # tokens[t] =>
             LET n == tokens'[t].next IN
             /\ ~tokens[t].revoked /\ tokens'[t].revoked
             /\ n # None =>
                  /\ tokens'[n].user = tokens[t].user /\ ~tokens'[n].revoked
                  /\ tokens'[n].expires >= tokens[t].expires
                  /\ \A u \in DOMAIN tokens' \ {t} : tokens'[u].next # n]_sessionVars
  BY StepIsFair DEF Fair
<1> QED BY <1>1, SessionInvariant, PTL DEF SessionsSpec, TradesAreFair

-----------------------------------------------------------------------------
Rounds ==
  [pc: {"rest", "groups", "devices"}, version: Nat, classes: SUBSET Classes,
   phones: SUBSET Phones, late: BOOLEAN]

PushTypeOK ==
  /\ classOf \in [Phones -> Classes \cup {None}]
  /\ version \in Nat
  /\ saved \subseteq [version: Nat, classes: SUBSET Classes]
  /\ sender \in [Senders -> Rounds]
  /\ heard \in [Phones -> SUBSET Nat]
  /\ due \in [Phones -> Nat]

(* A goroutine has devices or groups ahead only when it goes through them. *)
Orderly ==
  \A s \in Senders : sender[s].pc # "devices" => sender[s].classes = {} /\ sender[s].phones = {}

(* A goroutine's round f still has device d ahead, and news for it.        *)
Ahead(f, d) ==
  /\ f.version >= due[d]
  /\ \/ f.pc = "groups"
     \/ f.pc = "devices" /\ (classOf[d] \in f.classes \/ d \in f.phones)

Heard(d) == \E v \in heard[d] : v >= due[d]
WillHear(d) ==
  \/ Heard(d)
  \/ \E change \in saved : classOf[d] \in change.classes
  \/ \E s \in Senders : Ahead(sender[s], d)
NewsIsOnItsWay ==
  \A d \in Phones : due[d] # 0 => due[d] <= version /\ classOf[d] \in Classes /\ WillHear(d)

PushInv == PushTypeOK /\ Orderly /\ NewsIsOnItsWay

LEMMA RoundIs ==
  ASSUME NEW pc \in {"rest", "groups", "devices"}, NEW v \in Nat, NEW cs, cs \subseteq Classes,
         NEW ds, ds \subseteq Phones, NEW late \in BOOLEAN
  PROVE  LET f == Round(pc, v, cs, ds, late)
         IN  /\ f \in Rounds
             /\ f.pc = pc /\ f.version = v /\ f.classes = cs /\ f.phones = ds /\ f.late = late
BY DEF Round, Rounds

LEMMA RoundFields ==
  ASSUME PushTypeOK, NEW s \in Senders
  PROVE  /\ sender[s] \in Rounds
         /\ sender[s].pc \in {"rest", "groups", "devices"} /\ sender[s].version \in Nat
         /\ sender[s].classes \subseteq Classes /\ sender[s].phones \subseteq Phones
         /\ sender[s].late \in BOOLEAN
BY DEF PushTypeOK, Rounds

LEMMA RestingIs ==
  Resting \in Rounds /\ Resting.pc = "rest" /\ Resting.classes = {} /\ Resting.phones = {}
BY DEF Resting, Round, Rounds

LEMMA PushInitHolds == PushInit => PushInv
<1> SUFFICES ASSUME PushInit PROVE PushInv OBVIOUS
<1>1. \A s \in Senders : sender[s] = Resting BY DEF PushInit
<1>2. PushTypeOK BY RestingIs DEF PushInit, PushTypeOK
<1>3. Orderly BY <1>1, RestingIs DEF Orderly
<1>4. NewsIsOnItsWay BY DEF PushInit, NewsIsOnItsWay
<1> QED BY <1>2, <1>3, <1>4 DEF PushInv

(* A step of goroutine s to round f: the devices that were ahead of it, or *)
(* of the change that it takes, are ahead of it, have heard, or are given  *)
(* up.                                                                     *)
LEMMA RoundKeeps ==
  ASSUME PushInv, NEW s \in Senders, NEW f \in Rounds, sender' = [sender EXCEPT ![s] = f],
         f.pc # "devices" => f.classes = {} /\ f.phones = {},
         classOf' = classOf, version' = version, saved' \subseteq saved,
         heard' \in [Phones -> SUBSET Nat], \A d \in Phones : heard[d] \subseteq heard'[d],
         due' \in [Phones -> Nat], \A d \in Phones : due'[d] = due[d] \/ due'[d] = 0,
         \A d \in Phones :
           /\ due'[d] # 0
           /\ Ahead(sender[s], d) \/ \E change \in saved \ saved' : classOf[d] \in change.classes
           => Ahead(f, d) \/ \E v \in heard'[d] : v >= due[d]
  PROVE  PushInv'
<1>1. sender \in [Senders -> Rounds] BY DEF PushInv, PushTypeOK
<1>2. sender' \in [Senders -> Rounds] /\ sender'[s] = f /\ \A r \in Senders \ {s} : sender'[r] = sender[r]
  BY <1>1
<1>3. PushTypeOK' BY <1>2 DEF PushInv, PushTypeOK
<1>4. Orderly' BY <1>2 DEF PushInv, Orderly
<1>5. ASSUME NEW d \in Phones, due'[d] # 0
      PROVE  due'[d] <= version' /\ classOf'[d] \in Classes /\ WillHear(d)'
  <2>1. due'[d] = due[d] /\ due[d] # 0 BY <1>5
  <2>2. due[d] <= version /\ classOf[d] \in Classes /\ WillHear(d) BY <2>1 DEF PushInv, NewsIsOnItsWay
  <2>3. CASE Heard(d)
    <3>1. Heard(d)' BY <2>1, <2>3 DEF Heard
    <3> QED BY <2>1, <2>2, <3>1 DEF WillHear
  <2>4. CASE Ahead(sender[s], d) \/ \E change \in saved \ saved' : classOf[d] \in change.classes
    <3>1. Ahead(f, d) \/ \E v \in heard'[d] : v >= due[d] BY <1>5, <2>4
    <3>2. Ahead(f, d) => Ahead(sender[s], d)' BY <1>2, <2>1 DEF Ahead
    <3> QED BY <2>1, <2>2, <3>1, <3>2 DEF WillHear, Heard
  <2>5. CASE \E change \in saved' : classOf[d] \in change.classes
    BY <2>1, <2>2, <2>5 DEF WillHear
  <2>6. CASE \E r \in Senders \ {s} : Ahead(sender[r], d)
    <3>1. PICK r \in Senders \ {s} : Ahead(sender[r], d) BY <2>6
    <3>2. Ahead(sender[r], d)' BY <1>2, <2>1, <3>1 DEF Ahead
    <3> QED BY <2>1, <2>2, <3>2 DEF WillHear
  <2> QED BY <2>2, <2>3, <2>4, <2>5, <2>6 DEF WillHear
<1>6. NewsIsOnItsWay' BY <1>5 DEF NewsIsOnItsWay
<1> QED BY <1>3, <1>4, <1>6 DEF PushInv

LEMMA SaveChangeKeeps ==
  ASSUME PushInv, NEW gs, gs \subseteq Classes, SaveChange(gs) PROVE PushInv'
<1> DEFINE new == [version |-> version + 1, classes |-> gs]
<1>1. /\ version' = version + 1 /\ saved' = saved \cup {new}
      /\ due' = [d \in Phones |-> IF classOf[d] \in gs THEN version + 1 ELSE due[d]]
      /\ UNCHANGED <<classOf, sender, heard, moves>>
  BY DEF SaveChange
<1>2. version \in Nat BY DEF PushInv, PushTypeOK
<1>3. new \in [version: Nat, classes: SUBSET Classes] /\ new.classes = gs BY <1>2
<1> HIDE DEF new
<1>4. PushTypeOK' BY <1>1, <1>2, <1>3 DEF PushInv, PushTypeOK
<1>5. Orderly' BY <1>1 DEF PushInv, Orderly
<1>6. ASSUME NEW d \in Phones, due'[d] # 0
      PROVE  due'[d] <= version' /\ classOf'[d] \in Classes /\ WillHear(d)'
  <2>1. CASE classOf[d] \in gs BY <2>1, <1>1, <1>2, <1>3 DEF WillHear
  <2>2. CASE classOf[d] \notin gs
    <3>1. due'[d] = due[d] BY <2>2, <1>1
    <3>2. due[d] <= version /\ classOf[d] \in Classes /\ WillHear(d) /\ due[d] \in Nat
      BY <1>6, <3>1 DEF PushInv, NewsIsOnItsWay, PushTypeOK
    <3>3. WillHear(d)' BY <3>1, <3>2, <1>1 DEF WillHear, Heard, Ahead
    <3> QED BY <1>1, <1>2, <3>1, <3>2, <3>3
  <2> QED BY <2>1, <2>2
<1>7. NewsIsOnItsWay' BY <1>6 DEF NewsIsOnItsWay
<1> QED BY <1>4, <1>5, <1>7 DEF PushInv

LEMMA NotifyKeeps ==
  ASSUME PushInv, NEW s \in Senders, NEW change \in saved, NotifyScheduleUpdatedAsync(s, change)
  PROVE  PushInv'
<1> DEFINE all == Round("groups", version, {}, {}, FALSE)
           some == Round("devices", version, change.classes, {}, FALSE)
           f == IF change.classes = Classes THEN all ELSE some
<1>1. /\ sender[s] = Resting /\ sender' = [sender EXCEPT ![s] = f] /\ saved' = saved \ {change}
      /\ UNCHANGED <<classOf, version, heard, due>>
  BY DEF NotifyScheduleUpdatedAsync
<1>2. version \in Nat /\ change.classes \subseteq Classes BY DEF PushInv, PushTypeOK
<1>3. /\ all \in Rounds /\ all.pc = "groups" /\ all.version = version
      /\ all.classes = {} /\ all.phones = {}
  BY <1>2 DEF Round, Rounds
<1>4. /\ some \in Rounds /\ some.pc = "devices" /\ some.version = version
      /\ some.classes = change.classes
  BY <1>2 DEF Round, Rounds
<1> HIDE DEF all, some
<1>5. f \in Rounds /\ (f.pc # "devices" => f.classes = {} /\ f.phones = {})
  BY <1>3, <1>4
<1>6. ASSUME NEW d \in Phones, due'[d] # 0,
             Ahead(sender[s], d) \/ \E c \in saved \ saved' : classOf[d] \in c.classes
      PROVE  Ahead(f, d)
  <2>1. ~Ahead(sender[s], d) BY <1>1, RestingIs DEF Ahead
  <2>2. classOf[d] \in change.classes BY <1>1, <1>6, <2>1
  <2>3. due[d] <= version /\ due[d] \in Nat
    BY <1>1, <1>6 DEF PushInv, NewsIsOnItsWay, PushTypeOK
  <2>4. CASE change.classes = Classes BY <2>3, <2>4, <1>2, <1>3 DEF Ahead
  <2>5. CASE change.classes # Classes BY <2>2, <2>3, <2>5, <1>2, <1>4 DEF Ahead
  <2> QED BY <2>4, <2>5
<1> HIDE DEF f
<1>7. heard' \in [Phones -> SUBSET Nat] /\ due' \in [Phones -> Nat] BY <1>1 DEF PushInv, PushTypeOK
<1> QED BY <1>1, <1>5, <1>6, <1>7, RoundKeeps

(* A step to round f that tells nobody, gives nobody up and has no fewer   *)
(* devices ahead.                                                          *)
LEMMA OnwardKeeps ==
  ASSUME PushInv, NEW s \in Senders, NEW f \in Rounds, sender' = [sender EXCEPT ![s] = f],
         f.pc # "devices" => f.classes = {} /\ f.phones = {},
         UNCHANGED <<classOf, version, saved, heard, due>>,
         \A d \in Phones : due[d] # 0 /\ Ahead(sender[s], d) => Ahead(f, d)
  PROVE  PushInv'
<1>1. heard' \in [Phones -> SUBSET Nat] /\ due' \in [Phones -> Nat] BY DEF PushInv, PushTypeOK
<1> QED BY <1>1, RoundKeeps

LEMMA ListGroupsKeeps == ASSUME PushInv, NEW s \in Senders, ListSubscribedGroupIDs(s) PROVE PushInv'
<1> DEFINE cs == {classOf[d] : d \in Phones} \ {None}
           f == Round("devices", sender[s].version, cs, {}, sender[s].late)
<1>1. sender[s].pc = "groups" /\ sender' = [sender EXCEPT ![s] = f]
      /\ UNCHANGED <<classOf, version, saved, heard, due>>
  BY DEF ListSubscribedGroupIDs
<1>2. sender[s].version \in Nat /\ sender[s].late \in BOOLEAN BY RoundFields DEF PushInv
<1>3. cs \subseteq Classes BY DEF PushInv, PushTypeOK
<1>4. \A d \in Phones : due[d] # 0 => classOf[d] \in cs
  BY PushConstants DEF PushInv, NewsIsOnItsWay
<1> HIDE DEF cs
<1>5. f \in Rounds /\ f.pc = "devices" /\ f.version = sender[s].version /\ f.classes = cs
  BY <1>2, <1>3, RoundIs
<1> HIDE DEF f
<1>6. \A d \in Phones : due[d] # 0 /\ Ahead(sender[s], d) => Ahead(f, d) BY <1>4, <1>5 DEF Ahead
<1> QED BY <1>1, <1>5, <1>6, OnwardKeeps

LEMMA ListDevicesKeeps ==
  ASSUME PushInv, NEW s \in Senders, NEW g \in FirstById(sender[s].classes), ListDeviceTokensByGroup(s, g)
  PROVE  PushInv'
<1> DEFINE cs == sender[s].classes \ {g}
           ds == {d \in Phones : classOf[d] = g}
           f == Round("devices", sender[s].version, cs, ds, sender[s].late)
<1>1. sender[s].phones = {} /\ sender' = [sender EXCEPT ![s] = f]
      /\ UNCHANGED <<classOf, version, saved, heard, due>>
  BY DEF ListDeviceTokensByGroup
<1>2. /\ sender[s].version \in Nat /\ sender[s].late \in BOOLEAN
      /\ cs \subseteq Classes /\ ds \subseteq Phones
  BY RoundFields DEF PushInv
<1>3. sender[s].pc = "devices" BY DEF FirstById, PushInv, Orderly
<1>4. \A d \in Phones : classOf[d] \in sender[s].classes => classOf[d] \in cs \/ d \in ds OBVIOUS
<1> HIDE DEF cs, ds
<1>5. f \in Rounds /\ f.pc = "devices" /\ f.version = sender[s].version /\ f.classes = cs /\ f.phones = ds
  BY <1>2, RoundIs
<1> HIDE DEF f
<1>6. \A d \in Phones : due[d] # 0 /\ Ahead(sender[s], d) => Ahead(f, d)
  BY <1>1, <1>3, <1>4, <1>5 DEF Ahead
<1> QED BY <1>1, <1>5, <1>6, OnwardKeeps

LEMMA UnlistedKeeps ==
  ASSUME PushInv, NEW s \in Senders, NEW gs, Unlisted(s, gs),
         sender[s].pc = "groups" => gs = Classes
  PROVE  PushInv'
<1> DEFINE next == Round("devices", sender[s].version, sender[s].classes \ gs, {}, sender[s].late)
           f == IF sender[s].pc = "groups" THEN Resting ELSE next
<1>1. /\ sender[s].phones = {} /\ sender' = [sender EXCEPT ![s] = f]
      /\ due' = [d \in Phones |-> IF classOf[d] \in gs THEN Owed(d, sender[s].version) ELSE due[d]]
      /\ UNCHANGED <<classOf, version, saved, heard>>
  BY DEF Unlisted
<1>2. /\ sender[s].version \in Nat /\ sender[s].late \in BOOLEAN
      /\ sender[s].classes \ gs \subseteq Classes
  BY RoundFields DEF PushInv
<1>3. /\ next \in Rounds /\ next.pc = "devices" /\ next.version = sender[s].version
      /\ next.classes = sender[s].classes \ gs
  BY <1>2, RoundIs
<1> HIDE DEF next
<1>4. f \in Rounds /\ (f.pc # "devices" => f.classes = {} /\ f.phones = {}) BY <1>3, RestingIs
<1>5. due \in [Phones -> Nat] BY DEF PushInv, PushTypeOK
<1>6. \A d \in Phones : due'[d] = IF classOf[d] \in gs /\ due[d] <= sender[s].version THEN 0 ELSE due[d]
  BY <1>1 DEF Owed
<1>7. due' \in [Phones -> Nat]
  <2>1. \A d \in Phones : due'[d] \in Nat BY <1>5, <1>6
  <2> QED BY <1>1, <2>1
<1>8. ASSUME NEW d \in Phones, due'[d] # 0, Ahead(sender[s], d) PROVE Ahead(f, d)
  <2>1. due[d] # 0 /\ classOf[d] \in Classes BY <1>6, <1>8 DEF PushInv, NewsIsOnItsWay
  <2>2. due[d] \in Nat /\ due[d] <= sender[s].version BY <1>2, <1>5, <1>8 DEF Ahead
  <2>3. classOf[d] \notin gs BY <1>6, <1>8, <2>2
  <2>4. sender[s].pc # "groups" BY <2>1, <2>3
  <2>5. classOf[d] \in sender[s].classes BY <1>1, <1>8, <2>4 DEF Ahead
  <2> QED BY <1>2, <1>3, <2>2, <2>3, <2>4, <2>5 DEF Ahead
<1> HIDE DEF f
<1>9. heard' \in [Phones -> SUBSET Nat] BY <1>1 DEF PushInv, PushTypeOK
<1> QED BY <1>1, <1>4, <1>6, <1>7, <1>8, <1>9, RoundKeeps

LEMMA FinishKeeps == ASSUME PushInv, NEW s \in Senders, Finish(s) PROVE PushInv'
<1>1. /\ sender[s].pc = "devices" /\ sender[s].classes = {} /\ sender[s].phones = {}
      /\ sender' = [sender EXCEPT ![s] = Resting]
      /\ UNCHANGED <<classOf, version, saved, heard, due>>
  BY DEF Finish
<1>2. \A d \in Phones : ~Ahead(sender[s], d) BY <1>1 DEF Ahead
<1> QED BY <1>1, <1>2, RestingIs, OnwardKeeps

(* The rest of the round when a device has had its turn.                   *)
LEMMA RestIs ==
  ASSUME PushInv, NEW s \in Senders, NEW d \in sender[s].phones
  PROVE  LET f == Rest(s, sender[s].phones \ {d})
         IN  /\ f \in Rounds /\ f.pc = "devices" /\ f.version = sender[s].version
             /\ \A x \in Phones \ {d} : Ahead(sender[s], x) => Ahead(f, x)
<1> DEFINE f == Rest(s, sender[s].phones \ {d})
<1>1. /\ sender[s].version \in Nat /\ sender[s].late \in BOOLEAN
      /\ sender[s].classes \subseteq Classes /\ sender[s].phones \ {d} \subseteq Phones
  BY RoundFields DEF PushInv
<1>2. /\ f \in Rounds /\ f.pc = "devices" /\ f.version = sender[s].version
      /\ f.classes = sender[s].classes /\ f.phones = sender[s].phones \ {d}
  BY <1>1, RoundIs DEF Rest
<1> HIDE DEF f
<1>3. sender[s].pc = "devices" BY DEF PushInv, Orderly
<1>4. \A x \in Phones \ {d} : Ahead(sender[s], x) => Ahead(f, x) BY <1>2, <1>3 DEF Ahead
<1> QED BY <1>2, <1>4 DEF f

LEMMA SendKeeps ==
  ASSUME PushInv, NEW s \in Senders, NEW d \in FirstById(sender[s].phones), Send(s, d) PROVE PushInv'
<1> DEFINE f == Rest(s, sender[s].phones \ {d})
<1>1. /\ sender' = [sender EXCEPT ![s] = f]
      /\ heard' = [heard EXCEPT ![d] = heard[d] \cup {sender[s].version}]
      /\ UNCHANGED <<classOf, version, saved, due>>
  BY DEF Send
<1>2. d \in sender[s].phones /\ d \in Phones /\ sender[s].version \in Nat
  BY RoundFields DEF FirstById, PushInv
<1>3. /\ f \in Rounds /\ f.pc = "devices"
      /\ \A x \in Phones \ {d} : Ahead(sender[s], x) => Ahead(f, x)
  BY <1>2, RestIs
<1> HIDE DEF f
<1>4. heard \in [Phones -> SUBSET Nat] /\ due \in [Phones -> Nat] BY DEF PushInv, PushTypeOK
<1>5. /\ heard' \in [Phones -> SUBSET Nat] /\ sender[s].version \in heard'[d]
      /\ \A x \in Phones : heard[x] \subseteq heard'[x]
  BY <1>1, <1>2, <1>4
<1>6. Ahead(sender[s], d) => \E v \in heard'[d] : v >= due[d] BY <1>5 DEF Ahead
<1>7. saved' = saved /\ due' = due /\ due' \in [Phones -> Nat] BY <1>1, <1>4
<1>8. \A x \in Phones :
        /\ due'[x] # 0
        /\ Ahead(sender[s], x) \/ \E change \in saved \ saved' : classOf[x] \in change.classes
        => Ahead(f, x) \/ \E v \in heard'[x] : v >= due[x]
  BY <1>3, <1>6, <1>7
<1> QED BY <1>1, <1>3, <1>5, <1>7, <1>8, RoundKeeps

LEMMA SendFailsKeeps ==
  ASSUME PushInv, NEW s \in Senders, NEW d \in FirstById(sender[s].phones), SendFails(s, d)
  PROVE  PushInv'
<1> DEFINE f == Rest(s, sender[s].phones \ {d})
<1>1. /\ sender' = [sender EXCEPT ![s] = f]
      /\ due' = [due EXCEPT ![d] = Owed(d, sender[s].version)]
      /\ UNCHANGED <<classOf, version, saved, heard>>
  BY DEF SendFails, Failed
<1>2. d \in sender[s].phones /\ d \in Phones /\ sender[s].version \in Nat
  BY RoundFields DEF FirstById, PushInv
<1>3. /\ f \in Rounds /\ f.pc = "devices"
      /\ \A x \in Phones \ {d} : Ahead(sender[s], x) => Ahead(f, x)
  BY <1>2, RestIs
<1> HIDE DEF f
<1>4. heard \in [Phones -> SUBSET Nat] /\ due \in [Phones -> Nat] BY DEF PushInv, PushTypeOK
<1>5. Owed(d, sender[s].version) = IF due[d] <= sender[s].version THEN 0 ELSE due[d] BY DEF Owed
<1>6. /\ due' \in [Phones -> Nat]
      /\ \A x \in Phones : due'[x] = due[x] \/ due'[x] = 0
      /\ due[d] <= sender[s].version => due'[d] = 0
  BY <1>1, <1>2, <1>4, <1>5
<1>7. Ahead(sender[s], d) => due'[d] = 0 BY <1>2, <1>4, <1>6 DEF Ahead
<1>8. heard' = heard /\ saved' = saved /\ heard' \in [Phones -> SUBSET Nat] BY <1>1, <1>4
<1>9. \A x \in Phones :
        /\ due'[x] # 0
        /\ Ahead(sender[s], x) \/ \E change \in saved \ saved' : classOf[x] \in change.classes
        => Ahead(f, x) \/ \E v \in heard'[x] : v >= due[x]
  BY <1>3, <1>7, <1>8
<1> QED BY <1>1, <1>3, <1>6, <1>8, <1>9, RoundKeeps

LEMMA TimeIsUpKeeps == ASSUME PushInv, NEW s \in Senders, TimeIsUp(s) PROVE PushInv'
<1> DEFINE f == Round(sender[s].pc, sender[s].version, sender[s].classes, sender[s].phones, TRUE)
<1>1. sender' = [sender EXCEPT ![s] = f] /\ UNCHANGED <<classOf, version, saved, heard, due>>
  BY DEF TimeIsUp
<1>2. /\ sender[s].pc \in {"rest", "groups", "devices"} /\ sender[s].version \in Nat
      /\ sender[s].classes \subseteq Classes /\ sender[s].phones \subseteq Phones
  BY RoundFields DEF PushInv
<1>3. /\ f \in Rounds /\ f.pc = sender[s].pc /\ f.version = sender[s].version
      /\ f.classes = sender[s].classes /\ f.phones = sender[s].phones
  BY <1>2 DEF Round, Rounds
<1> HIDE DEF f
<1>4. \A d \in Phones : due[d] # 0 /\ Ahead(sender[s], d) => Ahead(f, d) BY <1>3 DEF Ahead
<1>5. f.pc # "devices" => f.classes = {} /\ f.phones = {} BY <1>3 DEF PushInv, Orderly
<1> QED BY <1>1, <1>3, <1>4, <1>5, OnwardKeeps

LEMMA RestartKeeps == ASSUME PushInv, Restart PROVE PushInv'
<1>1. /\ saved' = {} /\ sender' = [s \in Senders |-> Resting] /\ due' = [d \in Phones |-> 0]
      /\ UNCHANGED <<classOf, version, heard>>
  BY DEF Restart
<1>2. PushTypeOK' BY <1>1, RestingIs DEF PushInv, PushTypeOK
<1>3. Orderly' BY <1>1, RestingIs DEF Orderly
<1>4. NewsIsOnItsWay' BY <1>1 DEF NewsIsOnItsWay
<1> QED BY <1>2, <1>3, <1>4 DEF PushInv

LEMMA RegisterKeeps ==
  ASSUME PushInv, NEW d \in Phones, NEW g \in Classes, Register(d, g) PROVE PushInv'
<1>1. /\ classOf' = [classOf EXCEPT ![d] = g] /\ due' = [due EXCEPT ![d] = 0]
      /\ UNCHANGED <<version, saved, sender, heard>>
  BY DEF Register
<1>2. PushTypeOK' BY <1>1 DEF PushInv, PushTypeOK
<1>3. Orderly' BY <1>1 DEF PushInv, Orderly
<1>4. ASSUME NEW x \in Phones, due'[x] # 0
      PROVE  due'[x] <= version' /\ classOf'[x] \in Classes /\ WillHear(x)'
  <2>1. due'[x] = due[x] /\ classOf'[x] = classOf[x] BY <1>1, <1>4 DEF PushInv, PushTypeOK
  <2> QED BY <1>1, <1>4, <2>1 DEF PushInv, NewsIsOnItsWay, WillHear, Heard, Ahead
<1> QED BY <1>2, <1>3, <1>4 DEF PushInv, NewsIsOnItsWay

LEMMA PushKeeps == PushInv /\ [PushNext]_pushVars => PushInv'
<1> SUFFICES ASSUME PushInv, [PushNext]_pushVars PROVE PushInv' OBVIOUS
<1>1. CASE UNCHANGED pushVars
  BY <1>1 DEF pushVars, PushInv, PushTypeOK, Orderly, NewsIsOnItsWay, WillHear, Heard, Ahead
<1>2. ASSUME NEW gs \in {{g} : g \in Classes} \cup {Classes}, SaveChange(gs) PROVE PushInv'
  BY <1>2, SaveChangeKeeps
<1>3. ASSUME NEW s \in Senders, sender[s].pc = "groups" /\ Unlisted(s, Classes) PROVE PushInv'
  BY <1>3, UnlistedKeeps
<1>4. ASSUME NEW s \in Senders, NEW g \in FirstById(sender[s].classes), Unlisted(s, {g}) PROVE PushInv'
  <2>1. sender[s].pc = "devices" BY DEF FirstById, PushInv, Orderly
  <2> QED BY <1>4, <2>1, UnlistedKeeps
<1> QED BY <1>1, <1>2, <1>3, <1>4, NotifyKeeps, ListGroupsKeeps, ListDevicesKeeps, FinishKeeps,
        SendKeeps, SendFailsKeeps, TimeIsUpKeeps, RestartKeeps, RegisterKeeps
  DEF PushNext

(* While a device has not heard of what it has to hear of, a change waits  *)
(* for its goroutine or a goroutine has the device still ahead, with a     *)
(* version that is new enough (Pushes: push/service.go).                   *)
THEOREM PushInvariant == PushSpec => []PushInv
BY PushInitHolds, PushKeeps, PTL DEF PushSpec

(* When nothing is under way every device that stayed in its group has     *)
(* heard of the group's last change or a later version (Pushes:            *)
(* NotifyScheduleUpdatedAsync, NotifyScheduleUpdatedAllAsync).             *)
THEOREM NewestIsHeard == PushSpec => []NewestHeard
<1>1. PushInv => NewestHeard
  BY RestingIs DEF PushInv, NewsIsOnItsWay, WillHear, Heard, Ahead, NewestHeard
<1> QED BY <1>1, PushInvariant, PTL

-----------------------------------------------------------------------------
(* The rate limiter.                                                       *)
USE LimiterConstants

Full == Burst * Cost

Bucket == [full: 0..Full, at: Nat]
Client == [bucket: Nat, seen: Nat]

LimiterTypeOK ==
  /\ now \in Nat
  /\ buckets \in Seq(Bucket)
  /\ DOMAIN clients \subseteq Addresses
  /\ clients \in [DOMAIN clients -> Client]
  /\ nextCleanup \in Nat
  /\ call \in [Calls -> Pending \cup {None}]
  /\ verdict \in [Addresses -> {"none", "allowed", "refused"}]

(* Nothing was reckoned or seen in the future.                             *)
NothingAhead ==
  /\ \A b \in 1..Len(buckets) : buckets[b].at <= now
  /\ \A c \in Calls : call[c] # None => call[c].since <= now /\ now <= call[c].since + Delay

(* Each client has a bucket of its own.                                    *)
OwnBucket ==
  /\ \A a \in DOMAIN clients : clients[a].bucket \in 1..Len(buckets)
  /\ \A a, b \in DOMAIN clients : clients[a].bucket = clients[b].bucket => a = b

(* The pointer a request holds is the one in the map, and the client was   *)
(* seen at most Delay before the request came: a request that came later   *)
(* may have been faster.                                                   *)
HeldIsKnown ==
  \A c \in Calls : call[c] # None /\ call[c].bucket # None =>
    /\ call[c].address \in DOMAIN clients
    /\ clients[call[c].address].bucket = call[c].bucket
    /\ call[c].since <= clients[call[c].address].seen + Delay

(* A bucket was not touched long after its client was last seen.           *)
TouchedWhenSeen ==
  \A a \in DOMAIN clients : buckets[clients[a].bucket].at <= clients[a].seen + 2 * Delay

LimiterInv == LimiterTypeOK /\ NothingAhead /\ OwnBucket /\ HeldIsKnown /\ TouchedWhenSeen

-----------------------------------------------------------------------------
LEMMA FullIsNat == Full \in Nat
BY DEF Full

(* What is in a bucket is between nothing and all it can hold.             *)
LEMMA Level ==
  ASSUME LimiterTypeOK, NothingAhead, NEW b \in 1..Len(buckets)
  PROVE  /\ buckets[b] \in Bucket
         /\ InBucket(b) \in 0..Full
         /\ InBucket(b) = IF buckets[b].full + (now - buckets[b].at) > Full THEN Full
                          ELSE buckets[b].full + (now - buckets[b].at)
<1>1. buckets[b] \in Bucket BY DEF LimiterTypeOK
<1>2. buckets[b].full \in 0..Full /\ buckets[b].at \in Nat /\ now \in Nat /\ buckets[b].at <= now
  BY <1>1 DEF LimiterTypeOK, NothingAhead, Bucket
<1>3. InBucket(b) = IF buckets[b].full + (now - buckets[b].at) > Full THEN Full
                    ELSE buckets[b].full + (now - buckets[b].at)
  BY DEF InBucket, AtMostFull, Full
<1> QED BY <1>1, <1>2, <1>3, FullIsNat

(* What a request forgets is full, and nobody holds it.                    *)
LEMMA ForgottenIsFull ==
  ASSUME LimiterInv, NEW then \in Nat, then <= now, NEW a \in DOMAIN clients,
         a \notin DOMAIN Forget(then)
  PROVE  /\ InBucket(clients[a].bucket) = Full
         /\ \A c \in Calls : call[c] # None /\ call[c].bucket # None => call[c].address # a
<1>1. clients[a] \in Client BY DEF LimiterInv, LimiterTypeOK
<1>2. clients[a].seen \in Nat /\ clients[a].bucket \in 1..Len(buckets)
  BY <1>1 DEF Client, LimiterInv, OwnBucket
<1>3. then - clients[a].seen > ClientTTL
  BY <1>2 DEF Forget, Restrict
<1>4. ClientTTL >= Full + 2 * Delay BY IdleFills DEF Full
<1>5. now \in Nat BY DEF LimiterInv, LimiterTypeOK
<1>6. InBucket(clients[a].bucket) = Full
  <2> DEFINE b == buckets[clients[a].bucket]
  <2>1. b \in Bucket /\ b.at <= clients[a].seen + 2 * Delay
    BY <1>2, Level DEF LimiterInv, TouchedWhenSeen
  <2>2. b.full + (now - b.at) >= Full
    <3>1. b.full \in Nat /\ b.at \in Nat BY <2>1, FullIsNat DEF Bucket
    <3>2. Delay \in Nat /\ ClientTTL \in Int BY LimiterConstants
    <3> HIDE DEF b
    <3> HIDE LimiterConstants
    <3> QED BY <3>1, <3>2, <2>1, <1>2, <1>3, <1>4, <1>5, FullIsNat
  <2> QED BY <2>1, <2>2, <1>2, <1>5, Level, FullIsNat DEF LimiterInv, Bucket
<1>7. ASSUME NEW c \in Calls, call[c] # None, call[c].bucket # None, call[c].address = a PROVE FALSE
  <2>1. call[c].since \in Nat BY <1>7 DEF LimiterInv, LimiterTypeOK, Pending
  <2>2. now <= call[c].since + Delay /\ call[c].since <= clients[a].seen + Delay
    BY <1>7 DEF LimiterInv, NothingAhead, HeldIsKnown
  <2> QED BY <2>1, <2>2, <1>2, <1>3, <1>4, <1>5, FullIsNat
<1> QED BY <1>6, <1>7

-----------------------------------------------------------------------------
LEMMA LimiterStart == LimiterInit => LimiterInv
<1> SUFFICES ASSUME LimiterInit PROVE LimiterInv OBVIOUS
<1>1. LimiterTypeOK BY DEF LimiterInit, LimiterTypeOK
<1>2. DOMAIN clients = {} /\ Len(buckets) = 0 BY DEF LimiterInit
<1> QED BY <1>1, <1>2 DEF LimiterInit, LimiterInv, NothingAhead, OwnBucket, HeldIsKnown, TouchedWhenSeen

LEMMA ArriveKeeps ==
  ASSUME LimiterInv, NEW c \in Calls, NEW a \in Addresses, Arrive(c, a)
  PROVE  LimiterInv'
<1>1. now \in Nat BY DEF LimiterInv, LimiterTypeOK
<1>2. [address |-> a, since |-> now, bucket |-> None] \in Pending BY <1>1 DEF Pending
<1>3. LimiterTypeOK' BY <1>2 DEF LimiterInv, LimiterTypeOK, Arrive
<1>4. \A k \in Calls : call'[k] = IF k = c THEN [address |-> a, since |-> now, bucket |-> None] ELSE call[k]
  BY DEF LimiterInv, LimiterTypeOK, Arrive
<1>5. NothingAhead' BY <1>1, <1>4 DEF LimiterInv, NothingAhead, Arrive
<1>6. HeldIsKnown' BY <1>4 DEF LimiterInv, HeldIsKnown, Arrive
<1>7. OwnBucket' /\ TouchedWhenSeen' BY DEF LimiterInv, OwnBucket, TouchedWhenSeen, Arrive
<1> QED BY <1>3, <1>5, <1>6, <1>7 DEF LimiterInv

(* The clients that a get does not forget, whether it makes a bucket, and  *)
(* the bucket that the request gets.                                       *)
Kept(c) == IF call[c].since > nextCleanup THEN Forget(call[c].since) ELSE clients
IsNew(c) == call[c].address \notin DOMAIN Kept(c)
Gets(c) == IF IsNew(c) THEN Len(buckets) + 1 ELSE clients[call[c].address].bucket

LEMMA AtGet ==
  ASSUME LimiterInv, NEW c \in Calls, get(c)
  PROVE  /\ call[c] \in Pending /\ call[c].bucket = None /\ call[c].address \in Addresses
         /\ call[c].since \in Nat /\ call[c].since <= now /\ now <= call[c].since + Delay
         /\ DOMAIN Kept(c) \subseteq DOMAIN clients
         /\ \A x \in DOMAIN clients \ DOMAIN Kept(c) :
              /\ InBucket(clients[x].bucket) = Full
              /\ \A k \in Calls : call[k] # None /\ call[k].bucket # None => call[k].address # x
         /\ buckets' = IF IsNew(c) THEN Append(buckets, [full |-> Full, at |-> now]) ELSE buckets
         /\ DOMAIN clients' = DOMAIN Kept(c) \cup {call[c].address}
         /\ \A x \in DOMAIN clients' :
              clients'[x] = IF x = call[c].address THEN [bucket |-> Gets(c), seen |-> call[c].since]
                            ELSE clients[x]
         /\ call' = [call EXCEPT ![c] =
                       [address |-> call[c].address, since |-> call[c].since, bucket |-> Gets(c)]]
         /\ nextCleanup' \in Nat
         /\ UNCHANGED <<now, verdict>>
<1> DEFINE a == call[c].address
           then == call[c].since
<1>1. call[c] \in Pending /\ call[c].bucket = None BY DEF LimiterInv, LimiterTypeOK, get
<1>2. a \in Addresses /\ then \in Nat /\ then <= now /\ now <= then + Delay
  BY <1>1 DEF Pending, LimiterInv, NothingAhead
<1>3. /\ DOMAIN Forget(then) \subseteq DOMAIN clients
      /\ \A x \in DOMAIN Forget(then) : Forget(then)[x] = clients[x]
  BY DEF Forget, Restrict
<1>4. DOMAIN Kept(c) \subseteq DOMAIN clients /\ \A x \in DOMAIN Kept(c) : Kept(c)[x] = clients[x]
  BY <1>3 DEF Kept
<1>5. \A x \in DOMAIN clients \ DOMAIN Kept(c) :
        /\ InBucket(clients[x].bucket) = Full
        /\ \A k \in Calls : call[k] # None /\ call[k].bucket # None => call[k].address # x
  <2>1. CASE then > nextCleanup BY <2>1, <1>2, ForgottenIsFull DEF Kept
  <2>2. CASE ~(then > nextCleanup) BY <2>2 DEF Kept
  <2> QED BY <2>1, <2>2
<1>6. Gets(c) = IF IsNew(c) THEN Len(buckets) + 1 ELSE Kept(c)[a].bucket
  BY <1>4 DEF Gets, IsNew
<1>7. /\ buckets' = IF IsNew(c) THEN Append(buckets, [full |-> Full, at |-> now]) ELSE buckets
      /\ clients' = [x \in DOMAIN Kept(c) \cup {a} |->
                       IF x = a THEN [bucket |-> Gets(c), seen |-> then] ELSE Kept(c)[x]]
      /\ call' = [call EXCEPT ![c].bucket = Gets(c)]
      /\ nextCleanup' = IF then > nextCleanup THEN then + ClientTTL ELSE nextCleanup
      /\ UNCHANGED <<now, verdict>>
  BY <1>6 DEF get, Full, Kept, IsNew
<1>8. call' = [call EXCEPT ![c] = [address |-> a, since |-> then, bucket |-> Gets(c)]]
  <2>1. [call[c] EXCEPT !.bucket = Gets(c)] = [address |-> a, since |-> then, bucket |-> Gets(c)]
    BY <1>1 DEF Pending
  <2>2. call' = [call EXCEPT ![c] = [call[c] EXCEPT !.bucket = Gets(c)]] BY <1>7
  <2> QED BY <2>1, <2>2
<1>9. nextCleanup' \in Nat BY <1>7, <1>2 DEF LimiterInv, LimiterTypeOK
<1> QED BY <1>1, <1>2, <1>4, <1>5, <1>7, <1>8, <1>9

LEMMA GetKeeps ==
  ASSUME LimiterInv, NEW c \in Calls, get(c)
  PROVE  LimiterInv'
<1> DEFINE a == call[c].address
           fresh == [full |-> Full, at |-> now]
<1>g. /\ call[c] \in Pending /\ call[c].bucket = None /\ call[c].address \in Addresses
      /\ call[c].since \in Nat /\ call[c].since <= now /\ now <= call[c].since + Delay
      /\ DOMAIN Kept(c) \subseteq DOMAIN clients
      /\ \A x \in DOMAIN clients \ DOMAIN Kept(c) :
           \A k \in Calls : call[k] # None /\ call[k].bucket # None => call[k].address # x
      /\ buckets' = IF IsNew(c) THEN Append(buckets, [full |-> Full, at |-> now]) ELSE buckets
      /\ DOMAIN clients' = DOMAIN Kept(c) \cup {call[c].address}
      /\ \A x \in DOMAIN clients' :
           clients'[x] = IF x = call[c].address THEN [bucket |-> Gets(c), seen |-> call[c].since]
                         ELSE clients[x]
      /\ call' = [call EXCEPT ![c] =
                    [address |-> call[c].address, since |-> call[c].since, bucket |-> Gets(c)]]
      /\ nextCleanup' \in Nat
      /\ UNCHANGED <<now, verdict>>
  BY AtGet
<1>0. /\ now \in Nat /\ Len(buckets) \in Nat /\ buckets \in Seq(Bucket)
      /\ \A x \in DOMAIN clients : clients[x] \in Client
  BY DEF LimiterInv, LimiterTypeOK
<1>1. fresh \in Bucket BY <1>0, FullIsNat DEF Bucket
<1>a. ASSUME IsNew(c)
      PROVE  /\ buckets' \in Seq(Bucket) /\ Len(buckets') = Len(buckets) + 1
             /\ buckets'[Len(buckets) + 1] = fresh
             /\ \A b \in 1..Len(buckets) : buckets'[b] = buckets[b]
  <2>1. buckets' = Append(buckets, fresh) BY <1>a, <1>g
  <2> HIDE DEF fresh
  <2> QED BY <2>1, <1>0, <1>1
<1>b. ASSUME ~IsNew(c) PROVE buckets' = buckets BY <1>b, <1>g
<1>2. /\ buckets' \in Seq(Bucket) /\ Len(buckets') >= Len(buckets)
      /\ \A b \in 1..Len(buckets) : buckets'[b] = buckets[b]
  <2>1. CASE IsNew(c) BY <2>1, <1>a, <1>0
  <2>2. CASE ~IsNew(c) BY <2>2, <1>b, <1>0
  <2> QED BY <2>1, <2>2
<1>3. /\ Gets(c) \in 1..Len(buckets') /\ Gets(c) \in Nat
      /\ buckets'[Gets(c)].at <= now
      /\ \A x \in DOMAIN Kept(c) \ {a} : clients[x].bucket # Gets(c)
  <2>1. CASE IsNew(c)
    BY <2>1, <1>0, <1>a, <1>g DEF Gets, LimiterInv, OwnBucket
  <2>2. CASE ~IsNew(c)
    <3>1. a \in DOMAIN clients BY <2>2, <1>g DEF IsNew
    <3> QED BY <2>2, <3>1, <1>0, <1>2, <1>g DEF Gets, LimiterInv, OwnBucket, NothingAhead
  <2> QED BY <2>1, <2>2
<1>4. \A x \in DOMAIN Kept(c) \ {a} :
        /\ x \in DOMAIN clients /\ clients'[x] = clients[x]
        /\ clients[x].bucket \in 1..Len(buckets)
  BY <1>g DEF LimiterInv, OwnBucket
<1>5. /\ DOMAIN clients' = DOMAIN Kept(c) \cup {a}
      /\ clients'[a] = [bucket |-> Gets(c), seen |-> call[c].since]
      /\ clients'[a].bucket = Gets(c) /\ clients'[a].seen = call[c].since
  BY <1>g
<1>6. LimiterTypeOK'
  <2>1. DOMAIN clients' \subseteq Addresses BY <1>5, <1>g DEF LimiterInv, LimiterTypeOK
  <2>2. \A x \in DOMAIN clients' : clients'[x] \in Client
    BY <1>0, <1>3, <1>4, <1>5, <1>g DEF Client
  <2>3. clients' \in [DOMAIN clients' -> Client]
    <3>1. clients' = [x \in DOMAIN clients' |-> clients'[x]]
      BY DEF get
    <3> QED BY <2>2, <3>1
  <2>4. [address |-> a, since |-> call[c].since, bucket |-> Gets(c)] \in Pending
    BY <1>3, <1>g DEF Pending
  <2>5. call' \in [Calls -> Pending \cup {None}] BY <2>4, <1>g DEF LimiterInv, LimiterTypeOK
  <2> QED BY <1>2, <2>1, <2>3, <2>5, <1>g DEF LimiterInv, LimiterTypeOK
<1>7. NothingAhead'
  <2>1. \A b \in 1..Len(buckets') : buckets'[b].at <= now
    <3>1. CASE IsNew(c) BY <3>1, <1>0, <1>a DEF LimiterInv, NothingAhead
    <3>2. CASE ~IsNew(c) BY <3>2, <1>0, <1>b DEF LimiterInv, NothingAhead
    <3> QED BY <3>1, <3>2
  <2>2. \A k \in Calls : call'[k] # None => call'[k].since <= now /\ now <= call'[k].since + Delay
    BY <1>g DEF LimiterInv, NothingAhead, LimiterTypeOK
  <2> QED BY <2>1, <2>2, <1>g DEF NothingAhead
<1>8. OwnBucket'
  <2>1. \A x \in DOMAIN clients' : clients'[x].bucket \in 1..Len(buckets')
    BY <1>0, <1>2, <1>3, <1>4, <1>5
  <2>2. ASSUME NEW x \in DOMAIN clients', NEW y \in DOMAIN clients', clients'[x].bucket = clients'[y].bucket
        PROVE  x = y
    BY <2>2, <1>3, <1>4, <1>5 DEF LimiterInv, OwnBucket
  <2> QED BY <2>1, <2>2 DEF OwnBucket
<1>9. HeldIsKnown'
  <2> SUFFICES ASSUME NEW k \in Calls, call'[k] # None, call'[k].bucket # None
               PROVE  /\ call'[k].address \in DOMAIN clients'
                      /\ clients'[call'[k].address].bucket = call'[k].bucket
                      /\ call'[k].since <= clients'[call'[k].address].seen + Delay
    BY DEF HeldIsKnown
  <2>1. CASE k = c
    <3>1. /\ call'[c].address = a /\ call'[c].since = call[c].since /\ call'[c].bucket = Gets(c)
          /\ call[c].since \in Nat
      BY <1>g DEF LimiterInv, LimiterTypeOK
    <3> QED BY <2>1, <3>1, <1>5
  <2>2. CASE k # c
    <3>1. call'[k] = call[k] BY <2>2, <1>g DEF LimiterInv, LimiterTypeOK
    <3>2. /\ call[k].address \in DOMAIN clients
          /\ clients[call[k].address].bucket = call[k].bucket
          /\ call[k].since <= clients[call[k].address].seen + Delay
      BY <3>1 DEF LimiterInv, HeldIsKnown
    <3>3. call[k].address \in DOMAIN Kept(c) BY <3>1, <3>2, <1>g
    <3>4. CASE call[k].address # a BY <3>1, <3>2, <3>3, <3>4, <1>4, <1>5
    <3>5. CASE call[k].address = a
      <4>1. Gets(c) = call[k].bucket BY <3>2, <3>3, <3>5 DEF Gets, IsNew
      <4>2. call[k].since \in Nat /\ call[k].since <= now
        BY <3>1 DEF LimiterInv, LimiterTypeOK, NothingAhead, Pending
      <4> QED BY <3>1, <3>5, <4>1, <4>2, <1>0, <1>5, <1>g
    <3> QED BY <3>4, <3>5
  <2> QED BY <2>1, <2>2
<1>10. TouchedWhenSeen'
  <2> SUFFICES ASSUME NEW x \in DOMAIN clients'
               PROVE  buckets'[clients'[x].bucket].at <= clients'[x].seen + 2 * Delay
    BY DEF TouchedWhenSeen
  <2>1. CASE x = a
    <3>1. buckets'[Gets(c)] \in Bucket BY <1>2, <1>3
    <3>2. /\ clients'[x].bucket = Gets(c) /\ clients'[x].seen = call[c].since
          /\ call[c].since \in Nat /\ now <= call[c].since + Delay
      BY <2>1, <1>5, <1>g
    <3> QED BY <3>1, <3>2, <1>0, <1>3 DEF Bucket
  <2>2. CASE x # a
    BY <2>2, <1>2, <1>4, <1>5 DEF LimiterInv, TouchedWhenSeen
  <2> QED BY <2>1, <2>2
<1> QED BY <1>6, <1>7, <1>8, <1>9, <1>10 DEF LimiterInv

(* What an Allow does to the bucket it holds, the client's own.            *)
LEMMA AtAllow ==
  ASSUME LimiterInv, NEW c \in Calls, Allow(c)
  PROVE  /\ call[c] \in Pending /\ call[c].bucket \in 1..Len(buckets)
         /\ call[c].address \in DOMAIN clients /\ call[c].address \in Addresses
         /\ clients[call[c].address].bucket = call[c].bucket
         /\ now <= clients[call[c].address].seen + 2 * Delay
         /\ buckets' \in Seq(Bucket) /\ Len(buckets') = Len(buckets)
         /\ \A b \in 1..Len(buckets) \ {call[c].bucket} : buckets'[b] = buckets[b]
         /\ \/ /\ InBucket(call[c].bucket) >= Cost
               /\ buckets'[call[c].bucket] = [full |-> InBucket(call[c].bucket) - Cost, at |-> now]
            \/ /\ InBucket(call[c].bucket) < Cost
               /\ buckets' = buckets
         /\ call' = [call EXCEPT ![c] = None]
         /\ UNCHANGED <<now, clients, nextCleanup>>
<1> DEFINE b == call[c].bucket
           a == call[c].address
           taken == [full |-> InBucket(b) - Cost, at |-> now]
<1>1. call[c] \in Pending /\ call[c] # None /\ b # None BY DEF LimiterInv, LimiterTypeOK, Allow
<1>2. a \in DOMAIN clients /\ a \in Addresses /\ clients[a].bucket = b /\ b \in 1..Len(buckets)
  BY <1>1 DEF LimiterInv, HeldIsKnown, OwnBucket, LimiterTypeOK
<1>3. now \in Nat /\ buckets \in Seq(Bucket) /\ Len(buckets) \in Nat /\ clients[a] \in Client
  BY <1>2 DEF LimiterInv, LimiterTypeOK
<1>4. call[c].since \in Nat /\ now <= call[c].since + Delay /\ call[c].since <= clients[a].seen + Delay
  BY <1>1 DEF LimiterInv, Pending, NothingAhead, HeldIsKnown
<1>5. now <= clients[a].seen + 2 * Delay BY <1>3, <1>4 DEF Client
<1>6. InBucket(b) \in 0..Full BY <1>2, Level DEF LimiterInv
<1>7. CASE InBucket(b) >= Cost
  <2>1. taken \in Bucket BY <1>3, <1>6, <1>7, FullIsNat DEF Bucket
  <2>2. buckets' = [buckets EXCEPT ![b] = taken] BY <1>7 DEF Allow
  <2> HIDE DEF taken
  <2>3. /\ buckets' \in Seq(Bucket) /\ Len(buckets') = Len(buckets)
        /\ \A k \in 1..Len(buckets) \ {b} : buckets'[k] = buckets[k]
        /\ buckets'[b] = taken
    BY <2>1, <2>2, <1>2, <1>3
  <2> QED BY <2>3, <1>1, <1>2, <1>5, <1>7 DEF Allow, taken
<1>8. CASE ~(InBucket(b) >= Cost)
  <2>1. buckets' = buckets BY <1>8 DEF Allow
  <2>2. InBucket(b) < Cost BY <1>6, <1>8, FullIsNat
  <2> QED BY <2>1, <2>2, <1>1, <1>2, <1>3, <1>5 DEF Allow
<1> QED BY <1>7, <1>8

LEMMA AllowKeeps ==
  ASSUME LimiterInv, NEW c \in Calls, Allow(c)
  PROVE  LimiterInv'
<1> DEFINE b == call[c].bucket
           a == call[c].address
<1>0. now \in Nat /\ buckets \in Seq(Bucket) /\ Len(buckets) \in Nat BY DEF LimiterInv, LimiterTypeOK
<1>1. /\ b \in 1..Len(buckets) /\ a \in DOMAIN clients /\ clients[a].bucket = b
      /\ now <= clients[a].seen + 2 * Delay
      /\ buckets' \in Seq(Bucket) /\ Len(buckets') = Len(buckets)
      /\ \A k \in 1..Len(buckets) \ {b} : buckets'[k] = buckets[k]
      /\ call' = [call EXCEPT ![c] = None]
      /\ UNCHANGED <<now, clients, nextCleanup>>
  BY AtAllow
<1>2. buckets'[b] = buckets[b] \/ buckets'[b].at = now
  <2>1. \/ buckets'[b] = [full |-> InBucket(b) - Cost, at |-> now]
        \/ buckets' = buckets
    BY AtAllow
  <2> QED BY <2>1
<1>3. LimiterTypeOK'
  <2>1. verdict' \in [Addresses -> {"none", "allowed", "refused"}] BY DEF LimiterInv, LimiterTypeOK, Allow
  <2>2. call' \in [Calls -> Pending \cup {None}] BY <1>1 DEF LimiterInv, LimiterTypeOK
  <2> QED BY <1>1, <2>1, <2>2 DEF LimiterInv, LimiterTypeOK
<1>4. \A k \in Calls : call'[k] # None => call'[k] = call[k] /\ k # c
  BY <1>1 DEF LimiterInv, LimiterTypeOK
<1>5. NothingAhead'
  <2>1. \A k \in 1..Len(buckets') : buckets'[k].at <= now
    BY <1>0, <1>1, <1>2 DEF LimiterInv, NothingAhead
  <2>2. \A k \in Calls : call'[k] # None => call'[k].since <= now /\ now <= call'[k].since + Delay
    BY <1>4 DEF LimiterInv, NothingAhead
  <2> QED BY <2>1, <2>2, <1>1 DEF NothingAhead
<1>6. OwnBucket' BY <1>1 DEF LimiterInv, OwnBucket
<1>7. HeldIsKnown' BY <1>1, <1>4 DEF LimiterInv, HeldIsKnown
<1>8. TouchedWhenSeen'
  <2> SUFFICES ASSUME NEW x \in DOMAIN clients
               PROVE  buckets'[clients[x].bucket].at <= clients[x].seen + 2 * Delay
    BY <1>1 DEF TouchedWhenSeen
  <2>1. CASE x = a BY <2>1, <1>1, <1>2 DEF LimiterInv, TouchedWhenSeen
  <2>2. CASE x # a
    <3>1. clients[x].bucket \in 1..Len(buckets) \ {b} BY <2>2, <1>1 DEF LimiterInv, OwnBucket
    <3> QED BY <3>1, <1>1 DEF LimiterInv, TouchedWhenSeen
  <2> QED BY <2>1, <2>2
<1> QED BY <1>3, <1>5, <1>6, <1>7, <1>8 DEF LimiterInv

LEMMA PassKeeps == ASSUME LimiterInv, Pass PROVE LimiterInv'
<1>1. now \in Nat /\ now' = now + 1 BY DEF LimiterInv, LimiterTypeOK, Pass
<1>2. UNCHANGED <<buckets, clients, nextCleanup, call, verdict>> BY DEF Pass
<1>3. LimiterTypeOK' BY <1>1, <1>2 DEF LimiterInv, LimiterTypeOK
<1>4. NothingAhead'
  <2>1. \A b \in 1..Len(buckets) : buckets[b].at <= now + 1
    <3> TAKE b \in 1..Len(buckets)
    <3>1. buckets[b].at \in Nat BY Level DEF LimiterInv, Bucket
    <3> QED BY <3>1, <1>1 DEF LimiterInv, NothingAhead
  <2>2. \A c \in Calls : call[c] # None => call[c].since <= now + 1 /\ now + 1 <= call[c].since + Delay
    <3> SUFFICES ASSUME NEW c \in Calls, call[c] # None
                 PROVE  call[c].since <= now + 1 /\ now + 1 <= call[c].since + Delay
      OBVIOUS
    <3>1. call[c].since \in Nat BY DEF LimiterInv, LimiterTypeOK, Pending
    <3>2. now - call[c].since < Delay BY DEF Pass
    <3> QED BY <3>1, <3>2, <1>1 DEF LimiterInv, NothingAhead
  <2> QED BY <1>1, <1>2, <2>1, <2>2 DEF NothingAhead
<1>5. OwnBucket' /\ HeldIsKnown' /\ TouchedWhenSeen'
  BY <1>2 DEF LimiterInv, OwnBucket, HeldIsKnown, TouchedWhenSeen
<1> QED BY <1>3, <1>4, <1>5 DEF LimiterInv

LEMMA LimiterKeeps == LimiterInv /\ [LimiterNext]_limiterVars => LimiterInv'
<1> SUFFICES ASSUME LimiterInv, [LimiterNext]_limiterVars PROVE LimiterInv' OBVIOUS
<1>1. CASE UNCHANGED limiterVars
  BY <1>1 DEF limiterVars, LimiterInv, LimiterTypeOK, NothingAhead, OwnBucket, HeldIsKnown, TouchedWhenSeen, InBucket
<1>2. CASE LimiterNext
  BY <1>2, ArriveKeeps, GetKeeps, AllowKeeps, PassKeeps DEF LimiterNext
<1> QED BY <1>1, <1>2

(* Every variable keeps its type; the clock is ahead of everything, each   *)
(* client has a bucket of its own, and the buckets that requests hold are  *)
(* those of the map (RateLimiter: mw_rate_limit.go).                       *)
THEOREM LimiterInvariant == LimiterSpec => []LimiterInv
BY LimiterStart, LimiterKeeps, PTL DEF LimiterSpec

-----------------------------------------------------------------------------
(* The refinement.                                                         *)
LEMMA BudgetOf ==
  ASSUME NEW a \in Addresses
  PROVE  Budget[a] = IF a \in DOMAIN clients THEN InBucket(clients[a].bucket) ELSE Full
BY DEF Budget, Full

LEMMA BudgetTyped ==
  ASSUME LimiterInv, NEW a \in Addresses
  PROVE  Budget[a] \in 0..Full
<1>1. CASE a \in DOMAIN clients
  <2>1. clients[a].bucket \in 1..Len(buckets) BY <1>1 DEF LimiterInv, OwnBucket
  <2> QED BY <2>1, <1>1, Level, BudgetOf DEF LimiterInv
<1>2. CASE a \notin DOMAIN clients BY <1>2, BudgetOf, FullIsNat
<1> QED BY <1>1, <1>2

(* Two budgets are the same when every address has the same.               *)
LEMMA SameBudget ==
  ASSUME \A a \in Addresses : Budget'[a] = Budget[a]
  PROVE  Budget' = Budget
<1>1. Budget = [a \in Addresses |-> Budget[a]] BY DEF Budget
<1>2. Budget' = [a \in Addresses |-> Budget'[a]] BY DEF Budget
<1> QED BY <1>1, <1>2

(* A bucket that is not touched has what it had.                           *)
LEMMA UntouchedLevel ==
  ASSUME NEW b, buckets'[b] = buckets[b], now' = now
  PROVE  InBucket(b)' = InBucket(b)
BY DEF InBucket, AtMostFull

LEMMA GetIsSilent ==
  ASSUME LimiterInv, NEW c \in Calls, get(c)
  PROVE  Budget' = Budget
<1> DEFINE z == call[c].address
<1>1. /\ z \in Addresses /\ now' = now
      /\ DOMAIN Kept(c) \subseteq DOMAIN clients
      /\ \A x \in DOMAIN clients \ DOMAIN Kept(c) : InBucket(clients[x].bucket) = Full
      /\ buckets' = IF IsNew(c) THEN Append(buckets, [full |-> Full, at |-> now]) ELSE buckets
      /\ DOMAIN clients' = DOMAIN Kept(c) \cup {z}
      /\ \A x \in DOMAIN clients' :
           clients'[x] = IF x = z THEN [bucket |-> Gets(c), seen |-> call[c].since] ELSE clients[x]
  BY AtGet
<1>2. now \in Nat /\ buckets \in Seq(Bucket) /\ Len(buckets) \in Nat BY DEF LimiterInv, LimiterTypeOK
<1>3. \A b \in 1..Len(buckets) : buckets'[b] = buckets[b]
  <2>1. CASE IsNew(c)
    <3> DEFINE fresh == [full |-> Full, at |-> now]
    <3>1. buckets' = Append(buckets, fresh) BY <2>1, <1>1
    <3> HIDE DEF fresh
    <3> QED BY <3>1, <1>2
  <2>2. CASE ~IsNew(c) BY <2>2, <1>1
  <2> QED BY <2>1, <2>2
<1>4. \A b \in 1..Len(buckets) : InBucket(b)' = InBucket(b)
  BY <1>1, <1>3, UntouchedLevel
<1>5. ASSUME NEW a \in Addresses PROVE Budget'[a] = Budget[a]
  <2>0. Budget'[a] = IF a \in DOMAIN clients' THEN InBucket(clients[a].bucket)' ELSE Full
    BY DEF Budget, Full
  <2>1. CASE a # z /\ a \in DOMAIN Kept(c)
    <3>1. /\ a \in DOMAIN clients /\ a \in DOMAIN clients'
          /\ clients'[a] = clients[a]
      BY <2>1, <1>1
    <3>2. clients[a].bucket \in 1..Len(buckets) BY <3>1 DEF LimiterInv, OwnBucket
    <3>3. InBucket(clients[a].bucket)' = InBucket(clients[a].bucket)
      <4>1. buckets'[clients'[a].bucket] = buckets[clients[a].bucket] BY <3>1, <3>2, <1>3
      <4> QED BY <4>1, <1>1 DEF InBucket, AtMostFull
    <3> QED BY <2>0, <3>1, <3>3, BudgetOf
  <2>2. CASE a # z /\ a \notin DOMAIN Kept(c)
    <3>1. a \notin DOMAIN clients' BY <2>2, <1>1
    <3>2. a \in DOMAIN clients => InBucket(clients[a].bucket) = Full BY <2>2, <1>1
    <3> QED BY <2>0, <3>1, <3>2, BudgetOf
  <2>3. CASE a = z /\ ~IsNew(c)
    <3>1. a \in DOMAIN clients /\ a \in DOMAIN clients' BY <2>3, <1>1 DEF IsNew
    <3>2. clients'[a].bucket = clients[a].bucket BY <2>3, <1>1 DEF Gets
    <3>3. clients[a].bucket \in 1..Len(buckets) BY <3>1 DEF LimiterInv, OwnBucket
    <3>4. InBucket(clients[a].bucket)' = InBucket(clients[a].bucket)
      <4>1. buckets'[clients'[a].bucket] = buckets[clients[a].bucket] BY <3>2, <3>3, <1>3
      <4> QED BY <4>1, <1>1 DEF InBucket, AtMostFull
    <3> QED BY <2>0, <3>1, <3>4, BudgetOf
  <2>4. CASE a = z /\ IsNew(c)
    <3>1. a \in DOMAIN clients' /\ clients'[a].bucket = Len(buckets) + 1 BY <2>4, <1>1 DEF Gets
    <3>2. buckets'[Len(buckets) + 1].full = Full /\ buckets'[Len(buckets) + 1].at = now
      <4> DEFINE fresh == [full |-> Full, at |-> now]
      <4>1. buckets' = Append(buckets, fresh) BY <2>4, <1>1
      <4>2. buckets'[Len(buckets) + 1] = fresh
        <5> HIDE DEF fresh
        <5> QED BY <4>1, <1>2
      <4> QED BY <4>2
    <3>3. InBucket(clients[a].bucket)' = Full
      BY <3>1, <3>2, <1>1, <1>2, FullIsNat DEF InBucket, AtMostFull, Full
    <3>4. Budget[a] = Full
      <4>1. a \in DOMAIN clients => InBucket(clients[a].bucket) = Full BY <2>4, <1>1 DEF IsNew
      <4> QED BY <4>1, BudgetOf
    <3> QED BY <2>0, <3>1, <3>3, <3>4
  <2> QED BY <2>1, <2>2, <2>3, <2>4
<1> QED BY <1>5, SameBudget

LEMMA AllowIsAnswer ==
  ASSUME LimiterInv, NEW c \in Calls, Allow(c)
  PROVE  Promised!BucketNext
<1> DEFINE z == call[c].address
           b == call[c].bucket
<1>1. /\ b \in 1..Len(buckets) /\ z \in DOMAIN clients /\ z \in Addresses /\ clients[z].bucket = b
      /\ buckets' \in Seq(Bucket) /\ Len(buckets') = Len(buckets)
      /\ \A k \in 1..Len(buckets) \ {b} : buckets'[k] = buckets[k]
      /\ now' = now /\ clients' = clients
  BY AtAllow
<1>2. now \in Nat /\ InBucket(b) \in 0..Full BY <1>1, Level DEF LimiterInv, LimiterTypeOK
<1>3. Budget[z] = InBucket(b) BY <1>1, BudgetOf
<1>4. \A a \in Addresses :
        Budget'[a] = IF a \in DOMAIN clients THEN InBucket(clients[a].bucket)' ELSE Full
  BY <1>1 DEF Budget, Full
<1>5. ASSUME NEW a \in Addresses, a # z PROVE Budget'[a] = Budget[a]
  <2>1. CASE a \in DOMAIN clients
    <3>1. clients[a].bucket \in 1..Len(buckets) \ {b} BY <2>1, <1>1, <1>5 DEF LimiterInv, OwnBucket
    <3>2. buckets'[clients'[a].bucket] = buckets[clients[a].bucket] BY <3>1, <1>1
    <3>3. InBucket(clients[a].bucket)' = InBucket(clients[a].bucket)
      BY <3>2, <1>1 DEF InBucket, AtMostFull
    <3> QED BY <2>1, <3>3, <1>4, BudgetOf
  <2>2. CASE a \notin DOMAIN clients BY <2>2, <1>4, BudgetOf
  <2> QED BY <2>1, <2>2
<1>6. Budget = [a \in Addresses |-> Budget[a]] /\ Budget' = [a \in Addresses |-> Budget'[a]]
  BY DEF Budget
<1>7. CASE InBucket(b) >= Cost
  <2>1. buckets'[b] = [full |-> InBucket(b) - Cost, at |-> now]
    BY <1>2, <1>7, AtAllow, FullIsNat
  <2>2. ASSUME NEW y \in Addresses, y = z PROVE InBucket(clients[y].bucket)' = InBucket(b) - Cost
    <3>1. InBucket(b) - Cost \in Nat /\ InBucket(b) - Cost <= Full BY <1>2, <1>7, FullIsNat
    <3>2. buckets'[clients'[y].bucket].full = InBucket(b) - Cost /\ buckets'[clients'[y].bucket].at = now
      BY <2>1, <2>2, <1>1
    <3>3. InBucket(clients[y].bucket)' = AtMostFull(InBucket(b) - Cost + (now - now))
      <4>1. InBucket(clients[y].bucket)' = AtMostFull(buckets'[clients'[y].bucket].full
                                                      + (now' - buckets'[clients'[y].bucket].at))
        BY DEF InBucket, AtMostFull
      <4> QED BY <4>1, <3>2, <1>1
    <3>4. InBucket(b) - Cost + (now - now) = InBucket(b) - Cost BY <3>1, <1>2
    <3>5. AtMostFull(InBucket(b) - Cost) = InBucket(b) - Cost
      BY <3>1, FullIsNat DEF AtMostFull, Full
    <3> QED BY <3>3, <3>4, <3>5
  <2>3. Budget'[z] = Budget[z] - Cost BY <2>2, <1>1, <1>3, <1>4
  <2>4. Budget' = [Budget EXCEPT ![z] = Budget[z] - Cost] BY <2>3, <1>5, <1>6
  <2>5. verdict' = [verdict EXCEPT ![z] = "allowed"] BY <1>7 DEF Allow
  <2> QED BY <2>4, <2>5, <1>1, <1>3, <1>7 DEF Promised!BucketNext, Promised!Take
<1>8. CASE ~(InBucket(b) >= Cost)
  <2>1. buckets' = buckets BY <1>8 DEF Allow
  <2>2. Budget' = Budget BY <2>1, <1>1 DEF Budget, InBucket, AtMostFull
  <2>3. Budget[z] < Cost BY <1>2, <1>3, <1>8, FullIsNat
  <2>4. verdict' = [verdict EXCEPT ![z] = "refused"] BY <1>8 DEF Allow
  <2> QED BY <2>2, <2>3, <2>4, <1>1 DEF Promised!BucketNext, Promised!Refuse
<1> QED BY <1>7, <1>8

LEMMA OneMore ==
  ASSUME NEW f \in 0..Full, NEW w \in Nat
  PROVE  (IF f + (w + 1) > Full THEN Full ELSE f + (w + 1))
           = Promised!AtMostFull((IF f + w > Full THEN Full ELSE f + w) + 1)
<1>1. CASE f + w > Full BY <1>1, FullIsNat DEF Promised!AtMostFull, Full
<1>2. CASE f + w <= Full BY <1>2, FullIsNat DEF Promised!AtMostFull, Full
<1> QED BY <1>1, <1>2, FullIsNat

LEMMA PassIsWait == ASSUME LimiterInv, Pass PROVE Promised!BucketNext
<1>1. now \in Nat /\ now' = now + 1 /\ UNCHANGED <<buckets, clients, verdict>>
  BY DEF LimiterInv, LimiterTypeOK, Pass
<1>2. ASSUME NEW a \in Addresses PROVE Budget'[a] = Promised!AtMostFull(Budget[a] + 1)
  <2>1. CASE a \in DOMAIN clients
    <3> DEFINE b == clients[a].bucket
    <3>1. b \in 1..Len(buckets) BY <2>1 DEF LimiterInv, OwnBucket
    <3>2. buckets[b] \in Bucket /\ buckets[b].at <= now BY <3>1, Level DEF LimiterInv, NothingAhead
    <3>3. InBucket(b) = IF buckets[b].full + (now - buckets[b].at) > Full THEN Full
                        ELSE buckets[b].full + (now - buckets[b].at)
      BY <3>1, Level DEF LimiterInv
    <3>4. Budget[a] = InBucket(b) BY <2>1, BudgetOf
    <3>5. Budget'[a] = IF buckets[b].full + ((now + 1) - buckets[b].at) > Full THEN Full
                       ELSE buckets[b].full + ((now + 1) - buckets[b].at)
      <4>1. Budget'[a] = InBucket(clients[a].bucket)' BY <2>1, <1>1 DEF Budget
      <4>2. InBucket(clients[a].bucket)' = AtMostFull(buckets[b].full + ((now + 1) - buckets[b].at))
        <5>1. InBucket(clients[a].bucket)' = AtMostFull(buckets'[clients'[a].bucket].full
                                                        + (now' - buckets'[clients'[a].bucket].at))
          BY DEF InBucket, AtMostFull
        <5>2. buckets'[clients'[a].bucket] = buckets[b] BY <1>1
        <5>3. now' = now + 1 BY <1>1
        <5> HIDE DEF b
        <5> QED BY <5>1, <5>2, <5>3
      <4> QED BY <4>1, <4>2 DEF AtMostFull, Full
    <3> DEFINE f == buckets[b].full
               w == now - buckets[b].at
    <3>6. f \in 0..Full /\ w \in Nat /\ (now + 1) - buckets[b].at = w + 1
      BY <3>2, <1>1 DEF Bucket
    <3>7. /\ Budget[a] = IF f + w > Full THEN Full ELSE f + w
          /\ Budget'[a] = IF f + (w + 1) > Full THEN Full ELSE f + (w + 1)
      BY <3>3, <3>4, <3>5, <3>6
    <3> HIDE DEF f, w, b
    <3> QED BY <3>6, <3>7, OneMore
  <2>2. CASE a \notin DOMAIN clients
    <3>1. Budget[a] = Full /\ Budget'[a] = Full BY <2>2, <1>1, BudgetOf DEF Budget, Full
    <3> QED BY <3>1, FullIsNat DEF Promised!AtMostFull, Full
  <2> QED BY <2>1, <2>2
<1>3. Budget' = [a \in Addresses |-> Budget'[a]] BY DEF Budget
<1>4. Budget' = [a \in Addresses |-> Promised!AtMostFull(Budget[a] + 1)] BY <1>2, <1>3
<1> QED BY <1>1, <1>4 DEF Promised!BucketNext, Promised!Wait

LEMMA StepRefines ==
  LimiterInv /\ [LimiterNext]_limiterVars => [Promised!BucketNext]_(Promised!bucketVars)
<1> SUFFICES ASSUME LimiterInv, [LimiterNext]_limiterVars
             PROVE  [Promised!BucketNext]_(Promised!bucketVars)
  OBVIOUS
<1>1. CASE UNCHANGED limiterVars
  BY <1>1 DEF limiterVars, Promised!bucketVars, Budget, InBucket, AtMostFull
<1>2. ASSUME NEW c \in Calls, NEW a \in Addresses, Arrive(c, a) PROVE UNCHANGED Promised!bucketVars
  BY <1>2 DEF Arrive, Promised!bucketVars, Budget, InBucket, AtMostFull
<1>3. ASSUME NEW c \in Calls, get(c) PROVE UNCHANGED Promised!bucketVars
  <2>1. verdict' = verdict BY <1>3 DEF get
  <2> QED BY <1>3, <2>1, GetIsSilent DEF Promised!bucketVars
<1> QED BY <1>1, <1>2, <1>3, AllowIsAnswer, PassIsWait DEF LimiterNext

LEMMA InitRefines == LimiterInit => Promised!BucketInit
<1> SUFFICES ASSUME LimiterInit PROVE Promised!BucketInit OBVIOUS
<1>1. DOMAIN clients = {} BY DEF LimiterInit
<1>2. Budget = [a \in Addresses |-> Burst * Cost] BY <1>1 DEF Budget
<1> QED BY <1>2 DEF LimiterInit, Promised!BucketInit

(* The limiter implements one bucket per address that is never forgotten:  *)
(* get and Arrive change nothing an address could notice, Allow takes from *)
(* its bucket or refuses, and time fills all buckets (mw_rate_limit.go).   *)
THEOREM RateIsKept == LimiterSpec => RateKept
BY LimiterInvariant, InitRefines, StepRefines, PTL DEF LimiterSpec, RateKept, Promised!BucketSpec
=============================================================================
