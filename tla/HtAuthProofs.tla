---------------------------- MODULE HtAuthProofs ----------------------------
(***************************************************************************)
(* Theorems about HtAuth, for every number of users, clients and requests  *)
(* and every validity.  All of them are about clients that send tokens as  *)
(* they were given (see Auth).                                             *)
(***************************************************************************)
EXTENDS HtAuth, TLAPS

(* A second is what a token is dated too early by, at most.                *)
LEMMA UnixIsClose ==
  ASSUME NEW t \in Nat
  PROVE  Unix(t) \in Nat /\ Unix(t) <= t /\ t - Unix(t) < Second
BY SecondAssumption DEF Unix

(* It is never less than the threshold, nor than a second.                 *)
LEMMA OldestIs == /\ OldestSent \in Int
                  /\ RenewThreshold <= OldestSent /\ Second <= OldestSent
BY SecondAssumption, ValidityAssumption DEF OldestSent

(* What getCreds finds is none, malformed, a password, or the token the    *)
(* client keeps.                                                           *)
LEMMA GetCredsFinds ==
  ASSUME NEW c \in Clients, NEW creds \in CredSets(c), NEW kind,
         NEW cr, cr = GetCreds(creds, kind)
  PROVE  \/ cr \in {NoCred, BadCred}
         \/ \E u \in Users, b \in BOOLEAN : cr = Password(u, b)
         \/ jar[c] # NoToken /\ cr = TokenCred(jar[c])
<1> DEFINE found == DOMAIN creds \cap Consulted(kind)
           First(s) == \A t \in found : Rank[s] <= Rank[t]
<1>1. CASE found = {}
  BY <1>1 DEF GetCreds
<1>2. CASE found # {}
  <2>1. found \subseteq {"xUser", "basic", "xToken", "json", "cookie"}
    BY DEF Consulted
  <2>2. \E s \in found : First(s)
    BY <1>2, <2>1 DEF Rank
  <2>3. PICK s \in found : cr = creds[s]
    BY <1>2, <2>2 DEF GetCreds
  <2>4. creds[s] \in Choices(c, s)
    BY DEF CredSets
  <2> QED
    BY <2>3, <2>4 DEF Choices
<1> QED
  BY <1>1, <1>2

(* The credentials there are, and what they carry.                         *)
LEMMA CredFacts ==
  /\ NoCred \in Cred
  /\ \A u \in Users, b \in BOOLEAN : Password(u, b) \in Cred
  /\ \A tok \in Token : TokenCred(tok) \in Cred
  /\ \A cr \in Cred : /\ cr.kind = "password" => cr.user \in Users
                      /\ cr.kind = "token" => cr.token \in Token
<1>1. NoCred \in Cred /\ \A u \in Users, b \in BOOLEAN : Password(u, b) \in Cred
  BY DEF Cred
<1>2. ASSUME NEW tok \in Token PROVE TokenCred(tok) \in Cred
  <2>1. TokenCred(tok) \in [kind : {"token"}, token : Token]
    BY DEF TokenCred
  <2> QED
    BY <2>1 DEF Cred
<1>3. ASSUME NEW cr \in Cred
      PROVE  /\ cr.kind = "password" => cr.user \in Users
             /\ cr.kind = "token" => cr.token \in Token
  <2>1. CASE cr = NoCred
    BY <2>1 DEF NoCred
  <2>2. CASE \E u \in Users, b \in BOOLEAN : cr = Password(u, b)
    BY <2>2 DEF Password
  <2>3. CASE cr \in [kind : {"token"}, token : Token]
    BY <2>3
  <2> QED
    BY <2>1, <2>2, <2>3 DEF Cred
<1> QED
  BY <1>1, <1>2, <1>3

-----------------------------------------------------------------------------
(***************************************************************************)
(* The inductive invariant.  Where a token is held does not matter for its *)
(* date; how old it was when the server sent it does.                      *)
(***************************************************************************)

(* A token is dated no later than the last accepted request of its user.   *)
Dated(tok) == tok \in Token => tok.at <= acceptedAt[tok.user]

DatedInv ==
  /\ \A c \in Clients : Dated(jar[c])
  /\ \A h \in Conns : Dated(answer[h].token)
  /\ \A h \in Conns : cred[h].kind = "token" => Dated(cred[h].token)

(* When the server sent a token, it was younger than the threshold, or a   *)
(* new one.                                                                *)
FreshInv ==
  /\ \A c \in Clients : jar[c] # NoToken => usedAt[c] - jar[c].at < OldestSent
  /\ \A h \in Conns : answer[h].token # NoToken =>
       answer[h].at - answer[h].token.at < OldestSent

(* No request was accepted in the future.                                 *)
PastInv == \A u \in Users : acceptedAt[u] <= now

Inv == TypeOK /\ DatedInv /\ FreshInv /\ PastInv

(* No token, request or session exists at the start.                       *)
THEOREM InitInv == Init => Inv
<1> SUFFICES ASSUME Init PROVE Inv
  OBVIOUS
<1>1. TypeOK
  BY DEF Init, TypeOK, NoAnswer, Cred
<1>2. DatedInv /\ FreshInv /\ PastInv
  BY NullAssumption
  DEF Init, DatedInv, FreshInv, PastInv, Dated, NoAnswer, NoCred
<1> QED
  BY <1>1, <1>2 DEF Inv

(* The last accepted request of a user only becomes a later one.           *)
LEMMA DateStays ==
  ASSUME TypeOK, NEW tok, Dated(tok),
         acceptedAt' \in [Users -> Nat],
         \A u \in Users : acceptedAt[u] <= acceptedAt'[u]
  PROVE  tok \in Token => tok.at <= acceptedAt'[tok.user]
BY DEF Dated, TypeOK, Token

(* The answer of a request, whichever way it ends, has the right type.     *)
LEMMA AnswerType ==
  ASSUME TypeOK, NEW h \in Conns, NEW u \in Users \cup {NoUser},
         NEW next \in {"badRequest", "notFound", "ok", "proc", "file"},
         NEW tok \in Token \cup {NoToken}, Answer(h, next, u, tok)
  PROVE  /\ pc' \in [Conns -> {"idle", "check", "answered"}]
         /\ answer' \in [Conns -> [next : {"none", "badRequest", "notFound", "ok", "proc", "file"},
                                   user : Users \cup {NoUser},
                                   token : Token \cup {NoToken}, at : Nat]]
         /\ isAuth' \in [Conns -> BOOLEAN]
         /\ cred' \in [Conns -> Cred]
<1> DEFINE a == [next |-> next, user |-> u, token |-> tok,
                 at |-> IF tok = NoToken THEN 0 ELSE now]
<1>1. a \in [next : {"none", "badRequest", "notFound", "ok", "proc", "file"},
             user : Users \cup {NoUser}, token : Token \cup {NoToken}, at : Nat]
  BY DEF TypeOK
<1>2. answer' = [answer EXCEPT ![h] = a]
  BY DEF Answer
<1>3. answer' \in [Conns -> [next : {"none", "badRequest", "notFound", "ok", "proc", "file"},
                            user : Users \cup {NoUser},
                            token : Token \cup {NoToken}, at : Nat]]
  <2> HIDE DEF a
  <2> QED
    BY <1>1, <1>2 DEF TypeOK
<1>4. pc' \in [Conns -> {"idle", "check", "answered"}]
  BY DEF Answer, TypeOK
<1>5. isAuth' \in [Conns -> BOOLEAN]
  BY DEF Answer, TypeOK
<1>6. cred' \in [Conns -> Cred]
  BY CredFacts DEF Answer, TypeOK
<1> QED
  BY <1>3, <1>4, <1>5, <1>6

(* Every action keeps the types.                                           *)
LEMMA TypeStep == TypeOK /\ [Next]_vars => TypeOK'
<1> SUFFICES ASSUME TypeOK, [Next]_vars PROVE TypeOK'
  OBVIOUS
<1> USE DEF TypeOK, requestVars, jarVars
<1>1. ASSUME NEW h \in Conns, NEW c \in Clients, Ignore(h, c) \/ BadRequest(h, c)
      PROVE  TypeOK'
  <2>1. CASE Ignore(h, c)
    BY <2>1, AnswerType DEF Ignore, Unchecked
  <2>2. CASE BadRequest(h, c)
    BY <2>2, AnswerType DEF BadRequest, Unchecked
  <2> QED
    BY <1>1, <2>1, <2>2
<1>2. ASSUME NEW h \in Conns, NEW c \in Clients, ReadCreds(h, c) PROVE TypeOK'
  <2>1. PICK kind \in Kinds \ {"error"} : 
          \E cr \in {GetCreds(creds, kind) : creds \in CredSets(c)} \ {BadCred} :
            /\ isAuth' = [isAuth EXCEPT ![h] = kind = "auth"]
            /\ cred' = [cred EXCEPT ![h] = cr]
    BY <1>2 DEF ReadCreds
  <2>2. PICK cr \in {GetCreds(creds, kind) : creds \in CredSets(c)} \ {BadCred} :
            /\ isAuth' = [isAuth EXCEPT ![h] = kind = "auth"]
            /\ cred' = [cred EXCEPT ![h] = cr]
    BY <2>1
  <2>3. cr \in Cred
    <3>1. \/ cr \in {NoCred, BadCred}
          \/ \E u \in Users, b \in BOOLEAN : cr = Password(u, b)
          \/ jar[c] # NoToken /\ cr = TokenCred(jar[c])
      <4>1. PICK creds \in CredSets(c) : cr = GetCreds(creds, kind)
        BY <2>2
      <4> QED
        BY <4>1, GetCredsFinds
    <3>2. jar[c] \in Token \cup {NoToken} /\ cr # BadCred
      BY <2>2
    <3>3. CASE cr \in {NoCred, BadCred}
      BY <3>2, <3>3, CredFacts
    <3>4. CASE \E u \in Users, b \in BOOLEAN : cr = Password(u, b)
      BY <3>4, CredFacts
    <3>5. CASE jar[c] # NoToken /\ cr = TokenCred(jar[c])
      BY <3>2, <3>5, CredFacts
    <3> QED
      BY <3>1, <3>3, <3>4, <3>5
  <2> QED
    BY <1>2, <2>2, <2>3 DEF ReadCreds
<1>3. ASSUME NEW h \in Conns, AuthPwd(h) PROVE TypeOK'
  <2>1. cred[h].user \in Users
    BY <1>3, CredFacts DEF AuthPwd
  <2>2. NewToken(cred[h].user, now, key) \in Token
    BY <2>1, UnixIsClose DEF NewToken, Token
  <2> QED
    BY <1>3, <2>1, <2>2, AnswerType DEF AuthPwd, Accept
<1>4. ASSUME NEW h \in Conns, AuthToken(h) PROVE TypeOK'
  <2>1. cred[h].token \in Token
    BY <1>4, CredFacts DEF AuthToken
  <2>2. Renew(cred[h].token, now, key) \in Token
    BY <2>1, UnixIsClose DEF Renew, NewToken, Token
  <2> QED
    BY <1>4, <2>1, <2>2, AnswerType DEF AuthToken, Accept, Token
<1>5. ASSUME NEW h \in Conns, Refuse(h) PROVE TypeOK'
  BY <1>5, AnswerType DEF Refuse
<1>6. ASSUME NEW h \in Conns, Deliver(h) PROVE TypeOK'
  BY <1>6 DEF Deliver, NoAnswer
<1>7. ASSUME NEW hs, Drop(hs), key' \in Nat PROVE TypeOK'
  BY <1>7, CredFacts DEF Drop, NoAnswer
<1>8. CASE Restart
  BY <1>7, <1>8 DEF Restart
<1>9. ASSUME NEW h \in Conns, Lose(h) PROVE TypeOK'
  BY <1>7, <1>9 DEF Lose
<1>10. CASE Tick \/ UNCHANGED vars
  BY <1>10 DEF Tick, vars
<1> QED
  BY <1>1, <1>2, <1>3, <1>4, <1>5, <1>6, <1>8, <1>9, <1>10 DEF Next, Filter

-----------------------------------------------------------------------------
(***************************************************************************)
(* The step.                                                               *)
(***************************************************************************)

(* An answer keeps the invariant when its token is dated right and fresh.  *)
LEMMA AnswerKeeps ==
  ASSUME Inv, TypeOK', NEW h \in Conns, NEW u, NEW next,
         NEW tok \in Token \cup {NoToken}, Answer(h, next, u, tok),
         UNCHANGED <<now, key, jar, usedAt>>,
         \A v \in Users : acceptedAt[v] <= acceptedAt'[v] /\ acceptedAt'[v] <= now,
         tok # NoToken => /\ tok.at <= acceptedAt'[tok.user]
                          /\ now - tok.at < OldestSent
  PROVE  Inv'
<1> DEFINE a == [next |-> next, user |-> u, token |-> tok,
                 at |-> IF tok = NoToken THEN 0 ELSE now]
<1>1. answer' = [answer EXCEPT ![h] = a] /\ cred' = [cred EXCEPT ![h] = NoCred]
  BY DEF Answer
<1>2. \A i \in Conns : answer'[i] = IF i = h THEN a ELSE answer[i]
  BY <1>1 DEF Inv, TypeOK
<1>3. \A i \in Conns : cred'[i] = IF i = h THEN NoCred ELSE cred[i]
  BY <1>1 DEF Inv, TypeOK
<1>4. DatedInv'
  <2>1. \A t : Dated(t) => (t \in Token => t.at <= acceptedAt'[t.user])
    BY DateStays DEF Inv, TypeOK
  <2>2. ASSUME NEW c \in Clients PROVE Dated(jar[c])'
    BY <2>1 DEF Inv, DatedInv, Dated
  <2>3. ASSUME NEW i \in Conns PROVE Dated(answer[i].token)'
    <3>1. CASE i = h
      BY <3>1, <1>2, NullAssumption DEF Dated
    <3>2. CASE i # h
      BY <3>2, <1>2, <2>1 DEF Inv, DatedInv, Dated
    <3> QED
      BY <3>1, <3>2
  <2>4. ASSUME NEW i \in Conns, cred'[i].kind = "token" PROVE Dated(cred[i].token)'
    BY <2>4, <1>3, <2>1 DEF Inv, DatedInv, Dated, NoCred
  <2> QED
    BY <2>2, <2>3, <2>4 DEF DatedInv
<1>5. FreshInv'
  BY <1>2 DEF Inv, FreshInv
<1>6. PastInv'
  BY DEF Inv, PastInv
<1> QED
  BY <1>4, <1>5, <1>6 DEF Inv

(* Requests whose handler is gone leave the others as they were.           *)
LEMMA DropKeeps ==
  ASSUME Inv, TypeOK', NEW hs, Drop(hs), key' = key \/ hs = Conns
  PROVE  Inv'
<1>1. \A i \in Conns : answer'[i] = IF i \in hs THEN NoAnswer ELSE answer[i]
  BY DEF Drop
<1>2. \A i \in Conns : cred'[i] = IF i \in hs THEN NoCred ELSE cred[i]
  BY DEF Drop
<1>3. UNCHANGED <<now, jar, usedAt, acceptedAt>>
  BY DEF Drop, jarVars
<1>4. DatedInv'
  BY <1>1, <1>2, <1>3, NullAssumption DEF Inv, DatedInv, Dated, NoAnswer, NoCred
<1>5. FreshInv' /\ PastInv'
  BY <1>1, <1>3 DEF Inv, FreshInv, PastInv, NoAnswer
<1> QED
  BY <1>4, <1>5 DEF Inv

(* Every action keeps the invariant.                                       *)
THEOREM StepInv == Inv /\ [Next]_vars => Inv'
<1> SUFFICES ASSUME Inv, [Next]_vars PROVE Inv'
  OBVIOUS
<1>0. TypeOK /\ TypeOK'
  BY TypeStep DEF Inv
<1>a. \A u \in Users : /\ acceptedAt[u] \in Nat
                      /\ acceptedAt[u] <= acceptedAt[u] /\ acceptedAt[u] <= now
  BY <1>0 DEF Inv, TypeOK, PastInv
<1>1. ASSUME NEW h \in Conns, NEW c \in Clients, Ignore(h, c) \/ BadRequest(h, c)
      PROVE  Inv'
  <2>1. CASE Ignore(h, c)
    BY <1>0, <1>a, <2>1, AnswerKeeps DEF Ignore, Unchecked, jarVars
  <2>2. CASE BadRequest(h, c)
    BY <1>0, <1>a, <2>2, AnswerKeeps DEF BadRequest, Unchecked, jarVars
  <2> QED
    BY <1>1, <2>1, <2>2
<1>2. ASSUME NEW h \in Conns, NEW c \in Clients, ReadCreds(h, c) PROVE Inv'
  <2>1. PICK kind \in Kinds \ {"error"} :
          \E cr \in {GetCreds(creds, kind) : creds \in CredSets(c)} \ {BadCred} :
            cred' = [cred EXCEPT ![h] = cr]
    BY <1>2 DEF ReadCreds
  <2>2. PICK cr \in {GetCreds(creds, kind) : creds \in CredSets(c)} \ {BadCred} :
            cred' = [cred EXCEPT ![h] = cr]
    BY <2>1
  <2>3. PICK creds \in CredSets(c) : cr = GetCreds(creds, kind)
    BY <2>2
  <2>4. cr.kind = "token" => cr.token = jar[c]
    BY <2>2, <2>3, GetCredsFinds DEF NoCred, Password, TokenCred
  <2>5. \A i \in Conns : cred'[i] = IF i = h THEN cr ELSE cred[i]
    BY <2>2, <1>0 DEF TypeOK
  <2>6. UNCHANGED <<now, key, answer, jar, usedAt, acceptedAt>>
    BY <1>2 DEF ReadCreds, jarVars
  <2>7. DatedInv'
    BY <2>4, <2>5, <2>6 DEF Inv, DatedInv, Dated
  <2>8. FreshInv' /\ PastInv'
    BY <2>6 DEF Inv, FreshInv, PastInv
  <2> QED
    BY <1>0, <2>7, <2>8 DEF Inv
<1>3. ASSUME NEW h \in Conns, AuthPwd(h) PROVE Inv'
  <2> DEFINE u == cred[h].user
             tok == NewToken(u, now, key)
             next == IF isAuth[h] THEN "ok" ELSE "proc"
  <2>1. u \in Users
    BY <1>0, <1>3, CredFacts DEF AuthPwd, TypeOK
  <2>2. /\ tok \in Token /\ tok.user = u /\ tok.key = key
        /\ tok.at <= now /\ now - tok.at < OldestSent
    BY <1>0, <2>1, UnixIsClose, OldestIs, SecondAssumption DEF NewToken, Token, TypeOK
  <2>3. /\ Answer(h, next, u, tok)
        /\ acceptedAt' = [acceptedAt EXCEPT ![u] = now]
        /\ UNCHANGED <<now, key, jar, usedAt>>
    BY <1>3 DEF AuthPwd, Accept, jarVars
  <2>4. /\ acceptedAt'[u] = now
        /\ \A v \in Users : acceptedAt[v] <= acceptedAt'[v] /\ acceptedAt'[v] <= now
    BY <1>0, <1>a, <2>1, <2>3 DEF TypeOK
  <2>6. tok # NoToken => /\ tok.at <= acceptedAt'[tok.user]
                         /\ now - tok.at < OldestSent
    BY <2>2, <2>3, <2>4
  <2> HIDE DEF tok, next, u
  <2> QED
    BY <1>0, <2>1, <2>2, <2>3, <2>4, <2>6, AnswerKeeps
<1>4. ASSUME NEW h \in Conns, AuthToken(h) PROVE Inv'
  <2> DEFINE old == cred[h].token
             u == old.user
             tok == Renew(old, now, key)
             next == IF isAuth[h] THEN "ok" ELSE "proc"
  <2>1. old \in Token /\ u \in Users /\ old.key = key /\ Dated(old)
    BY <1>0, <1>4, CredFacts DEF AuthToken, TypeOK, Token, Valid, Inv, DatedInv
  <2>2. /\ tok \in Token /\ tok.user = u /\ tok.key = key
        /\ tok.at <= now /\ now - tok.at < OldestSent
    <3>1. CASE Age(old, now) < RenewThreshold
      BY <1>0, <1>a, <2>1, <3>1, OldestIs, ValidityAssumption DEF Renew, Age, Dated, Token, TypeOK
    <3>2. CASE ~(Age(old, now) < RenewThreshold)
      BY <1>0, <2>1, <3>2, UnixIsClose, OldestIs, SecondAssumption
      DEF Renew, NewToken, Token, TypeOK
    <3> QED
      BY <3>1, <3>2
  <2>3. /\ Answer(h, next, u, tok)
        /\ acceptedAt' = [acceptedAt EXCEPT ![u] = now]
        /\ UNCHANGED <<now, key, jar, usedAt>>
    BY <1>4 DEF AuthToken, Accept, jarVars
  <2>4. /\ acceptedAt'[u] = now
        /\ \A v \in Users : acceptedAt[v] <= acceptedAt'[v] /\ acceptedAt'[v] <= now
    BY <1>0, <1>a, <2>1, <2>3 DEF TypeOK
  <2>6. tok # NoToken => /\ tok.at <= acceptedAt'[tok.user]
                         /\ now - tok.at < OldestSent
    BY <2>2, <2>3, <2>4
  <2> HIDE DEF tok, next, u
  <2> QED
    BY <1>0, <2>1, <2>2, <2>3, <2>4, <2>6, AnswerKeeps
<1>5. ASSUME NEW h \in Conns, Refuse(h) PROVE Inv'
  BY <1>0, <1>a, <1>5, AnswerKeeps DEF Refuse, jarVars
<1>6. ASSUME NEW h \in Conns, Deliver(h) PROVE Inv'
  <2> DEFINE keep == answer[h].token # NoToken
  <2>1. \A c \in Clients :
          \/ jar'[c] = jar[c] /\ usedAt'[c] = usedAt[c]
          \/ keep /\ jar'[c] = answer[h].token /\ usedAt'[c] = answer[h].at
    BY <1>0, <1>6 DEF Deliver, TypeOK
  <2>2. \A i \in Conns : answer'[i] = IF i = h THEN NoAnswer ELSE answer[i]
    BY <1>0, <1>6 DEF Deliver, TypeOK
  <2>3. UNCHANGED <<now, key, cred, acceptedAt>>
    BY <1>6 DEF Deliver
  <2>4. DatedInv'
    BY <2>1, <2>2, <2>3, NullAssumption DEF Inv, DatedInv, Dated, NoAnswer
  <2>5. FreshInv' /\ PastInv'
    BY <2>1, <2>2, <2>3 DEF Inv, FreshInv, PastInv, NoAnswer
  <2> QED
    BY <1>0, <2>4, <2>5 DEF Inv
<1>7. ASSUME NEW h \in Conns, Lose(h) PROVE Inv'
  BY <1>0, <1>7, DropKeeps DEF Lose
<1>8. CASE Restart
  BY <1>0, <1>8, DropKeeps DEF Restart
<1>9. CASE Tick
  <2>1. now' = now + 1 /\ UNCHANGED <<key, cred, answer, jar, usedAt, acceptedAt>>
    BY <1>9 DEF Tick, requestVars, jarVars
  <2>2. DatedInv' /\ FreshInv'
    BY <2>1 DEF Inv, DatedInv, Dated, FreshInv
  <2>3. PastInv'
    BY <1>0, <1>a, <2>1 DEF TypeOK, PastInv
  <2> QED
    BY <1>0, <2>2, <2>3 DEF Inv
<1>10. CASE UNCHANGED vars
  BY <1>0, <1>10 DEF vars, Inv, DatedInv, Dated, FreshInv, PastInv
<1> QED
  BY <1>1, <1>2, <1>3, <1>4, <1>5, <1>6, <1>7, <1>8, <1>9, <1>10 DEF Next, Filter

(* The invariant holds of every behaviour.                                 *)
THEOREM Invariance == Spec => []Inv
BY InitInv, StepInv, PTL DEF Spec

-----------------------------------------------------------------------------

(* The variables keep their types.                                         *)
THEOREM TypeCorrectness == Spec => []TypeOK
<1>1. Inv => TypeOK
  BY DEF Inv
<1> QED
  BY <1>1, Invariance, PTL

(* A client that is back within the validity less the threshold is still   *)
(* logged in: its token was fresh when it was sent, and it cannot have     *)
(* grown too old since.  For every validity and threshold; where the       *)
(* threshold is less than a second, a second counts in its place.          *)
THEOREM SessionsSurvive == Spec => []SessionSurvives
<1>1. Inv => SessionSurvives
  <2> SUFFICES ASSUME Inv, NEW c \in Clients, jar[c] # NoToken, jar[c].key = key,
                      now - usedAt[c] <= TokenValidity - OldestSent
               PROVE  Valid(jar[c], now, key)
    BY DEF SessionSurvives
  <2>1. jar[c] \in Token /\ now \in Nat /\ usedAt[c] \in Nat
    BY DEF Inv, TypeOK
  <2>2. usedAt[c] - jar[c].at < OldestSent
    BY DEF Inv, FreshInv
  <2>3. now - jar[c].at <= TokenValidity
    BY <2>1, <2>2, OldestIs, ValidityAssumption DEF Token
  <2> QED
    BY <2>3 DEF Valid, Age
<1> QED
  BY <1>1, Invariance, PTL

(* No token that the server gave out outlives the last accepted request of *)
(* its user by more than the validity.                                     *)
THEOREM IdleSessionsEnd == Spec => []IdleSessionEnds
<1>1. Inv => IdleSessionEnds
  <2> SUFFICES ASSUME Inv, NEW tok \in Tokens \ {NoToken}, Valid(tok, now, key)
               PROVE  now - acceptedAt[tok.user] <= TokenValidity
    BY DEF IdleSessionEnds
  <2>1. tok \in Token /\ Dated(tok)
    BY CredFacts DEF Inv, TypeOK, DatedInv, Tokens
  <2>2. /\ now \in Nat /\ tok.at \in Nat /\ acceptedAt[tok.user] \in Nat
        /\ tok.at <= acceptedAt[tok.user]
    BY <2>1 DEF Inv, TypeOK, Token, Dated
  <2> QED
    BY <2>2, ValidityAssumption DEF Valid, Age
<1> QED
  BY <1>1, Invariance, PTL
=============================================================================
