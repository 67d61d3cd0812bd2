------------------------------- MODULE HtAuth -------------------------------
(***************************************************************************)
(* The authentication filter of htauth/htauth.go and the cascade it heads: *)
(* a request that is let through as a user goes to the processes (htproc), *)
(* one without a user goes to the file handler.  Its clients keep the last *)
(* token that came back; several of their requests are under way at the    *)
(* same time, answers may be lost or overtake each other, and the server   *)
(* may be restarted.                                                       *)
(*                                                                         *)
(* The handler of a request first reads the credentials and later looks at *)
(* the clock, so a token can expire, or be renewed, in between.            *)
(***************************************************************************)
EXTENDS Auth, Sequences, FiniteSets

CONSTANTS
  Clients,        \* the clients, each with a token it keeps
  Conns,          \* the requests that are under way at the same time
  NoUser, NoToken,
  AllowCookies,   \* filter.allowCookies
  FixedKey,       \* the AES key is configured, not made at every start
  MaxSources,     \* bound of the model: credentials in a request
  MaxTime,        \* bound of the model: the last tick of the clock
  MaxRestarts     \* bound of the model: the keys made by restarts

ASSUME NullAssumption == NoUser \notin Users /\ NoToken \notin Token

ASSUME SwitchAssumption == {AllowCookies, FixedKey} \subseteq BOOLEAN

VARIABLES
  now,         \* the clock
  key,         \* the key of the running server
  pc,          \* per request: "idle", "check", "answered"
  client,      \* per request, its client
  isAuth,      \* per request, it is the auth command
  cred,        \* per request, the credential found in it
  answer,      \* per request, its answer
  jar,         \* per client, the token it keeps
  usedAt,      \* history: when the server gave the answer with that token
  acceptedAt   \* history: per user, the last time a request was accepted

requestVars == <<pc, client, isAuth, cred, answer>>
jarVars     == <<jar, usedAt>>

vars == <<now, key, pc, client, isAuth, cred, answer, jar, usedAt, acceptedAt>>

-----------------------------------------------------------------------------
(***************************************************************************)
(* What a request asks for.                                                *)
(***************************************************************************)

Methods == {"AUTH", "GET", "PUT"}   \* "GET" stands for POST too, "PUT" for
                                    \* all the others

(* The values of cmd in the query string.                                  *)
Queries == {<<>>, <<"auth">>, <<"props">>, <<"unknown">>, <<"auth", "props">>}

(* GetQryCmd with all commands allowed.                                    *)
QryCmd(cmds) ==
  CASE cmds = <<>>                                    -> "none"
    [] Len(cmds) = 1 /\ cmds[1] \in {"auth", "props"} -> cmds[1]
    [] OTHER                                          -> "error"

(* isAuthRequest: "auth", "plain" or "error".                              *)
RequestKind(method, cmds) ==
  LET cmd == QryCmd(cmds)
  IN  CASE cmd = "error"    -> "error"
        [] method = "AUTH"  -> IF cmd = "none" THEN "auth" ELSE "error"
        [] method = "GET"   -> IF cmd = "auth" THEN "auth" ELSE "plain"
        [] OTHER            -> IF cmd = "auth" THEN "error" ELSE "plain"

Kinds == {RequestKind(m, q) : m \in Methods, q \in Queries}

(***************************************************************************)
(* The credentials of a request: a function on the places it has them in.  *)
(* A credential that is malformed or given twice is a BadCred.             *)
(***************************************************************************)

NoCred  == [kind |-> "none"]
BadCred == [kind |-> "bad"]

Password(u, right) == [kind |-> "password", user |-> u, right |-> right]
TokenCred(tok)     == [kind |-> "token", token |-> tok]

Cred == {NoCred}
        \cup {Password(u, b) : u \in Users, b \in BOOLEAN}
        \cup [kind : {"token"}, token : Token]

Rank == [xUser |-> 1, basic |-> 2, xToken |-> 3, json |-> 4, cookie |-> 5]

(* The places getCreds looks at in a request of this kind.                 *)
Consulted(kind) ==
  {"xUser", "basic", "xToken"}
    \cup (IF kind = "auth" THEN {"json", "cookie"} ELSE {})
    \cup (IF AllowCookies THEN {"cookie"} ELSE {})

(* getCreds: the first one it finds.                                       *)
GetCreds(creds, kind) ==
  LET found == DOMAIN creds \cap Consulted(kind)
  IN  IF found = {} THEN NoCred
      ELSE creds[CHOOSE s \in found : \A t \in found : Rank[s] <= Rank[t]]

(* What client c may put in place s: passwords, the token it keeps as it   *)
(* was given, or something malformed.  Altered tokens are left out.        *)
Choices(c, s) ==
  {BadCred}
    \cup (IF s \in {"xUser", "basic", "json"}
          THEN {Password(u, b) : u \in Users, b \in BOOLEAN} ELSE {})
    \cup (IF s \in {"xToken", "json", "cookie"} /\ jar[c] # NoToken
          THEN {TokenCred(jar[c])} ELSE {})

CredSets(c) ==
  UNION {{f \in [S -> UNION {Choices(c, s) : s \in S}] : \A s \in S : f[s] \in Choices(c, s)} :
         S \in {T \in SUBSET DOMAIN Rank : Cardinality(T) <= MaxSources}}

-----------------------------------------------------------------------------

NoAnswer == [next |-> "none", user |-> NoUser, token |-> NoToken, at |-> 0]

Init ==
  /\ now = 0 /\ key = 0
  /\ pc     = [h \in Conns |-> "idle"]
  /\ client \in [Conns -> Clients]
  /\ isAuth = [h \in Conns |-> FALSE]
  /\ cred   = [h \in Conns |-> NoCred]
  /\ answer = [h \in Conns |-> NoAnswer]
  /\ jar    = [c \in Clients |-> NoToken]
  /\ usedAt = [c \in Clients |-> 0]
  /\ acceptedAt = [u \in Users |-> 0]

-----------------------------------------------------------------------------
(***************************************************************************)
(* The filter.                                                             *)
(***************************************************************************)

(* Request h ends in next: it was answered (badRequest, notFound, ok) or   *)
(* passed on, to the processes or to the file handler; the locals of its   *)
(* handler are gone.                                                       *)
Answer(h, next, u, tok) ==
  /\ pc' = [pc EXCEPT ![h] = "answered"]
  /\ answer' = [answer EXCEPT ![h] =
                  [next |-> next, user |-> u, token |-> tok,
                   at |-> IF tok = NoToken THEN 0 ELSE now]]
  /\ isAuth' = [isAuth EXCEPT ![h] = FALSE]
  /\ cred' = [cred EXCEPT ![h] = NoCred]

(* Request h of client c is done with before a credential is checked: an   *)
(* OPTIONS or HEAD request, or one whose command or whose credentials      *)
(* cannot be made out.                                                     *)
Unchecked(h, c, next) ==
  /\ pc[h] = "idle"
  /\ Answer(h, next, NoUser, NoToken)
  /\ client' = [client EXCEPT ![h] = c]
  /\ UNCHANGED <<now, key, jarVars, acceptedAt>>

Ignore(h, c) == Unchecked(h, c, "file")

BadRequest(h, c) == Unchecked(h, c, "badRequest")

(* Its credentials are read.                                               *)
ReadCreds(h, c) ==
  /\ pc[h] = "idle"
  /\ \E kind \in Kinds \ {"error"} :
       \E cr \in {GetCreds(creds, kind) : creds \in CredSets(c)} \ {BadCred} :
         /\ isAuth' = [isAuth EXCEPT ![h] = kind = "auth"]
         /\ cred' = [cred EXCEPT ![h] = cr]
  /\ pc' = [pc EXCEPT ![h] = "check"]
  /\ client' = [client EXCEPT ![h] = c]
  /\ UNCHANGED <<now, key, answer, jarVars, acceptedAt>>

(* checkCreds takes the credential: the request is answered with a token,  *)
(* and, unless it only was the auth command, goes to the user's process.   *)
Accept(h, u, tok) ==
  /\ Answer(h, IF isAuth[h] THEN "ok" ELSE "proc", u, tok)
  /\ acceptedAt' = [acceptedAt EXCEPT ![u] = now]
  /\ UNCHANGED <<now, key, client, jarVars>>

AuthPwd(h) ==
  LET u == cred[h].user
  IN  /\ pc[h] = "check"
      /\ cred[h].kind = "password" /\ cred[h].right
      /\ Accept(h, u, NewToken(u, now, key))

AuthToken(h) ==
  LET tok == cred[h].token
  IN  /\ pc[h] = "check"
      /\ cred[h].kind = "token" /\ Valid(tok, now, key)
      /\ Accept(h, tok.user, Renew(tok, now, key))

(* A request without credentials, or with ones that are not valid, is      *)
(* passed on without a user, unless it is the auth command.                *)
Refuse(h) ==
  /\ pc[h] = "check"
  /\ cred[h].kind = "password" => ~cred[h].right
  /\ cred[h].kind = "token" => ~Valid(cred[h].token, now, key)
  /\ Answer(h, IF isAuth[h] THEN "notFound" ELSE "file", NoUser, NoToken)
  /\ UNCHANGED <<now, key, client, jarVars, acceptedAt>>

-----------------------------------------------------------------------------
(***************************************************************************)
(* The clients, the server and the clock.                                  *)
(***************************************************************************)

(* The client gets the answer, in whatever order, and keeps its token.     *)
Deliver(h) ==
  LET c == client[h]
      keep == answer[h].token # NoToken
  IN  /\ pc[h] = "answered"
      /\ pc' = [pc EXCEPT ![h] = "idle"]
      /\ answer' = [answer EXCEPT ![h] = NoAnswer]
      /\ jar' = [jar EXCEPT ![c] = IF keep THEN answer[h].token ELSE @]
      /\ usedAt' = [usedAt EXCEPT ![c] = IF keep THEN answer[h].at ELSE @]
      /\ UNCHANGED <<now, key, client, isAuth, cred, acceptedAt>>

Drop(hs) ==
  /\ pc' = [h \in Conns |-> IF h \in hs THEN "idle" ELSE pc[h]]
  /\ answer' = [h \in Conns |-> IF h \in hs THEN NoAnswer ELSE answer[h]]
  /\ isAuth' = [h \in Conns |-> IF h \in hs THEN FALSE ELSE isAuth[h]]
  /\ cred' = [h \in Conns |-> IF h \in hs THEN NoCred ELSE cred[h]]
  /\ UNCHANGED <<now, client, jarVars, acceptedAt>>

Lose(h) == pc[h] = "answered" /\ Drop({h}) /\ UNCHANGED key

(* mkauth makes a new key unless one is configured.                        *)
Restart ==
  /\ Drop(Conns)
  /\ IF FixedKey THEN UNCHANGED key ELSE key < MaxRestarts /\ key' = key + 1

Tick ==
  /\ now < MaxTime
  /\ now' = now + 1
  /\ UNCHANGED <<key, requestVars, jarVars, acceptedAt>>

-----------------------------------------------------------------------------

Filter(h) ==
  \/ \E c \in Clients : Ignore(h, c) \/ BadRequest(h, c) \/ ReadCreds(h, c)
  \/ AuthPwd(h) \/ AuthToken(h) \/ Refuse(h)

Next ==
  \/ \E h \in Conns : Filter(h) \/ Deliver(h) \/ Lose(h)
  \/ Restart \/ Tick

Spec == Init /\ [][Next]_vars

-----------------------------------------------------------------------------
(***************************************************************************)
(* Correctness.                                                            *)
(***************************************************************************)

TypeOK ==
  /\ now \in Nat /\ key \in Nat
  /\ pc \in [Conns -> {"idle", "check", "answered"}]
  /\ client \in [Conns -> Clients]
  /\ isAuth \in [Conns -> BOOLEAN]
  /\ cred \in [Conns -> Cred]
  /\ answer \in [Conns -> [next : {"none", "badRequest", "notFound", "ok", "proc", "file"},
                           user : Users \cup {NoUser},
                           token : Token \cup {NoToken}, at : Nat]]
  /\ jar \in [Clients -> Token \cup {NoToken}]
  /\ usedAt \in [Clients -> Nat]
  /\ acceptedAt \in [Users -> Nat]

(* How old a token may be already when the server sends it: less than the  *)
(* threshold if it is an old one, less than a second if it is a new one.   *)
OldestSent == IF RenewThreshold < Second THEN Second ELSE RenewThreshold

(* A session does not end by an inactivity of at most the validity less    *)
(* the renewal threshold, counted from the answer with the token that the  *)
(* client keeps, be it new, renewed or still the old one.  With a          *)
(* threshold of at least a second, that is for validities of ten seconds   *)
(* or more, this is the 90% of the comment on It.AuthToken; for shorter    *)
(* ones a whole second may be lost, as tokens are dated with whole         *)
(* seconds, and only the validity less a second is left: the comment does  *)
(* not hold for them.                                                      *)
SessionSurvives ==
  \A c \in Clients :
    /\ jar[c] # NoToken
    /\ jar[c].key = key
    /\ now - usedAt[c] <= TokenValidity - OldestSent
    => Valid(jar[c], now, key)

(* The tokens anywhere in the system.                                      *)
Tokens ==
  {jar[c] : c \in Clients} \cup {answer[h].token : h \in Conns}
    \cup {cred[h].token : h \in {i \in Conns : cred[i].kind = "token"}}

(* It does end by one of more than the validity: whatever answers are late *)
(* or lost, of the tokens that the server has given out none is valid any  *)
(* more of a user whose last accepted request is that long ago.  This is   *)
(* about clients that send tokens as they were given, only.                *)
IdleSessionEnds ==
  \A tok \in Tokens \ {NoToken} :
    Valid(tok, now, key) => now - acceptedAt[tok.user] <= TokenValidity
=============================================================================
