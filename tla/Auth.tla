-------------------------------- MODULE Auth --------------------------------
(***************************************************************************)
(* The tokens of auth/auth.go.  A token is its user and time of issue,     *)
(* encrypted with the key of the server.  A token made twice for the same  *)
(* user, second and key is the same token.                                 *)
(*                                                                         *)
(* Only tokens that come back as they were given are modelled.  The code   *)
(* decrypts whatever comes and compares the beginning with the iv: bytes   *)
(* that fail this, as tokens of another key do, are refused, here as       *)
(* there.  Bytes that were altered and pass it are taken by the code for   *)
(* what they decrypt to; there are none here, so that nothing can be said  *)
(* about who may have made a token.                                        *)
(*                                                                         *)
(* Times are in ticks of the clock; Second of them make the second tokens  *)
(* are dated with.                                                         *)
(*                                                                         *)
(* UnixBefore, ValidAnyAge and RenewNever are slips: each in place of the  *)
(* operator after it makes a property of HtAuth fail.                      *)
(***************************************************************************)
EXTENDS Integers

CONSTANTS
  Users,           \* the users that may log in
  Second,          \* a second, in ticks
  TokenValidity,   \* It.tokenValidity, in ticks
  RenewThreshold   \* It.renewThreshold, in ticks

ASSUME SecondAssumption == Second \in Nat \ {0}

(* The threshold is a tenth of the validity in the code; neither is        *)
(* restricted by the options, and nothing here needs how they relate.      *)
ASSUME ValidityAssumption == {TokenValidity, RenewThreshold} \subseteq Int

Token == [user : Users, at : Nat, key : Nat]

(* time.Now().Unix() at time t: the second t is in.                        *)
UnixBefore(t) == t - (t % Second) - Second

Unix(t) == t - (t % Second)

NewToken(u, t, k) == [user |-> u, at |-> Unix(t), key |-> k]

Age(tok, t) == t - tok.at

(* AuthToken at time t with key k takes a token that was not altered.      *)
ValidAnyAge(tok, t, k) == tok.key = k

Valid(tok, t, k) == tok.key = k /\ Age(tok, t) <= TokenValidity

(* And answers with the same one, or a new one when it is old enough.      *)
RenewNever(tok, t, k) == tok

Renew(tok, t, k) ==
  IF Age(tok, t) < RenewThreshold THEN tok ELSE NewToken(tok.user, t, k)
=============================================================================
