---------------------------- MODULE TxLineClient ----------------------------
(***************************************************************************)
(* The REST client of the SDK: every call authenticates with a guest JWT   *)
(* that all calls share, and a call refused with 401 or 403 renews it and  *)
(* tries once more.  At most one renewal is under way, and the calls that  *)
(* need one wait for it together.                                          *)
(*                                                                         *)
(* The client runs on one JavaScript thread.  An action is what runs       *)
(* between two awaits, with the continuations it releases: when a renewal  *)
(* settles, renewing is cleared and the calls waiting for it go on before  *)
(* anything else happens.                                                  *)
(*                                                                         *)
(* External: the server.  It issues the JWTs 1, 2, ... in the order in     *)
(* which it handles the renewals, lets any of them expire at any time, and *)
(* its answers arrive late and in any order.                               *)
(***************************************************************************)
EXTENDS Integers

CONSTANTS
    Calls,      (* the calls of get that may be under way at the same time  *)
    MaxTokens   (* bound of the number of JWTs the server issues            *)

ASSUME TokensBound == MaxTokens \in Nat

NoToken == 0                 (* this.jwt is "" *)
Tokens == 1..MaxTokens

NoCall == "nobody"
ASSUME NoCallAssumption == NoCall \notin Calls

VARIABLES
    jwt,        (* this.jwt                                                 *)
    renewing,   (* this.renewing: the call that started it, or NoCall       *)
    renewal,    (* the renewal every call has under way, and its answer     *)
    call,       (* what every call is at                                    *)
    issued,     (* how many JWTs the server has issued                      *)
    valid       (* the JWTs the server accepts                              *)

vars == <<jwt, renewing, renewal, call, issued, valid>>
server == <<issued, valid>>

(* The POST of a renewal: not sent, sent, refused, or answered with a JWT. *)
NotSent == -2
Sent == -1
Refused == 0

(* A call waits for a renewal, or for the answer to the request it sent    *)
(* with a token; rejected is the token it was refused with the first time. *)
CallType ==
    [pc : {"idle", "renewing", "fetching", "returned", "threw"},
     waits_for : Calls \cup {NoCall},
     token : Tokens \cup {NoToken},
     rejected : Tokens \cup {NoToken},
     answer : {"none", "ok", "refused", "error"}]

NewCall(pc) ==
    [pc |-> pc, waits_for |-> NoCall, token |-> NoToken, rejected |-> NoToken,
     answer |-> "none"]

Init ==
    /\ jwt = NoToken
    /\ renewing = NoCall
    /\ renewal = [c \in Calls |-> NotSent]
    /\ call = [c \in Calls |-> NewCall("idle")]
    /\ issued = 0
    /\ valid = {}

-----------------------------------------------------------------------------
(* The client *)

SentWith(cl, token) ==
    [cl EXCEPT !.pc = "fetching", !.waits_for = NoCall, !.token = token,
               !.answer = "none"]

(* The renewal renewJwt returns to the calls of C: the one under way, or a *)
(* new one that the first of them starts.                                  *)
SharedRenewal(C) == IF renewing = NoCall THEN CHOOSE c \in C : TRUE ELSE renewing

(* Mutant: nobody shares a renewal. *)
AwaitOwnRenewals(C, as) ==
    /\ renewing' = CHOOSE c \in C : TRUE
    /\ renewal' = [c \in Calls |-> IF c \in C THEN Sent ELSE renewal[c]]
    /\ call' = [c \in Calls |->
                  IF c \in C THEN [as[c] EXCEPT !.pc = "renewing", !.waits_for = c]
                             ELSE call[c]]
    /\ UNCHANGED jwt

(* The calls of C await renewJwt(); as[c] is what c has become meanwhile.  *)
AwaitRenewal(C, as) ==
    LET p == SharedRenewal(C)
    IN  /\ renewing' = p
        /\ renewal' = IF p \in C THEN [renewal EXCEPT ![p] = Sent] ELSE renewal
        /\ call' = [c \in Calls |->
                      IF c \in C THEN [as[c] EXCEPT !.pc = "renewing", !.waits_for = p]
                                 ELSE call[c]]
        /\ UNCHANGED jwt

(* A call that has ended makes room for another. *)
Ended(c) == call[c].pc \in {"idle", "returned", "threw"}
Afresh(C) == [c \in Calls |-> IF c \in C THEN NewCall("idle") ELSE call[c]]

SendAll(C) ==
    /\ call' = [c \in Calls |-> IF c \in C THEN SentWith(NewCall("idle"), jwt)
                                           ELSE call[c]]
    /\ UNCHANGED <<jwt, renewing, renewal>>

(* Mutant: the first request does not wait for a JWT. *)
StartWithoutJwt(C) ==
    /\ \A c \in C : Ended(c)
    /\ SendAll(C)
    /\ UNCHANGED server

(* The calls of C are made in one turn, as those of a Promise.all. *)
Start(C) ==
    /\ \A c \in C : Ended(c)
    /\ IF jwt # NoToken THEN SendAll(C) ELSE AwaitRenewal(C, Afresh(C))
    /\ UNCHANGED server

(* Mutant: the retry takes the JWT from getJwt. *)
RetryWithCachedJwt(c) ==
    /\ call[c].pc = "fetching"
    /\ call[c].answer = "refused"
    /\ call[c].rejected = NoToken
    /\ call' = [call EXCEPT ![c] = [SentWith(@, jwt) EXCEPT !.rejected = call[c].token]]
    /\ UNCHANGED <<jwt, renewing, renewal, server>>

Retry(c) ==
    /\ call[c].pc = "fetching"
    /\ call[c].answer = "refused"
    /\ call[c].rejected = NoToken
    /\ AwaitRenewal({c}, [call EXCEPT ![c].rejected = call[c].token])
    /\ UNCHANGED server

(* The answer is final: any but the first refusal. *)
Finish(c) ==
    /\ call[c].pc = "fetching"
    /\ \/ call[c].answer \in {"ok", "error"}
       \/ call[c].answer = "refused" /\ call[c].rejected # NoToken
    /\ call' = [call EXCEPT ![c] = NewCall(IF @.answer = "ok" THEN "returned"
                                                            ELSE "threw")]
    /\ UNCHANGED <<jwt, renewing, renewal, server>>

(* Mutant: the promise of a renewal that fails stays cached. *)
SettleKeepingRejected(c) ==
    LET answer == renewal[c]
    IN  /\ answer \notin {NotSent, Sent}
        /\ renewal' = [renewal EXCEPT ![c] = NotSent]
        /\ renewing' = IF answer = Refused THEN renewing ELSE NoCall
        /\ jwt' = IF answer = Refused THEN jwt ELSE answer
        /\ call' = [d \in Calls |->
                      IF call[d].pc = "renewing" /\ call[d].waits_for = c
                      THEN IF answer = Refused
                           THEN NewCall("threw")
                           ELSE SentWith(call[d], answer)
                      ELSE call[d]]
        /\ UNCHANGED server

(* The renewal that c started settles. *)
Settle(c) ==
    LET answer == renewal[c]
    IN  /\ answer \notin {NotSent, Sent}
        /\ renewal' = [renewal EXCEPT ![c] = NotSent]
        /\ renewing' = NoCall
        /\ jwt' = IF answer = Refused THEN jwt ELSE answer
        /\ call' = [d \in Calls |->
                      IF call[d].pc = "renewing" /\ call[d].waits_for = c
                      THEN IF answer = Refused
                           THEN NewCall("threw")
                           ELSE SentWith(call[d], answer)
                      ELSE call[d]]
        /\ UNCHANGED server

-----------------------------------------------------------------------------
(* The server, and the network on the way to it *)

AnswerRequest(c) ==
    /\ call[c].pc = "fetching"
    /\ call[c].answer = "none"
    /\ \E answer \in {"refused", "error"}
                     \cup (IF call[c].token \in valid THEN {"ok"} ELSE {}) :
          call' = [call EXCEPT ![c].answer = answer]
    /\ UNCHANGED <<jwt, renewing, renewal, server>>

IssueJwt(c) ==
    /\ renewal[c] = Sent
    /\ issued < MaxTokens
    /\ issued' = issued + 1
    /\ valid' = valid \cup {issued'}
    /\ renewal' = [renewal EXCEPT ![c] = issued']
    /\ UNCHANGED <<jwt, renewing, call>>

RefuseJwt(c) ==
    /\ renewal[c] = Sent
    /\ renewal' = [renewal EXCEPT ![c] = Refused]
    /\ UNCHANGED <<jwt, renewing, call, server>>

Expire(token) ==
    /\ token \in valid
    /\ valid' = valid \ {token}
    /\ UNCHANGED <<jwt, renewing, renewal, call, issued>>

Next ==
    \/ \E C \in (SUBSET Calls) \ {{}} : Start(C)
    \/ \E c \in Calls :
          \/ Retry(c) \/ Finish(c) \/ Settle(c)
          \/ AnswerRequest(c) \/ IssueJwt(c) \/ RefuseJwt(c)
    \/ \E token \in valid : Expire(token)

Spec == Init /\ [][Next]_vars

-----------------------------------------------------------------------------
(* Correctness *)

(* The fields hold values of their types, and no request is sent without a *)
(* JWT.                                                                    *)
TypeOK ==
    /\ jwt \in Tokens \cup {NoToken}
    /\ renewing \in Calls \cup {NoCall}
    /\ renewal \in [Calls -> {NotSent, Sent, Refused} \cup Tokens]
    /\ call \in [Calls -> CallType]
    /\ \A c \in Calls : call[c].pc = "fetching" => call[c].token \in Tokens
    /\ issued \in 0..MaxTokens
    /\ valid \subseteq 1..issued

(* The promise kept in renewing is one that has not settled, and whoever   *)
(* waits for a renewal waits for that one: a renewal that failed is never  *)
(* handed to a later call ("never cache a rejected promise", txline.ts).   *)
RenewalIsLive ==
    /\ renewing # NoCall => renewal[renewing] # NotSent
    /\ \A c \in Calls :
          call[c].pc = "renewing" =>
              call[c].waits_for = renewing /\ renewing # NoCall

(* A call that was refused tries again with a JWT issued after the one it  *)
(* was refused with, however the renewals and answers of other calls fall  *)
(* in between.                                                             *)
RetriesWithNewerJwt ==
    \A c \in Calls :
        call[c].pc = "fetching" /\ call[c].rejected # NoToken =>
            call[c].token > call[c].rejected

(* A JWT never replaces one that was issued after it. *)
JwtNeverGoesBack == [][jwt' >= jwt]_vars
=============================================================================
