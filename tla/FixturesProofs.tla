--------------------------- MODULE FixturesProofs ---------------------------
(***************************************************************************)
(* Proofs about TxLineClient, for every number of calls and JWTs, and about *)
(* Fixtures, for any number of loads and pages: the pages use the client as *)
(* TxLineClient allows, which carries the theorems about it over to them,  *)
(* and a page without names has a reason.                                  *)
(*                                                                         *)
(* The client's invariants are not inductive by themselves.  What they rest *)
(* on is Fresh: only the renewal kept in renewing is under way, the call   *)
(* that started it waits for it, and the JWT it has been answered with is  *)
(* newer than this.jwt, which in turn is at least as new as any JWT a call *)
(* was sent or refused with.                                               *)
(***************************************************************************)
EXTENDS Fixtures, TLAPS

-----------------------------------------------------------------------------
(* The client *)

Fresh ==
    /\ \A c \in Calls : renewal[c] # NotSent => c = renewing /\ call[c].pc = "renewing"
    /\ \A c \in Calls : renewal[c] \in Tokens => jwt < renewal[c] /\ renewal[c] <= issued
    /\ jwt <= issued
    /\ \A c \in Calls : call[c].token <= jwt /\ call[c].rejected <= jwt

ClientInv == TypeOK /\ RenewalIsLive /\ RetriesWithNewerJwt /\ Fresh

-----------------------------------------------------------------------------
(* A call that starts has been neither sent nor refused yet. *)
LEMMA NewCallType ==
    ASSUME NEW pc \in {"idle", "returned", "threw"}
    PROVE  NewCall(pc) \in CallType /\ NewCall(pc).pc = pc
           /\ NewCall(pc).token = NoToken /\ NewCall(pc).rejected = NoToken
BY DEF NewCall, CallType

LEMMA SentWithType ==
    ASSUME NEW cl \in CallType, NEW token \in Tokens
    PROVE  /\ SentWith(cl, token) \in CallType
           /\ SentWith(cl, token).pc = "fetching"
           /\ SentWith(cl, token).token = token
           /\ SentWith(cl, token).rejected = cl.rejected
BY DEF SentWith, CallType

(* The renewal a group of calls waits for is their own or the one under    *)
(* way.                                                                    *)
LEMMA SharedRenewalIsOne ==
    ASSUME ClientInv, NEW C \in SUBSET Calls, C # {}
    PROVE  /\ SharedRenewal(C) \in Calls
           /\ SharedRenewal(C) \in C \/ SharedRenewal(C) = renewing
           /\ renewing # NoCall => SharedRenewal(C) = renewing
BY DEF ClientInv, TypeOK, SharedRenewal

(* Awaiting a renewal preserves the invariant, whatever the calls of C     *)
(* have been before, if they hold no JWT newer than this.jwt.              *)
LEMMA AwaitRenewalPreserves ==
    ASSUME ClientInv, NEW C \in SUBSET Calls, C # {},
           NEW as \in [Calls -> CallType],
           \A c \in C : as[c].token <= jwt /\ as[c].rejected <= jwt,
           \A c \in C : renewal[c] = NotSent,
           AwaitRenewal(C, as), UNCHANGED server
    PROVE  ClientInv'
<1> DEFINE p == SharedRenewal(C)
<1>1. p \in Calls /\ (p \in C \/ p = renewing) /\ (renewing # NoCall => p = renewing)
  BY SharedRenewalIsOne
<1>2. renewing' = p /\ jwt' = jwt /\ issued' = issued /\ valid' = valid
  BY DEF AwaitRenewal, server
<1>3. renewal' = IF p \in C THEN [renewal EXCEPT ![p] = Sent] ELSE renewal
  BY DEF AwaitRenewal
<1>4. call' = [c \in Calls |->
                 IF c \in C THEN [as[c] EXCEPT !.pc = "renewing", !.waits_for = p]
                            ELSE call[c]]
  BY DEF AwaitRenewal
<1> HIDE DEF p
<1>5. \A c \in C : /\ call'[c] \in CallType
                   /\ call'[c].pc = "renewing"
                   /\ call'[c].waits_for = p
                   /\ call'[c].token = as[c].token
                   /\ call'[c].rejected = as[c].rejected
  <2> SUFFICES ASSUME NEW c \in C
               PROVE  /\ call'[c] \in CallType
                      /\ call'[c].pc = "renewing"
                      /\ call'[c].waits_for = p
                      /\ call'[c].token = as[c].token
                      /\ call'[c].rejected = as[c].rejected
    OBVIOUS
  <2> DEFINE cl == as[c]
  <2>1. call'[c] = [cl EXCEPT !.pc = "renewing", !.waits_for = p]
    BY <1>4
  <2>2. cl \in CallType
    OBVIOUS
  <2> HIDE DEF cl
  <2>3. /\ [cl EXCEPT !.pc = "renewing", !.waits_for = p] \in CallType
        /\ [cl EXCEPT !.pc = "renewing", !.waits_for = p].pc = "renewing"
        /\ [cl EXCEPT !.pc = "renewing", !.waits_for = p].waits_for = p
        /\ [cl EXCEPT !.pc = "renewing", !.waits_for = p].token = cl.token
        /\ [cl EXCEPT !.pc = "renewing", !.waits_for = p].rejected = cl.rejected
    BY <1>1, <2>2 DEF CallType
  <2> QED
    BY <2>1, <2>3 DEF cl
<1>6. \A c \in Calls \ C : call'[c] = call[c]
  BY <1>4
<1>7. renewal' \in [Calls -> {NotSent, Sent, Refused} \cup Tokens]
  BY <1>1, <1>3 DEF ClientInv, TypeOK
<1>8. TypeOK'
  <2>1. call' \in [Calls -> CallType]
    BY <1>4, <1>5, <1>6 DEF ClientInv, TypeOK
  <2> QED
    BY <1>1, <1>2, <1>5, <1>6, <1>7, <2>1 DEF ClientInv, TypeOK
<1>9. \A c \in Calls : renewal'[c] = renewal[c] \/ (c = p /\ renewal'[c] = Sent)
  BY <1>1, <1>3 DEF ClientInv, TypeOK
<1>10. renewal'[p] # NotSent
  BY <1>1, <1>3, NoCallAssumption DEF ClientInv, TypeOK, RenewalIsLive, NotSent, Sent
<1>11. RenewalIsLive'
  <2>1. \A c \in Calls : call[c].pc = "renewing" => call[c].waits_for = p
    BY <1>1 DEF ClientInv, RenewalIsLive
  <2> QED
    BY <1>1, <1>2, <1>5, <1>6, <1>10, <2>1, NoCallAssumption DEF RenewalIsLive
<1>12. RetriesWithNewerJwt'
  BY <1>5, <1>6 DEF ClientInv, RetriesWithNewerJwt
<1>13. Fresh'
  <2>1. \A c \in Calls : renewal'[c] # NotSent => c = p
    BY <1>1, <1>9, NoCallAssumption DEF ClientInv, Fresh, TypeOK, RenewalIsLive
  <2>3. call'[p].pc = "renewing"
    <3>1. CASE p \in C
      BY <3>1, <1>5
    <3>2. CASE p \notin C
      BY <3>2, <1>1, <1>3, <1>6, <1>10 DEF ClientInv, Fresh
    <3> QED
      BY <3>1, <3>2
  <2>2. \A c \in Calls : renewal'[c] \in Tokens => renewal'[c] = renewal[c]
    BY <1>9 DEF Tokens, Sent
  <2> QED
    BY <1>2, <1>5, <1>6, <2>1, <2>2, <2>3 DEF ClientInv, Fresh
<1> QED
  BY <1>8, <1>11, <1>12, <1>13 DEF ClientInv

-----------------------------------------------------------------------------
(* The invariant holds at first, and every action preserves it. *)

LEMMA InitClientInv == Init => ClientInv
<1> SUFFICES ASSUME Init PROVE ClientInv
  OBVIOUS
<1>1. NewCall("idle") \in CallType
  BY DEF NewCall, CallType
<1>2. \A c \in Calls : /\ call[c] = NewCall("idle")
                       /\ renewal[c] = NotSent
  BY DEF Init
<1>3. NewCall("idle").pc = "idle" /\ NewCall("idle").token = 0
      /\ NewCall("idle").rejected = 0
  BY DEF NewCall, NoToken
<1>4. TypeOK
  BY <1>1, <1>2, <1>3, TokensBound DEF Init, TypeOK
<1>5. RenewalIsLive /\ RetriesWithNewerJwt
  BY <1>2, <1>3 DEF Init, RenewalIsLive, RetriesWithNewerJwt
<1>6. Fresh
  BY <1>2, <1>3 DEF Init, Fresh, NotSent, NoToken, Tokens
<1> QED
  BY <1>4, <1>5, <1>6 DEF ClientInv

LEMMA StartPreserves ==
    ASSUME ClientInv, NEW C \in SUBSET Calls, C # {}, Start(C)
    PROVE  ClientInv'
<1>1. NewCall("idle") \in CallType /\ NewCall("idle").token = 0
      /\ NewCall("idle").rejected = 0
  BY DEF NewCall, CallType, NoToken
<1>2. CASE jwt = NoToken
  <2>1. AwaitRenewal(C, Afresh(C)) /\ UNCHANGED server
    BY <1>2 DEF Start
  <2>2. Afresh(C) \in [Calls -> CallType]
    BY <1>1 DEF Afresh, ClientInv, TypeOK
  <2>3. \A c \in C : Afresh(C)[c].token <= jwt /\ Afresh(C)[c].rejected <= jwt
    BY <1>1, <1>2 DEF Afresh, NoToken
  <2>4. \A c \in C : renewal[c] = NotSent
    BY DEF Start, Ended, ClientInv, Fresh
  <2> QED
    BY <2>1, <2>2, <2>3, <2>4, AwaitRenewalPreserves
<1>3. CASE jwt # NoToken
  <2>1. jwt \in Tokens
    BY <1>3 DEF ClientInv, TypeOK
  <2> DEFINE sent == SentWith(NewCall("idle"), jwt)
  <2>2. sent \in CallType /\ sent.pc = "fetching" /\ sent.token = jwt
        /\ sent.rejected = 0
    BY <1>1, <2>1, SentWithType
  <2>3. call' = [c \in Calls |-> IF c \in C THEN sent ELSE call[c]]
        /\ UNCHANGED <<jwt, renewing, renewal, issued, valid>>
    BY <1>3 DEF Start, SendAll, server
  <2> HIDE DEF sent
  <2>4. TypeOK'
    BY <2>1, <2>2, <2>3 DEF ClientInv, TypeOK
  <2>5. RenewalIsLive'
    BY <2>2, <2>3 DEF ClientInv, RenewalIsLive
  <2>6. RetriesWithNewerJwt'
    BY <2>2, <2>3 DEF ClientInv, RetriesWithNewerJwt, NoToken
  <2>7. Fresh'
    <3>1. \A c \in C : renewal[c] = NotSent
      BY DEF Start, Ended, ClientInv, Fresh
    <3> QED
      BY <3>1, <2>1, <2>2, <2>3 DEF ClientInv, Fresh, TypeOK, Tokens
  <2> QED
    BY <2>4, <2>5, <2>6, <2>7 DEF ClientInv
<1> QED
  BY <1>2, <1>3

LEMMA RetryPreserves ==
    ASSUME ClientInv, NEW c \in Calls, Retry(c)
    PROVE  ClientInv'
<1> DEFINE as == [call EXCEPT ![c].rejected = call[c].token]
<1>1. AwaitRenewal({c}, as) /\ UNCHANGED server /\ call[c].pc = "fetching"
  BY DEF Retry
<1>2. as \in [Calls -> CallType]
  BY DEF ClientInv, TypeOK, CallType
<1>3. as[c].token = call[c].token /\ as[c].rejected = call[c].token
  BY DEF ClientInv, TypeOK, CallType
<1>4. as[c].token <= jwt /\ as[c].rejected <= jwt
  BY <1>3 DEF ClientInv, Fresh
<1>5. renewal[c] = NotSent
  BY <1>1 DEF ClientInv, Fresh
<1> HIDE DEF as
<1> QED
  BY <1>1, <1>2, <1>4, <1>5, AwaitRenewalPreserves

LEMMA FinishPreserves ==
    ASSUME ClientInv, NEW c \in Calls, Finish(c)
    PROVE  ClientInv'
<1>1. PICK pc \in {"returned", "threw"} :
         /\ call' = [call EXCEPT ![c] = NewCall(pc)]
         /\ UNCHANGED <<jwt, renewing, renewal, issued, valid>>
  BY DEF Finish, server
<1>2. NewCall(pc) \in CallType /\ NewCall(pc).pc = pc
      /\ NewCall(pc).token = 0 /\ NewCall(pc).rejected = 0
  BY NewCallType DEF NoToken
<1>3. TypeOK'
  BY <1>1, <1>2 DEF ClientInv, TypeOK
<1>4. RenewalIsLive' /\ RetriesWithNewerJwt'
  BY <1>1, <1>2 DEF ClientInv, TypeOK, RenewalIsLive, RetriesWithNewerJwt
<1>5. renewal[c] = NotSent
  BY DEF Finish, ClientInv, Fresh
<1>6. Fresh'
  BY <1>1, <1>2, <1>5 DEF ClientInv, TypeOK, Fresh, Tokens, NoToken
<1> QED
  BY <1>3, <1>4, <1>6 DEF ClientInv

(* The calls that wait for a renewal wait for the one that settles. *)
LEMMA SettlePreserves ==
    ASSUME ClientInv, NEW c \in Calls, Settle(c)
    PROVE  ClientInv' /\ jwt <= jwt'
<1> DEFINE answer == renewal[c]
<1>1. /\ answer # NotSent /\ answer # Sent
      /\ renewal' = [renewal EXCEPT ![c] = NotSent]
      /\ renewing' = NoCall
      /\ jwt' = IF answer = Refused THEN jwt ELSE answer
      /\ call' = [d \in Calls |->
                    IF call[d].pc = "renewing" /\ call[d].waits_for = c
                    THEN IF answer = Refused THEN NewCall("threw")
                                             ELSE SentWith(call[d], answer)
                    ELSE call[d]]
      /\ issued' = issued /\ valid' = valid
  BY DEF Settle, server
<1>2. answer = Refused \/ answer \in Tokens
  BY <1>1 DEF ClientInv, TypeOK
<1>3. c = renewing /\ \A d \in Calls : d # c => renewal[d] = NotSent
  BY <1>1 DEF ClientInv, Fresh
<1>4. \A d \in Calls : call[d].pc = "renewing" => call[d].waits_for = c
  BY <1>3 DEF ClientInv, RenewalIsLive
<1>5. \A d \in Calls : renewal'[d] = NotSent
  BY <1>1, <1>3 DEF ClientInv, TypeOK
<1>6. renewal' \in [Calls -> {NotSent, Sent, Refused} \cup Tokens]
  BY <1>1 DEF ClientInv, TypeOK
<1>7. NewCall("threw") \in CallType /\ NewCall("threw").pc = "threw"
      /\ NewCall("threw").token = 0 /\ NewCall("threw").rejected = 0
  BY DEF NewCall, CallType, NoToken
<1>8. jwt \in Tokens \cup {NoToken} /\ call \in [Calls -> CallType]
      /\ issued \in 0..MaxTokens /\ valid \subseteq 1..issued
      /\ \A d \in Calls : call[d].pc = "fetching" => call[d].token \in Tokens
  BY DEF ClientInv, TypeOK
<1>9. CASE answer = Refused
  <2>1. jwt' = jwt
    BY <1>1, <1>9
  <2>2. \A d \in Calls : call'[d] = NewCall("threw") \/
                         (call'[d] = call[d] /\ call[d].pc # "renewing")
    BY <1>1, <1>4, <1>9
  <2>3. call' \in [Calls -> CallType]
    BY <1>1, <1>7, <1>8, <1>9
  <2>4. TypeOK'
    BY <1>1, <1>6, <1>7, <1>8, <2>1, <2>2, <2>3 DEF TypeOK
  <2>5. RenewalIsLive'
    BY <1>1, <1>7, <2>2 DEF RenewalIsLive
  <2>6. RetriesWithNewerJwt'
    BY <1>7, <2>2 DEF ClientInv, RetriesWithNewerJwt
  <2>7. Fresh'
    BY <1>1, <1>5, <1>7, <1>8, <2>1, <2>2 DEF ClientInv, Fresh, Tokens, NotSent, NoToken
  <2> QED
    BY <1>8, <2>1, <2>4, <2>5, <2>6, <2>7 DEF ClientInv, Tokens, NoToken
<1>10. CASE answer \in Tokens
  <2>1. answer # Refused
    BY <1>10 DEF Tokens, Refused
  <2>2. jwt' = answer /\ jwt < answer /\ answer <= issued
    BY <1>1, <1>10, <2>1 DEF ClientInv, Fresh
  <2>3. \A d \in Calls : call[d].pc = "renewing" =>
            /\ call'[d] \in CallType
            /\ call'[d].pc = "fetching"
            /\ call'[d].token = answer
            /\ call'[d].rejected = call[d].rejected
    BY <1>1, <1>4, <1>8, <1>10, <2>1, SentWithType
  <2>4. \A d \in Calls : call[d].pc # "renewing" => call'[d] = call[d]
    BY <1>1
  <2>5. call' \in [Calls -> CallType]
    BY <1>1, <1>8, <2>3, <2>4
  <2>6. TypeOK'
    BY <1>1, <1>6, <1>8, <1>10, <2>2, <2>3, <2>4, <2>5 DEF TypeOK
  <2>7. RenewalIsLive'
    BY <1>1, <2>3, <2>4 DEF RenewalIsLive
  <2>8. \A d \in Calls : call[d].token \in Int /\ call[d].rejected \in Int
                         /\ call[d].token <= jwt /\ call[d].rejected <= jwt
    <3>1. jwt \in Int /\ \A d \in Calls : call[d].token \in Int /\ call[d].rejected \in Int
      BY <1>8, TokensBound DEF CallType, Tokens, NoToken
    <3> QED
      BY <3>1 DEF ClientInv, Fresh
  <2>9. RetriesWithNewerJwt'
    BY <1>8, <1>10, <2>2, <2>3, <2>4, <2>8
       DEF ClientInv, RetriesWithNewerJwt, Tokens, NoToken
  <2>10. Fresh'
    BY <1>1, <1>5, <1>8, <1>10, <2>2, <2>3, <2>4, <2>8
       DEF Fresh, Tokens, NotSent, NoToken
  <2> QED
    BY <1>8, <1>10, <2>2, <2>6, <2>7, <2>9, <2>10 DEF ClientInv, Tokens, NoToken
<1> QED
  BY <1>2, <1>9, <1>10

(* The call whose renewal is under way waits for it. *)
LEMMA SentIsWaitedFor ==
    ASSUME ClientInv, NEW c \in Calls, renewal[c] = Sent
    PROVE  c = renewing /\ call[c].pc = "renewing"
BY DEF ClientInv, Fresh, Sent, NotSent

LEMMA ServerPreserves ==
    ASSUME ClientInv, NEW c \in Calls,
           AnswerRequest(c) \/ IssueJwt(c) \/ RefuseJwt(c)
    PROVE  ClientInv'
<1>1. CASE AnswerRequest(c)
  <2>1. PICK answer \in {"ok", "refused", "error"} :
           /\ call' = [call EXCEPT ![c].answer = answer]
           /\ UNCHANGED <<jwt, renewing, renewal, issued, valid>>
    BY <1>1 DEF AnswerRequest, server
  <2>2. \A d \in Calls : /\ call'[d] \in CallType
                         /\ call'[d].pc = call[d].pc
                         /\ call'[d].waits_for = call[d].waits_for
                         /\ call'[d].token = call[d].token
                         /\ call'[d].rejected = call[d].rejected
    BY <2>1 DEF ClientInv, TypeOK, CallType
  <2>3. TypeOK'
    BY <2>1, <2>2 DEF ClientInv, TypeOK
  <2>4. RenewalIsLive' /\ RetriesWithNewerJwt' /\ Fresh'
    BY <2>1, <2>2 DEF ClientInv, RenewalIsLive, RetriesWithNewerJwt, Fresh
  <2> QED
    BY <2>3, <2>4 DEF ClientInv
<1>2. CASE IssueJwt(c)
  <2>1. /\ renewal[c] = Sent
        /\ issued' = issued + 1 /\ issued' \in Tokens
        /\ valid' = valid \cup {issued'}
        /\ renewal' = [renewal EXCEPT ![c] = issued']
        /\ UNCHANGED <<jwt, renewing, call>>
    BY <1>2, TokensBound DEF IssueJwt, ClientInv, TypeOK, Tokens
  <2>2. c = renewing
    BY <2>1, SentIsWaitedFor
  <2>3. TypeOK'
    BY <2>1, TokensBound DEF ClientInv, TypeOK, Tokens
  <2>4. \A d \in Calls : renewal'[d] = IF d = c THEN issued' ELSE renewal[d]
    BY <2>1 DEF ClientInv, TypeOK
  <2>5. RenewalIsLive'
    BY <2>1, <2>2, <2>4 DEF ClientInv, RenewalIsLive, Tokens, NotSent
  <2>6. RetriesWithNewerJwt'
    BY <2>1 DEF ClientInv, RetriesWithNewerJwt
  <2>7. jwt \in Int /\ issued \in Int /\ jwt <= issued
    BY DEF ClientInv, TypeOK, Fresh, Tokens, NoToken
  <2>8. Fresh'
    <3>1. \A d \in Calls : renewal'[d] # NotSent => d = renewing' /\ call'[d].pc = "renewing"
      <4>1. call'[c].pc = "renewing"
        BY <2>1, SentIsWaitedFor
      <4> QED
        BY <4>1, <2>1, <2>2, <2>4 DEF ClientInv, Fresh
    <3>2. \A d \in Calls : renewal'[d] \in Tokens => jwt' < renewal'[d] /\ renewal'[d] <= issued'
      BY <2>1, <2>4, <2>7 DEF ClientInv, Fresh, Tokens
    <3>3. jwt' <= issued' /\ \A d \in Calls : call'[d].token <= jwt' /\ call'[d].rejected <= jwt'
      BY <2>1, <2>7 DEF ClientInv, Fresh
    <3> QED
      BY <3>1, <3>2, <3>3 DEF Fresh
  <2> QED
    BY <2>3, <2>5, <2>6, <2>8 DEF ClientInv
<1>3. CASE RefuseJwt(c)
  <2>1. /\ renewal[c] = Sent
        /\ renewal' = [renewal EXCEPT ![c] = Refused]
        /\ UNCHANGED <<jwt, renewing, call, issued, valid>>
    BY <1>3 DEF RefuseJwt, server
  <2>2. \A d \in Calls : renewal'[d] = IF d = c THEN Refused ELSE renewal[d]
    BY <2>1 DEF ClientInv, TypeOK
  <2>3. TypeOK'
    BY <2>1 DEF ClientInv, TypeOK
  <2>4. RenewalIsLive' /\ RetriesWithNewerJwt'
    BY <2>1, <2>2 DEF ClientInv, RenewalIsLive, RetriesWithNewerJwt, Refused, NotSent
  <2>5. Fresh'
    BY <2>1, <2>2 DEF ClientInv, Fresh, Tokens, Refused, Sent, NotSent
  <2> QED
    BY <2>3, <2>4, <2>5 DEF ClientInv
<1> QED
  BY <1>1, <1>2, <1>3

LEMMA ExpirePreserves ==
    ASSUME ClientInv, NEW token \in valid, Expire(token)
    PROVE  ClientInv'
<1>1. valid' \subseteq valid /\ UNCHANGED <<jwt, renewing, renewal, call, issued>>
  BY DEF Expire
<1> QED
  BY <1>1 DEF ClientInv, TypeOK, RenewalIsLive, RetriesWithNewerJwt, Fresh

LEMMA ClientStepPreserves == ClientInv /\ [Next]_vars => ClientInv'
<1> SUFFICES ASSUME ClientInv, [Next]_vars PROVE ClientInv'
  OBVIOUS
<1>1. ASSUME NEW C \in (SUBSET Calls) \ {{}}, Start(C) PROVE ClientInv'
  BY <1>1, StartPreserves
<1>2. ASSUME NEW c \in Calls, Retry(c) PROVE ClientInv'
  BY <1>2, RetryPreserves
<1>3. ASSUME NEW c \in Calls, Finish(c) PROVE ClientInv'
  BY <1>3, FinishPreserves
<1>4. ASSUME NEW c \in Calls, Settle(c) PROVE ClientInv'
  BY <1>4, SettlePreserves
<1>5. ASSUME NEW c \in Calls, AnswerRequest(c) \/ IssueJwt(c) \/ RefuseJwt(c)
      PROVE  ClientInv'
  BY <1>5, ServerPreserves
<1>6. ASSUME NEW token \in valid, Expire(token) PROVE ClientInv'
  BY <1>6, ExpirePreserves
<1>7. ASSUME UNCHANGED vars PROVE ClientInv'
  BY <1>7 DEF vars, ClientInv, TypeOK, RenewalIsLive, RetriesWithNewerJwt, Fresh
<1> QED
  BY <1>1, <1>2, <1>3, <1>4, <1>5, <1>6, <1>7 DEF Next

(* A step that changes this.jwt is one of Settle, and brings a newer one. *)
LEMMA JwtStep == ClientInv /\ [Next]_vars => jwt' >= jwt
<1> SUFFICES ASSUME ClientInv, [Next]_vars PROVE jwt' >= jwt
  OBVIOUS
<1>1. jwt \in Int
  BY DEF ClientInv, TypeOK, Tokens, NoToken
<1>2. ASSUME NEW c \in Calls, Settle(c) PROVE jwt' >= jwt
  <2>1. jwt <= jwt' /\ ClientInv'
    BY <1>2, SettlePreserves
  <2>2. jwt' \in Int
    BY <2>1 DEF ClientInv, TypeOK, Tokens, NoToken
  <2> QED
    BY <1>1, <2>1, <2>2
<1>3. ASSUME ~ \E c \in Calls : Settle(c) PROVE jwt' = jwt
  BY <1>3 DEF Next, vars, Start, SendAll, AwaitRenewal, Retry, Finish, AnswerRequest,
              IssueJwt, RefuseJwt, Expire
<1> QED
  BY <1>1, <1>2, <1>3

-----------------------------------------------------------------------------
(* The theorems, for any number of calls and JWTs. *)

LEMMA ClientInvariant == Spec => []ClientInv
<1> QED
  BY InitClientInv, ClientStepPreserves, PTL DEF Spec

(* The client's fields hold values of their types, and no request is sent  *)
(* without a JWT.                                                          *)
THEOREM ClientTypeCorrect == Spec => []TypeOK
<1>1. ClientInv => TypeOK
  BY DEF ClientInv
<1> QED
  BY <1>1, ClientInvariant, PTL

(* renewing never holds a promise that has settled, and whoever waits for  *)
(* a renewal waits for the one it holds.                                   *)
THEOREM RenewalAlwaysLive == Spec => []RenewalIsLive
<1>1. ClientInv => RenewalIsLive
  BY DEF ClientInv
<1> QED
  BY <1>1, ClientInvariant, PTL

(* A retry never uses the JWT that was refused, nor an older one. *)
THEOREM RetriesAlwaysNewer == Spec => []RetriesWithNewerJwt
<1>1. ClientInv => RetriesWithNewerJwt
  BY DEF ClientInv
<1> QED
  BY <1>1, ClientInvariant, PTL

(* this.jwt is never replaced by an older JWT. *)
THEOREM JwtAlwaysForward == Spec => JwtNeverGoesBack
<1>1. ClientInv /\ [Next]_vars => [jwt' >= jwt]_vars
  BY JwtStep
<1> QED
  BY <1>1, ClientInvariant, PTL DEF Spec, JwtNeverGoesBack

-----------------------------------------------------------------------------
(* The fixtures cache and the pages *)

(* What NamesOrReason rests on: the load that is kept has not failed, a    *)
(* page waits for no other and only as long as it is pending, and no page  *)
(* is no page that waits.                                                  *)
LoadType == {"pending", "fulfilled", "rejected"}
NamesType == [shown : BOOLEAN, waits : SUBSET Loads, told : BOOLEAN]

KeptLoad ==
    /\ fixturesPromise \in Loads \cup {NoLoad}
    /\ load \in [Loads -> LoadType]
    /\ names \in NamesType
    /\ fixturesPromise # NoLoad => load[fixturesPromise] # "rejected"
    /\ \A l \in names.waits : l = fixturesPromise /\ load[l] = "pending"

HasReason(known) == known.shown \/ known.waits # {} \/ known.told

NamesInv ==
    /\ KeptLoad
    /\ page # NoPage => HasReason(names)

-----------------------------------------------------------------------------
(* A page that asks for the names gets them, waits for a load the client   *)
(* lets it start, or waits for the one that is kept.                       *)
LEMMA AskingIsAClientStep ==
    ASSUME NEW known, getFixtures(known)
    PROVE  [Next]_vars
<1>1. CASE UNCHANGED vars
  BY <1>1
<1>2. CASE \E l \in Loads : Start(CallsOf[l])
  <2>1. PICK l \in Loads : Start(CallsOf[l])
    BY <1>2
  <2>2. CallsOf[l] \in (SUBSET Calls) \ {{}}
    BY LoadsAssumption
  <2> QED
    BY <2>1, <2>2 DEF Next
<1> QED
  BY <1>1, <1>2 DEF getFixtures

LEMMA AskingKeepsLoad ==
    ASSUME KeptLoad, NEW known \in NamesType, known.waits \subseteq names.waits,
           getFixtures(known)
    PROVE  KeptLoad' /\ HasReason(names')
<1>1. CASE fixturesPromise # NoLoad
  <2>1. /\ fixturesPromise \in Loads
        /\ load[fixturesPromise] \in {"pending", "fulfilled"}
        /\ fixturesPromise' = fixturesPromise /\ load' = load
    BY <1>1 DEF getFixtures, KeptLoad, LoadType
  <2>2. CASE load[fixturesPromise] = "fulfilled"
    <3>1. names' = [known EXCEPT !.shown = TRUE]
      BY <1>1, <2>2 DEF getFixtures
    <3>2. names' \in NamesType /\ names'.waits = known.waits /\ names'.shown
      BY <3>1 DEF NamesType
    <3> QED
      BY <2>1, <3>2 DEF KeptLoad, HasReason
  <2>3. CASE load[fixturesPromise] = "pending"
    <3>1. names' = [known EXCEPT !.waits = @ \cup {fixturesPromise}]
      BY <1>1, <2>3 DEF getFixtures
    <3>2. names' \in NamesType /\ names'.waits = known.waits \cup {fixturesPromise}
      BY <2>1, <3>1 DEF NamesType
    <3> QED
      BY <2>1, <2>3, <3>2 DEF KeptLoad, HasReason
  <2> QED
    BY <2>1, <2>2, <2>3
<1>2. CASE fixturesPromise = NoLoad
  <2>1. PICK l \in Loads :
           /\ fixturesPromise' = l
           /\ load' = [load EXCEPT ![l] = "pending"]
           /\ names' = [known EXCEPT !.waits = @ \cup {l}]
    BY <1>2 DEF getFixtures
  <2>2. known.waits = {}
    BY <1>2, NoneAssumption DEF KeptLoad, NamesType
  <2>3. names' \in NamesType /\ names'.waits = {l}
    BY <2>1, <2>2 DEF NamesType
  <2>4. load' \in [Loads -> LoadType] /\ load'[l] = "pending"
    BY <2>1 DEF KeptLoad, LoadType
  <2> QED
    BY <2>1, <2>3, <2>4 DEF KeptLoad, HasReason
<1> QED
  BY <1>1, <1>2

(* When promises settle, a page that waited for one of them is told of it. *)
LEMMA SettlingKeepsLoad ==
    ASSUME KeptLoad, PromisesSettle
    PROVE  KeptLoad' /\ (HasReason(names) => HasReason(names'))
<1>1. load' \in [Loads -> LoadType]
  BY DEF PromisesSettle, AllOf, KeptLoad, LoadType
<1>2. fixturesPromise' = Kept(load') /\ names' = Hears(load')
  BY DEF PromisesSettle
<1>3. /\ fixturesPromise' \in Loads \cup {NoLoad}
      /\ fixturesPromise' # NoLoad => load'[fixturesPromise'] # "rejected"
  BY <1>2 DEF Kept, KeptLoad
<1>4. names' \in NamesType
  BY <1>1, <1>2 DEF Hears, KeptLoad, NamesType
<1>5. \A l \in names'.waits : l \in names.waits /\ load'[l] = "pending"
  BY <1>2 DEF Hears
<1>6. \A l \in names'.waits : l = fixturesPromise'
  BY <1>2, <1>5, NoneAssumption DEF Kept, KeptLoad, NamesType
<1>7. ASSUME HasReason(names) PROVE HasReason(names')
  <2>1. CASE names.shown \/ names.told
    BY <1>2, <2>1 DEF Hears, HasReason
  <2>2. CASE names.waits # {}
    <3>1. PICK l \in names.waits : TRUE
      BY <2>2
    <3>2. l \in Loads /\ load'[l] \in LoadType
      BY <1>1, <3>1 DEF KeptLoad, NamesType
    <3> QED
      BY <1>2, <3>1, <3>2 DEF Hears, HasReason, LoadType
  <2> QED
    BY <1>7, <2>1, <2>2 DEF HasReason
<1> QED
  BY <1>1, <1>3, <1>4, <1>5, <1>6, <1>7 DEF KeptLoad

-----------------------------------------------------------------------------
(* The pages and the client *)

LEMMA FixturesStepIsAClientStep == [FixturesNext]_fixturesVars => [Next]_vars
<1> SUFFICES ASSUME [FixturesNext]_fixturesVars PROVE [Next]_vars
  OBVIOUS
<1>1. CASE ClientStep \/ AnswerStep \/ ExpireStep
  BY <1>1 DEF ClientStep, AnswerStep, ExpireStep, Next
<1>2. CASE \E known : getFixtures(known)
  BY <1>2, AskingIsAClientStep
<1>3. CASE MarketsArrive \/ Leave \/ UNCHANGED fixturesVars
  BY <1>3 DEF MarketsArrive, Leave, fixturesVars
<1> QED
  BY <1>1, <1>2, <1>3
     DEF FixturesNext, OpenList, RetryList, OpenMarket, AskAgain

(* Whatever the pages do, the calls they make are calls of the client, in  *)
(* an order the client allows: what is proved of TxLineClient holds in the *)
(* app, whose pages share one client.                                      *)
THEOREM PagesUseTheClient == FixturesSpec => Spec
<1>1. FixturesInit => Init
  BY DEF FixturesInit
<1> QED
  BY <1>1, FixturesStepIsAClientStep, PTL DEF FixturesSpec, Spec

(* In the app, too, a retry never uses the JWT that was refused, and       *)
(* renewing never holds a promise that has settled.                        *)
THEOREM PagesRenewOnce == FixturesSpec => [](RetriesWithNewerJwt /\ RenewalIsLive)
<1>1. ClientInv => RetriesWithNewerJwt /\ RenewalIsLive
  BY DEF ClientInv
<1> QED
  BY <1>1, PagesUseTheClient, ClientInvariant, PTL

-----------------------------------------------------------------------------
(* The names *)

LEMMA InitNamesInv == FixturesInit => NamesInv
BY NoneAssumption DEF FixturesInit, NamesInv, KeptLoad, LoadType, NamesType, Opened

LEMMA FixturesStepPreserves == NamesInv /\ [FixturesNext]_fixturesVars => NamesInv'
<1> SUFFICES ASSUME NamesInv, [FixturesNext]_fixturesVars PROVE NamesInv'
  OBVIOUS
<1>1. Opened \in NamesType /\ Opened.waits = {}
  BY DEF Opened, NamesType
<1>2. names \in NamesType
  BY DEF NamesInv, KeptLoad
<1>3. CASE ClientStep
  <2>1. PromisesSettle /\ page' = page
    BY <1>3 DEF ClientStep
  <2> QED
    BY <2>1, SettlingKeepsLoad DEF NamesInv
<1>4. CASE getFixtures(Opened) \/ getFixtures(names)
  BY <1>1, <1>2, <1>4, AskingKeepsLoad DEF NamesInv
<1>5. CASE AnswerStep \/ ExpireStep \/ MarketsArrive \/ UNCHANGED fixturesVars
  <2>1. UNCHANGED <<fixturesPromise, load, names, page>>
    BY <1>5 DEF AnswerStep, ExpireStep, MarketsArrive, fixtures, fixturesVars
  <2> QED
    BY <2>1 DEF NamesInv, KeptLoad, HasReason
<1>6. CASE Leave
  BY <1>1, <1>6 DEF Leave, NamesInv, KeptLoad
<1> QED
  BY <1>3, <1>4, <1>5, <1>6
     DEF FixturesNext, OpenList, RetryList, OpenMarket, AskAgain

(* A page never waits for a load that was given up, and shows bare ids     *)
(* only after it has been told of a failure since it was opened.           *)
THEOREM NamesAlwaysOrReason == FixturesSpec => []NamesOrReason
<1>1. NamesInv => NamesOrReason
  BY DEF NamesInv, KeptLoad, HasReason, NamesOrReason
<1> QED
  BY <1>1, InitNamesInv, FixturesStepPreserves, PTL DEF FixturesSpec
=============================================================================
