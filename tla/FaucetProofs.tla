---------------------------- MODULE FaucetProofs ----------------------------
(***************************************************************************)
(* Proofs about Faucet, for any number of requests, wallets, IPs, retries  *)
(* and restarts, and every cooldown and size of the map.                   *)
(*                                                                         *)
(* The map is exact at every moment and not only within a cooldown of the  *)
(* last request: a tick of the clock makes the same drips old on record    *)
(* and among the answers.  What is filtered or pruned was old, and stays   *)
(* so.                                                                     *)
(***************************************************************************)
EXTENDS Faucet, FiniteSetTheorems, TLAPS

(* What this instance has handed out for a key of the map.                 *)
ServedFor(key) ==
    {s \in served : key \in KeysOf(s.request)}

(* The answers 200 are finitely many, none is of the future, and their     *)
(* requests are done with: nothing changes any more whom they named.       *)
ServedAreDone ==
    /\ IsFiniteSet(served)
    /\ \A s \in served :
          /\ s.request \in Requests /\ s.at \in 0..now
          /\ request[s.request].pc = "served"

MapIsExact == \A key \in Keys : Live(DripsOf(drips, key)) = Live(ServedFor(key))

(* Whoever waits for a back-off to end has an attempt left.                 *)
RetriesLeft == \A r \in Requests : request[r].pc = "backoff" => request[r].attempt < RETRIES

FaucetInv == TypeOK /\ ServedAreDone /\ MapIsExact /\ RetriesLeft

-----------------------------------------------------------------------------
(* Keys *)

(* A wallet and an IP never share an entry.                                 *)
LEMMA KeysDiffer ==
    /\ \A w, i : WalletKey(w) # IpKey(i)
    /\ \A v, w : WalletKey(v) = WalletKey(w) => v = w
    /\ \A i, j : IpKey(i) = IpKey(j) => i = j
    BY DEF WalletKey, IpKey

LEMMA RequestShape ==
    ASSUME NEW q \in {Idle} \cup Refusals \cup Attempts
    PROVE  /\ q.pc = "idle" <=> q = Idle
           /\ q.pc = "refused" <=> q \in Refusals
           /\ q.pc \notin {"idle", "refused"} <=> q \in Attempts
    BY DEF Idle, Refusals, Attempts

LEMMA AttemptKeys ==
    ASSUME TypeOK, NEW r \in Requests, request[r].pc \notin {"idle", "refused"}
    PROVE  /\ request[r] \in Attempts
           /\ KeysOf(r) \subseteq Keys
<1>1. request[r] \in Attempts
    BY RequestShape DEF TypeOK
<1>2. request[r].wallet \in Wallets /\ request[r].ip \in Ips
    BY <1>1 DEF Attempts
<1>. QED
    BY <1>1, <1>2 DEF KeysOf, Keys

-----------------------------------------------------------------------------
(* The map *)

(* Pruning drops entries whose drips are all old, and nothing else.         *)
LEMMA PrunedKeepsLive ==
    ASSUME NEW map
    PROVE  /\ DOMAIN Pruned(map) \subseteq DOMAIN map
           /\ \A key \in DOMAIN Pruned(map) : Pruned(map)[key] = map[key]
           /\ \A key : Live(DripsOf(Pruned(map), key)) = Live(DripsOf(map, key))
<1>1. CASE Cardinality(DOMAIN map) > PRUNE_ABOVE
  <2>1. Pruned(map) = [key \in {k \in DOMAIN map : Live(map[k]) # {}} |-> map[key]]
    BY <1>1 DEF Pruned
  <2>2. /\ DOMAIN Pruned(map) = {k \in DOMAIN map : Live(map[k]) # {}}
        /\ \A key \in DOMAIN Pruned(map) : Pruned(map)[key] = map[key]
    BY <2>1
  <2>3. Live({}) = {}
    BY DEF Live
  <2>4. ASSUME NEW key PROVE Live(DripsOf(Pruned(map), key)) = Live(DripsOf(map, key))
    BY <2>2, <2>3 DEF DripsOf
  <2>. QED
    BY <2>2, <2>4
<1>2. CASE ~(Cardinality(DOMAIN map) > PRUNE_ABOVE)
    BY <1>2 DEF Pruned
<1>. QED
    BY <1>1, <1>2

LEMMA LiveFilters ==
    /\ \A E : Live(Live(E)) = Live(E)
    /\ \A E : Live(E) \subseteq E
    /\ \A E, F : Live(E \cup F) = Live(E) \cup Live(F)
    BY DEF Live

LEMMA DripIsLive ==
    ASSUME now \in Nat, NEW r
    PROVE  /\ Drip(r).request = r /\ Drip(r).at = now
           /\ Live({Drip(r)}) = {Drip(r)}
<1>1. Drip(r).at = now /\ Drip(r).request = r
    BY DEF Drip
<1>2. now > now - COOLDOWN_MS
    BY BoundsAssumption
<1>. QED
    BY <1>1, <1>2 DEF Live, IsLive

(* recordDrip adds the drip to its keys, and leaves the live drips of every *)
(* other key as they were.                                                  *)
LEMMA RecordAdds ==
    ASSUME now \in Nat, NEW map, NEW keys, NEW r
    PROVE  /\ DOMAIN recordDrip(map, keys, r) \subseteq DOMAIN map \cup keys
           /\ \A key \in DOMAIN recordDrip(map, keys, r) :
                 \/ key \in keys
                 \/ key \in DOMAIN map /\ recordDrip(map, keys, r)[key] = map[key]
           /\ \A key \in keys :
                 /\ key \in DOMAIN recordDrip(map, keys, r)
                 /\ recordDrip(map, keys, r)[key] = Live(DripsOf(map, key)) \cup {Drip(r)}
           /\ \A key :
                 Live(DripsOf(recordDrip(map, keys, r), key)) =
                    IF key \in keys THEN Live(DripsOf(map, key)) \cup {Drip(r)}
                                    ELSE Live(DripsOf(map, key))
<1>. DEFINE pruned == Pruned(map)
<1>. DEFINE new == recordDrip(map, keys, r)
<1>1. new = [key \in DOMAIN pruned \cup keys |->
                IF key \in keys THEN Live(DripsOf(pruned, key)) \cup {Drip(r)}
                                ELSE pruned[key]]
    BY DEF recordDrip
<1>2. /\ DOMAIN pruned \subseteq DOMAIN map
      /\ \A key \in DOMAIN pruned : pruned[key] = map[key]
      /\ \A key : Live(DripsOf(pruned, key)) = Live(DripsOf(map, key))
    BY PrunedKeepsLive
<1>. HIDE DEF pruned
<1>3. /\ DOMAIN new = DOMAIN pruned \cup keys
      /\ \A key \in keys : new[key] = Live(DripsOf(pruned, key)) \cup {Drip(r)}
      /\ \A key \in DOMAIN pruned \ keys : new[key] = pruned[key]
    BY <1>1
<1>. HIDE DEF new
<1>4. ASSUME NEW key
      PROVE  Live(DripsOf(new, key)) =
                IF key \in keys THEN Live(DripsOf(map, key)) \cup {Drip(r)}
                                ELSE Live(DripsOf(map, key))
  <2>1. CASE key \in keys
    <3>1. DripsOf(new, key) = Live(DripsOf(map, key)) \cup {Drip(r)}
        BY <1>2, <1>3, <2>1 DEF DripsOf
    <3>2. Live(DripsOf(new, key)) = Live(Live(DripsOf(map, key))) \cup Live({Drip(r)})
        BY <3>1, LiveFilters
    <3>3. Live(DripsOf(new, key)) = Live(DripsOf(map, key)) \cup {Drip(r)}
        BY <3>2, LiveFilters, DripIsLive
    <3>. QED
        BY <2>1, <3>3
  <2>2. CASE key \notin keys
    <3>1. DripsOf(new, key) = DripsOf(pruned, key)
        BY <1>3, <2>2 DEF DripsOf
    <3>. QED
        BY <1>2, <2>2, <3>1
  <2>. QED
    BY <2>1, <2>2
<1>5. \A key \in DOMAIN new : key \in keys \/ (key \in DOMAIN map /\ new[key] = map[key])
    BY <1>2, <1>3
<1>6. DOMAIN new \subseteq DOMAIN map \cup keys
    BY <1>2, <1>3
<1>7. \A key \in keys :
         key \in DOMAIN new /\ new[key] = Live(DripsOf(map, key)) \cup {Drip(r)}
    BY <1>2, <1>3
<1>. QED
    BY <1>4, <1>5, <1>6, <1>7 DEF new
-----------------------------------------------------------------------------
(* The handler *)

LEMMA AttemptMoves ==
    ASSUME NEW q \in Attempts, NEW step \in {"sending", "backoff", "served", "failed", "lost"}
    PROVE  /\ [q EXCEPT !.pc = step] \in Attempts
           /\ [q EXCEPT !.pc = step].pc = step
           /\ [q EXCEPT !.pc = step].wallet = q.wallet
           /\ [q EXCEPT !.pc = step].ip = q.ip
           /\ [q EXCEPT !.pc = step].attempt = q.attempt
    BY DEF Attempts

(* A step that leaves the clock, the map and the answers alone, and with    *)
(* them the requests that have been served.                                 *)
LEMMA QuietStep ==
    ASSUME FaucetInv, UNCHANGED <<now, drips, served>>, RetriesLeft',
           request' \in [Requests -> {Idle} \cup Refusals \cup Attempts],
           \A r \in Requests : request[r].pc = "served" => request'[r] = request[r]
    PROVE  FaucetInv'
<1>1. TypeOK'
    BY DEF FaucetInv, TypeOK
<1>2. ServedAreDone'
    BY DEF FaucetInv, ServedAreDone
<1>3. \A s \in served : KeysOf(s.request)' = KeysOf(s.request)
    BY DEF FaucetInv, ServedAreDone, KeysOf
<1>4. \A key : ServedFor(key)' = ServedFor(key)
    BY <1>3 DEF ServedFor
<1>5. MapIsExact'
    BY <1>4 DEF FaucetInv, MapIsExact, Live, IsLive, DripsOf
<1>. QED
    BY <1>1, <1>2, <1>5 DEF FaucetInv

(* One request moves on, and the others stay where they are.                *)
LEMMA OneMoves ==
    ASSUME FaucetInv, NEW r \in Requests, NEW q \in Refusals \cup Attempts,
           request' = [request EXCEPT ![r] = q],
           q.pc = "backoff" => q.attempt < RETRIES
    PROVE  /\ request' \in [Requests -> {Idle} \cup Refusals \cup Attempts]
           /\ request'[r] = q
           /\ \A p \in Requests : p # r => request'[p] = request[p]
           /\ RetriesLeft'
<1>1. request \in [Requests -> {Idle} \cup Refusals \cup Attempts]
    BY DEF FaucetInv, TypeOK
<1>2. /\ request' \in [Requests -> {Idle} \cup Refusals \cup Attempts]
      /\ request'[r] = q
      /\ \A p \in Requests : p # r => request'[p] = request[p]
    BY <1>1
<1>3. RetriesLeft'
    BY <1>2 DEF FaucetInv, RetriesLeft
<1>. QED
    BY <1>2, <1>3

LEMMA ArriveKeeps ==
    ASSUME FaucetInv, NEW r \in Requests, NEW w \in Wallets, NEW i \in Ips, Arrive(r, w, i)
    PROVE  FaucetInv'
<1>1. [pc |-> "refused", wallet |-> w, ip |-> i] \in Refusals
    BY DEF Refusals
<1>2. [pc |-> "sending", wallet |-> w, ip |-> i, attempt |-> 0] \in Attempts
    BY BoundsAssumption DEF Attempts
<1>3. PICK q \in Refusals \cup Attempts :
          request' = [request EXCEPT ![r] = q] /\ q.pc # "backoff"
    BY <1>1, <1>2 DEF Arrive
<1>. QED
    BY <1>3, OneMoves, QuietStep DEF Arrive

LEMMA FailKeeps ==
    ASSUME FaucetInv, NEW r \in Requests, Fail(r)
    PROVE  FaucetInv'
<1>1. request[r] \in Attempts
    BY AttemptKeys DEF Fail, FaucetInv
<1>2. PICK step \in {"backoff", "failed"} :
          /\ request' = [request EXCEPT ![r] = [request[r] EXCEPT !.pc = step]]
          /\ step = "backoff" => request[r].attempt < RETRIES
    BY DEF Fail
<1>. DEFINE q == [request[r] EXCEPT !.pc = step]
<1>3. q \in Attempts /\ q.pc = step /\ q.attempt = request[r].attempt
  <2>1. step \in {"sending", "backoff", "served", "failed", "lost"}
    OBVIOUS
  <2>2. request[r] \in Attempts => q \in Attempts /\ q.pc = step /\ q.attempt = request[r].attempt
    BY <2>1, AttemptMoves
  <2>. QED
    BY <1>1, <2>2
<1>. HIDE DEF q
<1>. QED
    BY <1>2, <1>3, OneMoves, QuietStep DEF Fail, q

LEMMA ResendKeeps ==
    ASSUME FaucetInv, NEW r \in Requests, Resend(r)
    PROVE  FaucetInv'
<1>1. request[r] \in Attempts
    BY AttemptKeys DEF Resend, FaucetInv
<1>. DEFINE next == request[r].attempt + 1
<1>. DEFINE q == [request[r] EXCEPT !.pc = "sending", !.attempt = next]
<1>2. next \in 0..RETRIES
  <2>1. request[r].attempt \in 0..RETRIES
    BY <1>1 DEF Attempts
  <2>. QED
    BY <2>1, BoundsAssumption DEF Resend, FaucetInv, RetriesLeft
<1>3. request' = [request EXCEPT ![r] = q]
    BY DEF Resend
<1>. HIDE DEF next
<1>4. q \in Attempts /\ q.pc = "sending"
    BY <1>1, <1>2 DEF Attempts
<1>. HIDE DEF q
<1>. QED
    BY <1>3, <1>4, OneMoves, QuietStep DEF Resend

LEMMA ConfirmKeeps ==
    ASSUME FaucetInv, NEW r \in Requests, Confirm(r)
    PROVE  FaucetInv'
<1>2. request[r] \in Attempts /\ KeysOf(r) \subseteq Keys
    BY AttemptKeys DEF Confirm, FaucetInv
<1>. DEFINE q == [request[r] EXCEPT !.pc = "served"]
<1>3. q \in Attempts /\ q.pc = "served" /\ q.wallet = request[r].wallet /\ q.ip = request[r].ip
    BY <1>2, AttemptMoves
<1>4. request' = [request EXCEPT ![r] = q]
    BY DEF Confirm
<1>. HIDE DEF q
<1>5. /\ request' \in [Requests -> {Idle} \cup Refusals \cup Attempts]
      /\ request'[r] = q
      /\ \A p \in Requests : p # r => request'[p] = request[p]
      /\ RetriesLeft'
    BY <1>3, <1>4, OneMoves
<1>6. now' = now /\ now \in Nat /\ served' = served \cup {Drip(r)}
    BY DEF Confirm, FaucetInv, TypeOK
<1>7. drips' = recordDrip(drips, KeysOf(r), r)
    BY DEF Confirm, KeysOf
<1>8. Drip(r).request = r /\ Drip(r).at = now
    BY <1>6, DripIsLive
<1>9. TypeOK'
  <2>1. DOMAIN drips' \subseteq Keys
    BY <1>2, <1>6, <1>7, RecordAdds DEF FaucetInv, TypeOK
  <2>2. ASSUME NEW key \in DOMAIN drips'
        PROVE  /\ drips'[key] # {}
               /\ \A drip \in drips'[key] : drip.request \in Requests /\ drip.at \in 0..now
    <3>1. CASE key \in KeysOf(r)
      <4>1. drips'[key] = Live(DripsOf(drips, key)) \cup {Drip(r)}
        BY <1>6, <1>7, <3>1, RecordAdds
      <4>2. \A drip \in Live(DripsOf(drips, key)) : drip.request \in Requests /\ drip.at \in 0..now
        BY LiveFilters DEF DripsOf, FaucetInv, TypeOK
      <4>. QED
        BY <1>6, <1>8, <4>1, <4>2
    <3>2. CASE key \notin KeysOf(r)
        BY <1>6, <1>7, <2>2, <3>2, RecordAdds DEF FaucetInv, TypeOK
    <3>. QED
        BY <3>1, <3>2
  <2>. QED
    BY <1>5, <1>6, <2>1, <2>2 DEF TypeOK
<1>10. ServedAreDone'
  <2>1. IsFiniteSet(served')
    BY <1>6, FS_AddElement DEF FaucetInv, ServedAreDone
  <2>. QED
    BY <1>3, <1>5, <1>6, <1>8, <2>1 DEF FaucetInv, ServedAreDone
<1>11. KeysOf(r)' = KeysOf(r)
    BY <1>3, <1>5 DEF KeysOf
<1>12. \A s \in served : KeysOf(s.request)' = KeysOf(s.request) /\ s.request # r
  <2>1. \A s \in served : s.request \in Requests /\ s.request # r
    BY DEF FaucetInv, ServedAreDone, Confirm
  <2>. QED
    BY <1>5, <2>1 DEF KeysOf
<1>13. ASSUME NEW key
       PROVE  ServedFor(key)' = IF key \in KeysOf(r) THEN ServedFor(key) \cup {Drip(r)}
                                                    ELSE ServedFor(key)
    BY <1>6, <1>8, <1>11, <1>12 DEF ServedFor
<1>14. ASSUME NEW key \in Keys PROVE Live(DripsOf(drips', key)) = Live(ServedFor(key)')
  <2>1. Live(DripsOf(drips, key)) = Live(ServedFor(key))
    BY DEF FaucetInv, MapIsExact
  <2>2. CASE key \in KeysOf(r)
    <3>1. Live(DripsOf(drips', key)) = Live(ServedFor(key)) \cup {Drip(r)}
        BY <1>6, <1>7, <2>1, <2>2, RecordAdds
    <3>2. Live(ServedFor(key)') = Live(ServedFor(key)) \cup Live({Drip(r)})
        BY <1>13, <2>2, LiveFilters
    <3>. QED
        BY <1>6, <3>1, <3>2, DripIsLive
  <2>3. CASE key \notin KeysOf(r)
    <3>1. Live(DripsOf(drips', key)) = Live(ServedFor(key))
        BY <1>6, <1>7, <2>1, <2>3, RecordAdds
    <3>. QED
        BY <1>13, <2>3, <3>1
  <2>. QED
    BY <2>2, <2>3
<1>15. MapIsExact'
    BY <1>6, <1>14 DEF MapIsExact, Live, IsLive, DripsOf
<1>. QED
    BY <1>5, <1>9, <1>10, <1>15 DEF FaucetInv

(* Tick: what has grown too old has done so on both sides.                  *)
LEMMA TickKeeps ==
    ASSUME FaucetInv, Tick
    PROVE  FaucetInv'
<1>1. now \in Nat /\ now' = now + 1 /\ UNCHANGED <<drips, request, served>>
    BY DEF FaucetInv, TypeOK, Tick
<1>2. TypeOK'
    BY <1>1 DEF FaucetInv, TypeOK
<1>3. ServedAreDone'
    BY <1>1 DEF FaucetInv, ServedAreDone
<1>4. \A key : ServedFor(key)' = ServedFor(key)
    BY <1>1 DEF ServedFor, KeysOf
<1>5. ASSUME NEW E, NEW F, Live(E) = Live(F),
             \A drip \in E \cup F : drip.at \in Int
      PROVE  {drip \in E : drip.at > now' - COOLDOWN_MS}
                 = {drip \in F : drip.at > now' - COOLDOWN_MS}
  <2>1. \A drip \in E \cup F : drip.at > now' - COOLDOWN_MS => IsLive(drip)
    BY <1>1, <1>5, BoundsAssumption DEF IsLive
  <2>2. \A drip \in E \cup F : IsLive(drip) => drip \in E /\ drip \in F
    BY <1>5 DEF Live
  <2>. QED
    BY <2>1, <2>2
<1>6. ASSUME NEW key \in Keys
      PROVE  {drip \in DripsOf(drips, key) : drip.at > now' - COOLDOWN_MS}
                 = {drip \in ServedFor(key) : drip.at > now' - COOLDOWN_MS}
  <2>1. \A drip \in DripsOf(drips, key) \cup ServedFor(key) : drip.at \in Int
    BY <1>1 DEF FaucetInv, TypeOK, ServedAreDone, DripsOf, ServedFor
  <2>2. Live(DripsOf(drips, key)) = Live(ServedFor(key))
    BY DEF FaucetInv, MapIsExact
  <2>. QED
    BY <1>5, <2>1, <2>2
<1>7. MapIsExact'
    BY <1>1, <1>4, <1>6 DEF MapIsExact, Live, IsLive, DripsOf
<1>8. RetriesLeft'
    BY <1>1 DEF FaucetInv, RetriesLeft
<1>. QED
    BY <1>2, <1>3, <1>7, <1>8 DEF FaucetInv

LEMMA RestartKeeps ==
    ASSUME FaucetInv, Restart
    PROVE  FaucetInv'
<1>1. now' = now /\ now \in Nat /\ drips' = EmptyMap /\ served' = {}
    BY DEF FaucetInv, TypeOK, Restart
<1>2. /\ request' \in [Requests -> {Idle} \cup Refusals \cup Attempts]
      /\ \A r \in Requests : request'[r].pc # "backoff"
  <2>1. ASSUME NEW r \in Requests, InService(r)
        PROVE  /\ [request[r] EXCEPT !.pc = "lost"] \in Attempts
               /\ [request[r] EXCEPT !.pc = "lost"].pc = "lost"
    BY <2>1, AttemptKeys, AttemptMoves DEF FaucetInv, InService
  <2>. QED
    BY <2>1 DEF FaucetInv, TypeOK, Restart, InService
<1>3. DOMAIN EmptyMap = {}
    BY DEF EmptyMap
<1>4. TypeOK'
    BY <1>1, <1>2, <1>3 DEF TypeOK
<1>5. ServedAreDone'
    BY <1>1, FS_EmptySet DEF ServedAreDone
<1>6. MapIsExact'
    BY <1>1, <1>3 DEF MapIsExact, Live, DripsOf, ServedFor
<1>7. RetriesLeft'
    BY <1>2 DEF RetriesLeft
<1>. QED
    BY <1>4, <1>5, <1>6, <1>7 DEF FaucetInv

-----------------------------------------------------------------------------
(* Theorems *)

LEMMA FaucetInvHolds ==
    /\ Init => FaucetInv
    /\ FaucetInv /\ [Next]_vars => FaucetInv'
<1>1. ASSUME Init PROVE FaucetInv
  <2>1. DOMAIN EmptyMap = {}
    BY DEF EmptyMap
  <2>2. TypeOK /\ RetriesLeft
    BY <1>1, <2>1 DEF Init, TypeOK, RetriesLeft, Idle
  <2>3. ServedAreDone
    BY <1>1, FS_EmptySet DEF Init, ServedAreDone
  <2>4. MapIsExact
    BY <1>1, <2>1 DEF Init, MapIsExact, Live, DripsOf, ServedFor
  <2>. QED
    BY <2>2, <2>3, <2>4 DEF FaucetInv
<1>2. ASSUME FaucetInv, [Next]_vars PROVE FaucetInv'
  <2>1. ASSUME NEW r \in Requests, NEW w \in Wallets, NEW i \in Ips, Arrive(r, w, i)
        PROVE  FaucetInv'
    BY <1>2, <2>1, ArriveKeeps
  <2>2. ASSUME NEW r \in Requests, Handle(r) PROVE FaucetInv'
    BY <1>2, <2>2, ConfirmKeeps, FailKeeps, ResendKeeps DEF Handle
  <2>3. ASSUME NEW t \in flight, Land(t) PROVE FaucetInv'
    BY <1>2, <2>3, QuietStep DEF Land, FaucetInv, TypeOK, RetriesLeft
  <2>4. CASE Restart
    BY <1>2, <2>4, RestartKeeps
  <2>5. CASE Tick
    BY <1>2, <2>5, TickKeeps
  <2>6. CASE UNCHANGED vars
    BY <1>2, <2>6, QuietStep DEF vars, FaucetInv, TypeOK, RetriesLeft
  <2>. QED
    BY <1>2, <2>1, <2>2, <2>3, <2>4, <2>5, <2>6 DEF Next
<1>. QED
    BY <1>1, <1>2

(* The map and the records of the handlers keep their shape, whatever       *)
(* interleaves, fails or restarts.                                          *)
THEOREM FaucetTypeCorrect == Spec => []TypeOK
<1>1. FaucetInv => TypeOK
    BY DEF FaucetInv
<1>. QED
    BY <1>1, FaucetInvHolds, PTL DEF Spec

LEMMA ServedByKey ==
    ASSUME FaucetInv
    PROVE  /\ \A w : ServedFor(WalletKey(w)) = ServedTo(w)
           /\ \A i : ServedFor(IpKey(i)) = ServedFrom(i)
<1>1. \A w : ServedFor(WalletKey(w)) = ServedTo(w)
    BY KeysDiffer DEF ServedFor, KeysOf, ServedTo
<1>2. \A i : ServedFor(IpKey(i)) = ServedFrom(i)
    BY KeysDiffer DEF ServedFor, KeysOf, ServedFrom
<1>. QED
    BY <1>1, <1>2

LEMMA ExactByKey == FaucetInv => RecordExact
<1>. SUFFICES ASSUME FaucetInv PROVE RecordExact
    OBVIOUS
<1>1. \A w \in Wallets : WalletKey(w) \in Keys
    BY DEF Keys
<1>2. \A i \in Ips : IpKey(i) \in Keys
    BY DEF Keys
<1>. QED
    BY <1>1, <1>2, ServedByKey DEF FaucetInv, MapIsExact, RecordExact

(* Filtering and pruning (route.ts, recordDrip) lose no drip that still     *)
(* counts and keep none that was not handed out.                            *)
THEOREM RecordAlwaysExact == Spec => []RecordExact
    BY ExactByKey, FaucetInvHolds, PTL DEF Spec

(* Whoever has been served waits (route.ts:22): the limits, checked on      *)
(* arrival, refuse a wallet this instance has served within the cooldown    *)
(* and an IP it has served MAX_PER_IP times.                                *)
THEOREM ServedAlwaysWait == Spec => ServedMustWait
<1>1. ASSUME FaucetInv, [Next]_vars PROVE AdmissionStep
  <2>. SUFFICES ASSUME NEW r \in Requests,
                       request[r].pc = "idle", request'[r].pc = "sending"
                PROVE  /\ Live(ServedTo(request'[r].wallet)) = {}
                       /\ Cardinality(Live(ServedFrom(request'[r].ip))) < MAX_PER_IP
    BY DEF AdmissionStep
  <2>1. PICK w \in Wallets, i \in Ips : Arrive(r, w, i)
    <3>1. request \in [Requests -> {Idle} \cup Refusals \cup Attempts]
        BY <1>1 DEF FaucetInv, TypeOK
    <3>2. ASSUME NEW q \in Requests, NEW w \in Wallets, NEW i \in Ips, Arrive(q, w, i)
          PROVE  q = r
        BY <3>1, <3>2 DEF Arrive
    <3>3. ASSUME NEW q \in Requests, Handle(q) PROVE FALSE
        BY <3>1, <3>3 DEF Handle, Confirm, Fail, Resend
    <3>4. ASSUME NEW t, Land(t) PROVE FALSE
        BY <3>4 DEF Land
    <3>5. CASE Restart
        BY <3>5 DEF Restart, InService
    <3>6. CASE Tick \/ UNCHANGED vars
        BY <3>6 DEF Tick, vars
    <3>. QED
        BY <1>1, <3>2, <3>3, <3>4, <3>5, <3>6 DEF Next
  <2>2. /\ ~isLimited(WalletKey(w), 1) /\ ~isLimited(IpKey(i), MAX_PER_IP)
        /\ request'[r].wallet = w /\ request'[r].ip = i
    BY <1>1, <2>1 DEF Arrive, FaucetInv, TypeOK
  <2>3. /\ Live(DripsOf(drips, WalletKey(w))) = Live(ServedTo(w))
        /\ Live(DripsOf(drips, IpKey(i))) = Live(ServedFrom(i))
    BY <1>1, ExactByKey DEF RecordExact
  <2>4. /\ IsFiniteSet(Live(ServedTo(w))) /\ IsFiniteSet(Live(ServedFrom(i)))
    <3>1. Live(ServedTo(w)) \subseteq served /\ Live(ServedFrom(i)) \subseteq served
        BY DEF Live, ServedTo, ServedFrom
    <3>. QED
        BY <1>1, <3>1, FS_Subset DEF FaucetInv, ServedAreDone
  <2>5. Cardinality(Live(ServedTo(w))) \in Nat /\ Cardinality(Live(ServedFrom(i))) \in Nat
    BY <2>4, FS_CardinalityType
  <2>6. Cardinality(Live(ServedTo(w))) = 0
    BY <2>2, <2>3, <2>5 DEF isLimited
  <2>7. Live(ServedTo(w)) = {}
    BY <2>4, <2>6, FS_EmptySet
  <2>8. Cardinality(Live(ServedFrom(i))) < MAX_PER_IP
    BY <2>2, <2>3, <2>5, BoundsAssumption DEF isLimited
  <2>. QED
    BY <2>2, <2>7, <2>8
<1>2. FaucetInv /\ [Next]_vars => [AdmissionStep]_vars
    BY <1>1
<1>. QED
    BY <1>2, FaucetInvHolds, PTL DEF Spec, ServedMustWait
=============================================================================
