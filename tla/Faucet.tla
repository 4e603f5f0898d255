------------------------------- MODULE Faucet -------------------------------
(***************************************************************************)
(* The faucet of the web app, POST /api/faucet: it mints mock-USDC to a    *)
(* wallet and limits the drips by wallet and by IP with an in-memory map.  *)
(*                                                                         *)
(* The handler runs on one JavaScript thread, so it is atomic between two  *)
(* awaits: it checks the limits and sends the first transaction (Arrive),  *)
(* is resumed when an attempt is confirmed or fails (Confirm, Fail), and   *)
(* when a back-off ends (Resend).  Other requests run in between.  A body  *)
(* that names no wallet is answered at once and changes nothing.           *)
(*                                                                         *)
(* External: Solana, where every attempt is a transaction of its own that  *)
(* may land, late or never (Land); the RPC node, whose answer may be lost; *)
(* and the host, which may replace the instance (Restart).  Two requests   *)
(* that happen to sign the same transaction with the same blockhash are    *)
(* one transaction to Solana: that they are not is the case the model      *)
(* keeps, the one in which more is minted.                                 *)
(***************************************************************************)
EXTENDS Integers, FiniteSets

CONSTANTS
    Requests,      (* the requests that may arrive                          *)
    Wallets, Ips,  (* whom they name, and where they come from              *)
    COOLDOWN_MS,   (* length of the cooldown, in ticks of the clock         *)
    MAX_PER_IP,    (* drips an IP may have within a cooldown                *)
    PRUNE_ABOVE,   (* number of entries above which the map is pruned       *)
    RETRIES,       (* attempts withRetry makes beyond the first             *)
    MaxTime,       (* bound of the clock                                    *)
    MaxRestarts    (* bound of the number of restarts                       *)

ASSUME BoundsAssumption ==
    /\ COOLDOWN_MS \in Nat \ {0}
    /\ MAX_PER_IP \in Nat
    /\ PRUNE_ABOVE \in Nat
    /\ RETRIES \in Nat
    /\ MaxTime \in Nat
    /\ MaxRestarts \in Nat

VARIABLES
    now,       (* Date.now()                                                *)
    drips,     (* the map: the drips of some keys                           *)
    request,   (* what the handler of every request is at                   *)
    flight,    (* the transactions that may still land                      *)
    minted,    (* the transactions that have landed, and when               *)
    served,    (* what this instance has answered 200, and when             *)
    restarts   (* how often the instance has been replaced                  *)

vars == <<now, drips, request, flight, minted, served, restarts>>

WalletKey(w) == <<"w", w>>
IpKey(i) == <<"ip", i>>
Keys == {WalletKey(w) : w \in Wallets} \cup {IpKey(i) : i \in Ips}

Idle == [pc |-> "idle"]
Refusals == [pc : {"refused"}, wallet : Wallets, ip : Ips]
Attempts == [pc : {"sending", "backoff", "served", "failed", "lost"},
             wallet : Wallets, ip : Ips, attempt : 0..RETRIES]
KeysOf(r) == {WalletKey(request[r].wallet), IpKey(request[r].ip)}
InService(r) == request[r].pc \in {"sending", "backoff"}

EmptyMap == [key \in {} |-> {}]

Init ==
    /\ now = 0
    /\ drips = EmptyMap
    /\ request = [r \in Requests |-> Idle]
    /\ flight = {}
    /\ minted = {}
    /\ served = {}
    /\ restarts = 0

-----------------------------------------------------------------------------
(* The map of drips.  The code keeps the time of each; here a drip is named *)
(* by its request too, so that two drips of one moment are two.            *)

Drip(r) == [request |-> r, at |-> now]
IsLive(drip) == drip.at > now - COOLDOWN_MS
Live(entry) == {drip \in entry : IsLive(drip)}
DripsOf(map, key) == IF key \in DOMAIN map THEN map[key] ELSE {}

(* Mutant: the limit is passed once more. *)
isLimitedLate(key, max) == Cardinality(Live(DripsOf(drips, key))) > max

isLimited(key, max) == Cardinality(Live(DripsOf(drips, key))) >= max

(* Mutants: an entry goes with its first old drip, and every entry is      *)
(* filtered.                                                               *)
PrunedEagerly(map) ==
    IF Cardinality(DOMAIN map) > PRUNE_ABOVE
    THEN [key \in {k \in DOMAIN map : Live(map[k]) = map[k]} |-> map[key]]
    ELSE map
recordAndFilterAll(map, keys, r) ==
    [key \in DOMAIN map \cup keys |->
        IF key \in keys THEN Live(DripsOf(map, key)) \cup {Drip(r)}
                        ELSE Live(map[key])]

Pruned(map) ==
    IF Cardinality(DOMAIN map) > PRUNE_ABOVE
    THEN [key \in {k \in DOMAIN map : Live(map[k]) # {}} |-> map[key]]
    ELSE map

recordDrip(map, keys, r) ==
    LET pruned == Pruned(map)
    IN  [key \in DOMAIN pruned \cup keys |->
            IF key \in keys THEN Live(DripsOf(pruned, key)) \cup {Drip(r)}
                            ELSE pruned[key]]

-----------------------------------------------------------------------------
(* The handler *)

Arrive(r, w, i) ==
    /\ request[r].pc = "idle"
    /\ IF isLimited(WalletKey(w), 1) \/ isLimited(IpKey(i), MAX_PER_IP)
       THEN /\ request' = [request EXCEPT ![r] = [pc |-> "refused", wallet |-> w, ip |-> i]]
            /\ UNCHANGED flight
       ELSE /\ request' = [request EXCEPT ![r] =
                             [pc |-> "sending", wallet |-> w, ip |-> i, attempt |-> 0]]
            /\ flight' = flight \cup {<<r, 0>>}
    /\ UNCHANGED <<now, drips, minted, served, restarts>>

(* sendAndConfirmTransaction has seen the transaction of this attempt. *)
Confirm(r) ==
    /\ request[r].pc = "sending"
    /\ \E m \in minted : m.request = r /\ m.attempt = request[r].attempt
    /\ drips' = recordDrip(drips, KeysOf(r), r)
    /\ served' = served \cup {Drip(r)}
    /\ request' = [request EXCEPT ![r].pc = "served"]
    /\ UNCHANGED <<now, flight, minted, restarts>>

(* The attempt throws, whatever has become of its transaction: with an     *)
(* error that withRetry takes for transient it is tried again, and with    *)
(* any other, or after the last attempt, the request is answered 500.      *)
Fail(r) ==
    /\ request[r].pc = "sending"
    /\ \/ /\ request[r].attempt < RETRIES
          /\ request' = [request EXCEPT ![r].pc = "backoff"]
       \/ request' = [request EXCEPT ![r].pc = "failed"]
    /\ UNCHANGED <<now, drips, flight, minted, served, restarts>>

Resend(r) ==
    /\ request[r].pc = "backoff"
    /\ request' = [request EXCEPT ![r].pc = "sending", ![r].attempt = @ + 1]
    /\ flight' = flight \cup {<<r, request[r].attempt + 1>>}
    /\ UNCHANGED <<now, drips, minted, served, restarts>>

-----------------------------------------------------------------------------
(* The environment *)

Land(t) ==
    /\ t \in flight
    /\ flight' = flight \ {t}
    /\ minted' = minted \cup {[request |-> t[1], attempt |-> t[2], at |-> now]}
    /\ UNCHANGED <<now, drips, request, served, restarts>>

(* The new instance starts with an empty map, and the requests the old one *)
(* was serving are never answered.                                         *)
Restart ==
    /\ restarts < MaxRestarts
    /\ restarts' = restarts + 1
    /\ drips' = EmptyMap
    /\ served' = {}
    /\ request' = [r \in Requests |->
                     IF InService(r) THEN [request[r] EXCEPT !.pc = "lost"]
                                     ELSE request[r]]
    /\ UNCHANGED <<now, flight, minted>>

Tick ==
    /\ now < MaxTime
    /\ now' = now + 1
    /\ UNCHANGED <<drips, request, flight, minted, served, restarts>>

-----------------------------------------------------------------------------
Handle(r) == Confirm(r) \/ Fail(r) \/ Resend(r)

Next ==
    \/ \E r \in Requests, w \in Wallets, i \in Ips : Arrive(r, w, i)
    \/ \E r \in Requests : Handle(r)
    \/ \E t \in flight : Land(t)
    \/ Restart
    \/ Tick

Spec == Init /\ [][Next]_vars

-----------------------------------------------------------------------------
(* Correctness *)

ServedTo(w) == {s \in served : request[s.request].wallet = w}
ServedFrom(i) == {s \in served : request[s.request].ip = i}

(* The map and the handlers' records have the shape the code gives them:   *)
(* an entry is never empty, which is what pruning is for, nor of the       *)
(* future.                                                                 *)
TypeOK ==
    /\ now \in Nat
    /\ DOMAIN drips \subseteq Keys
    /\ \A key \in DOMAIN drips :
          /\ drips[key] # {}
          /\ \A drip \in drips[key] : drip.request \in Requests /\ drip.at \in 0..now
    /\ request \in [Requests -> {Idle} \cup Refusals \cup Attempts]

(* Filtering and pruning lose no drip that still counts, and keep none     *)
(* that was not handed out: for every wallet and every IP the live drips   *)
(* on record are the answers 200 of this instance within the cooldown.     *)
RecordExact ==
    /\ \A w \in Wallets : Live(DripsOf(drips, WalletKey(w))) = Live(ServedTo(w))
    /\ \A i \in Ips : Live(DripsOf(drips, IpKey(i))) = Live(ServedFrom(i))

(* Whoever has been served waits: no transaction is sent for a request     *)
(* whose wallet this instance has served within the cooldown, nor for one  *)
(* whose IP it has served MAX_PER_IP times (route.ts:22).                  *)
AdmissionStep ==
    \A r \in Requests :
        request[r].pc = "idle" /\ request'[r].pc = "sending" =>
            /\ Live(ServedTo(request'[r].wallet)) = {}
            /\ Cardinality(Live(ServedFrom(request'[r].ip))) < MAX_PER_IP
ServedMustWait == [][AdmissionStep]_vars

(* What the handler's comment says (route.ts:7): one drip per wallet per   *)
(* cooldown.  The run that checks it shows that it is not so.              *)
OneDripPerWallet ==
    \A m1, m2 \in minted :
        /\ m1 # m2
        /\ request[m1.request].wallet = request[m2.request].wallet
        => m1.at - m2.at >= COOLDOWN_MS \/ m2.at - m1.at >= COOLDOWN_MS
=============================================================================
