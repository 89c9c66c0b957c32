------------------------------ MODULE PreAuth ------------------------------
(* The gateway's throttle in front of authentication (preauth.go): a global  *)
(* token bucket, then one per source address in a table of bounded size that *)
(* is swept while it is used.  A bucket is refilled when it is next asked.   *)
(* A token is what flows in per tick for an address.                         *)
EXTENDS Integers, FiniteSets

CONSTANTS Address,
          perIPCap,                  \* with one token per tick, ticks to refill
          globalBurst, globalRefill,
          ipEntryTTL, ipSweepEvery, maxTrackedIPs,
          Proxied,                   \* trustProxy
          MaxTime                    \* bound: the clock

VARIABLES now,
          global,   \* [tokens, last]
          ips,      \* address -> its entries, {} or {[tokens, last, seen]}
          lastWeep,
          exact,    \* history: address -> what is left of its allowance
          exactAll, \* history: likewise of the global allowance
          waved,    \* history: addresses let through untracked, the table being
                    \* full, and not idle for a full refill since
          refused   \* history: the address refused last for itself, or nothing

vars == <<now, global, ips, lastWeep, exact, exactAll, waved, refused>>

Least(a, b) == IF a < b THEN a ELSE b
Tracked == {a \in Address : ips[a] # {}}

TypeOK == /\ now \in 0..MaxTime /\ lastWeep \in 0..now
          /\ global.tokens \in 0..globalBurst /\ global.last \in 0..now
          /\ Cardinality(Tracked) <= maxTrackedIPs
          /\ \A a \in Address : \A e \in ips[a] : /\ e.tokens \in 0..perIPCap
                                                  /\ e.last <= e.seen /\ e.seen <= now
          /\ \A a \in Address : exact[a] <= perIPCap
          /\ waved \subseteq Address /\ refused \subseteq Address

\* The gateway has been up for a while.
Init == /\ now = 0 /\ lastWeep = 0
        /\ global = [tokens |-> globalBurst, last |-> 0] /\ ips = [a \in Address |-> {}]
        /\ exact = [a \in Address |-> perIPCap] /\ exactAll = globalBurst
        /\ waved = {} /\ refused = {}

\* Time passes; an allowance grows up to its burst.
Tick == /\ now < MaxTime /\ now' = now + 1
        /\ exact' = [a \in Address |-> Least(perIPCap, exact[a] + 1)]
        /\ exactAll' = Least(globalBurst, exactAll + globalRefill)
        /\ waved' = {a \in waved : exact'[a] < perIPCap}
        /\ refused' = {} /\ UNCHANGED <<global, ips, lastWeep>>

\* allow, up to taking the token.
refill(b, cap, perTick) ==
    [b EXCEPT !.tokens = Least(cap, b.tokens + (now - b.last) * perTick), !.last = now]

\* The address as the trusted proxy appended it, else the peer's.
clientIP(peer, hop) == IF Proxied /\ hop # {} THEN CHOOSE a \in hop : TRUE ELSE peer

\* Mutant: the sweep drops every entry.
sweepLockedAll == [a \in Address |-> IF now - lastWeep < ipSweepEvery THEN ips[a] ELSE {}]

sweepLocked ==
    [a \in Address |-> IF now - lastWeep < ipSweepEvery THEN ips[a]
                       ELSE {e \in ips[a] : now - e.seen <= ipEntryTTL}]

newEntry == [tokens |-> perIPCap, last |-> now, seen |-> now]

\* allowIP for a request that the global bucket let through: the outcome, and
\* the table afterwards.
allowIP(a, table) ==
    LET full == Cardinality({b \in Address : table[b] # {}}) >= maxTrackedIPs
        e == IF table[a] = {} THEN newEntry ELSE CHOOSE x \in table[a] : TRUE
        filled == [refill(e, perIPCap, 1) EXCEPT !.seen = now]
    IN  IF table[a] = {} /\ full THEN [ok |-> TRUE, ips |-> table]
        ELSE IF filled.tokens >= 1
        THEN [ok |-> TRUE, ips |-> [table EXCEPT ![a] = {[filled EXCEPT !.tokens = @ - 1]}]]
        ELSE [ok |-> FALSE, ips |-> [table EXCEPT ![a] = {filled}]]

\* One request.
middleware(a) ==
    LET g == refill(global, globalBurst, globalRefill)
        out == allowIP(a, sweepLocked)
    IN  \/ /\ g.tokens < 1 /\ global' = g
           /\ refused' = {} /\ UNCHANGED <<now, ips, lastWeep, exact, exactAll, waved>>
        \/ /\ g.tokens >= 1 /\ global' = [g EXCEPT !.tokens = @ - 1] /\ exactAll' = exactAll - 1
           /\ ips' = out.ips
           /\ lastWeep' = IF now - lastWeep < ipSweepEvery THEN lastWeep ELSE now
           /\ exact' = IF out.ok THEN [exact EXCEPT ![a] = @ - 1] ELSE exact
           /\ waved' = IF out.ips[a] = {} THEN waved \cup {a} ELSE waved
           /\ refused' = IF out.ok THEN {} ELSE {a}
           /\ UNCHANGED now

Next == Tick \/ \E peer \in Address : \E hop \in SUBSET Address :
                   Cardinality(hop) <= 1 /\ middleware(clientIP(peer, hop))

Spec == Init /\ [][Next]_vars

-----------------------------------------------------------------------------
(* Properties.                                                               *)

\* In no stretch of time, of any length, does an address get more requests
\* through than the burst and what has flowed in meanwhile, and all of them no
\* more than the global ceiling, although idle buckets are swept and made
\* anew.  An address let through while the table was full ("Fail open per-IP,
\* not global") is excepted until it has been idle long enough to
\* refill its bucket.
WithinRate == exactAll >= 0 /\ \A a \in Address \ waved : exact[a] >= 0

\* A request is refused for its address only if that has used up its
\* allowance; one that keeps to its rate is never refused for its address.
RefusedOnlyOverRate == \A a \in refused \ waved : exact[a] < 1
=============================================================================
