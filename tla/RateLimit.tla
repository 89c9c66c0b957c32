----------------------------- MODULE RateLimit -----------------------------
(* What a request of the gateway goes through once it is past the throttle   *)
(* (newHandler): the bearer token is verified and yields the tenant, the     *)
(* tenant's fixed-window counter in Redis is incremented, an admin route     *)
(* asks for the admin claim, and the handler runs.  Several gateways share   *)
(* the counters.  A window is Window ticks of the clock.                     *)
EXTENDS Integers, FiniteSets

CONSTANTS Request, Tenant, Window,
          limit,
          rateWindowTTL,   \* longer than Window
          MaxTime          \* bound: the clock

VARIABLES now,
          keys,     \* tenant -> its counters, a set of [window, n, until]
          request,  \* request -> [at, tenant, denied, clock, retry]: denied is
                    \* whether an admin route is asked for without the admin claim
          asked,    \* history: <<tenant, window>> -> requests counted there
          passed    \* history: likewise, of those not refused, without fail-open

vars == <<now, keys, request, asked, passed>>

NoRequest == [at |-> "new", tenant |-> 0, denied |-> FALSE, clock |-> 0, retry |-> 0]
Windows == 0..(MaxTime \div Window)
windowOf(r) == request[r].clock \div Window

TypeOK == /\ now \in 0..MaxTime
          /\ \A t \in Tenant : \A k \in keys[t] : k.window \in Windows /\ k.n >= 1 /\ k.until > now
          /\ \A r \in Request : /\ request[r].tenant \in Tenant \cup {0} /\ request[r].clock \in 0..now
                                /\ request[r].at = "limited" => request[r].retry \in 1..Window

Init == /\ now = 0 /\ keys = [t \in Tenant |-> {}]
        /\ request = [r \in Request |-> NoRequest]
        /\ asked = [x \in Tenant \X Windows |-> 0] /\ passed = [x \in Tenant \X Windows |-> 0]

\* Redis drops the keys whose time is up.  A call to it does not take longer
\* than a tick.
Tick == /\ now < MaxTime /\ \A r \in Request : request[r].at = "counting" => request[r].clock = now
        /\ now' = now + 1
        /\ keys' = [t \in Tenant |-> {k \in keys[t] : k.until > now + 1}]
        /\ UNCHANGED <<request, asked, passed>>

\* The token is missing, malformed or not verified, or has no tenant: 401.
\* Else the tenant and the claims are the token's, and the clock is read.
authenticate(r) ==
    /\ request[r].at = "new"
    /\ \/ request' = [request EXCEPT ![r].at = "unauthorized"]
       \/ \E t \in Tenant, denied \in BOOLEAN :
             request' = [request EXCEPT ![r] = [at |-> "counting", tenant |-> t, denied |-> denied,
                                                clock |-> now, retry |-> 0]]
    /\ UNCHANGED <<now, keys, asked, passed>>

\* requireAdmin, after the limiter.
requireAdmin(r) ==
    request' = [request EXCEPT ![r] = [NoRequest EXCEPT !.at = IF request[r].denied THEN "forbidden" ELSE "served"]]

\* INCR and EXPIRE.
Incr(t, w) ==
    LET old == {k \in keys[t] : k.window = w}
        n == 1 + (IF old = {} THEN 0 ELSE (CHOOSE k \in old : TRUE).n)
        key == [window |-> w, n |-> n, until |-> now + rateWindowTTL]
    IN  [n |-> n, keys |-> [keys EXCEPT ![t] = (@ \ old) \cup {key}]]

retryAfter(r) == Window - (request[r].clock % Window)

\* A Redis error lets the request through, whether or not it was counted.
middleware(r) ==
    LET t == request[r].tenant
        w == windowOf(r)
        out == Incr(t, w)
        count(f) == [f EXCEPT ![<<t, w>>] = @ + 1]
    IN  /\ request[r].at = "counting"
        /\ \/ /\ keys' = out.keys /\ asked' = count(asked)
              /\ \/ /\ out.n > limit /\ UNCHANGED passed
                    /\ request' = [request EXCEPT ![r].at = "limited", ![r].retry = retryAfter(r)]
                 \/ /\ out.n <= limit /\ passed' = count(passed)
                    /\ requireAdmin(r)
           \/ /\ (keys' = out.keys /\ asked' = count(asked)) \/ UNCHANGED <<keys, asked>>
              /\ requireAdmin(r)
              /\ UNCHANGED passed
        /\ UNCHANGED now

Next == Tick \/ \E r \in Request : authenticate(r) \/ middleware(r)
Spec == Init /\ [][Next]_vars

-----------------------------------------------------------------------------
(* Properties.                                                               *)

\* However the requests interleave and whenever their calls reach Redis, at
\* most limit requests of a tenant pass in a window, but for those let through
\* on a Redis error; "a key never vanishes mid-window".
AtMostLimit == \A x \in Tenant \X Windows : passed[x] <= limit

\* A tenant is refused only when that many requests of its own were counted in
\* the window, and is sent to the next window.
RefusedOnlyOverLimit ==
    \A r \in Request : request[r].at = "limited" =>
        /\ asked[<<request[r].tenant, windowOf(r)>>] > limit
        /\ (request[r].clock + request[r].retry) \div Window = windowOf(r) + 1
=============================================================================
