------------------------------- MODULE OAuth -------------------------------
(* Connecting an account and keeping its token fresh: the gateway's          *)
(* /oauth/start and /oauth/callback (services/gateway/oauth.go), the hub's   *)
(* fetchToken (scheduler.go) with platform/oauth, and the provider           *)
(* (tools/fake-oauth, and what real providers may do: rotate refresh tokens, *)
(* leave fields out of a response).                                          *)
(*                                                                           *)
(* A browser may deliver a redirect late and twice, as callbacks             *)
(* <<flow, 1>> and <<flow, 2>>.  The flow is also its state and its PKCE     *)
(* verifier.  Time is counted in units of the shortest lifetime.             *)
EXTENDS Integers, FiniteSets

CONSTANTS Flow,        \* authorizations begun
          Worker,      \* fetchToken calls at a time
          Instance,    \* connector instances, each of a tenant of its own
          Plain,       \* the instances of connectors without OAuth
          stateTTL, codeTTL, tokenTTL, refreshSkew,
          expiryDelta, \* how long before its expiry x/oauth2 takes a token for invalid
          MaxTime,     \* bound: the clock
          MaxIssued    \* bound: token responses

VARIABLES now,
          provider,   \* "standard"; "rotating", it accepts a refresh token once; "slack"
          pending,    \* flow -> its state in Redis
          code,       \* flow -> its authorization code at the provider
          callback,   \* <<flow, n>> -> [at, i, tok]
          live,       \* refresh tokens that the provider accepts
          issued,     \* token responses so far
          vault,      \* instance -> the token stored, {} without
          worker,     \* worker -> [at, i, tok, stale]: stale is whether the bearer
                      \* handed out last had expired
          passed,     \* history: flow -> callbacks that got past the state check
          latest,     \* history: instance -> flow the web app last called connected
          lost,       \* history: instances whose refreshed token was not stored
          overtaken   \* history: instances connected while a refresh was in flight

vars == <<now, provider, pending, code, callback, live, issued, vault, worker, passed, latest,
          lost, overtaken>>

OwnerOf(i) == i
Callback == Flow \X {1, 2}
Never == MaxTime + tokenTTL + 1

\* A token as stored: when it says it expires and when it does (Never if it
\* does not), its refresh token (0 for none), and the flow it comes from.
Token == [refresh : 0..MaxIssued, expiry : 1..Never, ends : 1..Never, flow : Flow]
NoToken == [refresh |-> 0, expiry |-> 1, ends |-> 1, flow |-> CHOOSE f \in Flow : TRUE]
NoCallback == [at |-> "none", i |-> CHOOSE i \in Instance : TRUE, tok |-> NoToken]
Idle == [at |-> "idle", i |-> CHOOSE i \in Instance : TRUE, tok |-> NoToken, stale |-> FALSE]

TypeOK == /\ now \in 0..MaxTime /\ provider \in {"standard", "rotating", "slack"} /\ issued \in 0..MaxIssued
          /\ \A f \in Flow : \A p \in pending[f] : p.t = OwnerOf(p.i) /\ p.i \notin Plain
          /\ \A c \in Callback : callback[c].tok \in Token
          /\ live \subseteq 1..issued
          /\ \A i \in Instance : vault[i] \subseteq Token /\ Cardinality(vault[i]) <= 1
          /\ \A w \in Worker : worker[w].tok \in Token

Init == /\ now = 0 /\ provider \in {"standard", "rotating", "slack"}
        /\ pending = [f \in Flow |-> {}] /\ code = [f \in Flow |-> {}]
        /\ callback = [c \in Callback |-> NoCallback]
        /\ live = {} /\ issued = 0
        /\ vault = [i \in Instance |-> {}] /\ worker = [w \in Worker |-> Idle]
        /\ passed = [f \in Flow |-> 0] /\ latest = [i \in Instance |-> {}]
        /\ lost = {} /\ overtaken = {}

Tick == /\ now < MaxTime /\ now' = now + 1
        /\ UNCHANGED <<provider, pending, code, callback, live, issued, vault, worker, passed,
                       latest, lost, overtaken>>

-----------------------------------------------------------------------------
(* The authorization.                                                        *)

\* The control plane knows the instance only to its tenant, and the connector
\* must be one with OAuth.  The state is kept for stateTTL.
handleOAuthStart(f, t, i) ==
    /\ passed[f] = 0 /\ pending[f] = {} /\ callback[<<f, 1>>].at = "none"
    /\ OwnerOf(i) = t /\ i \notin Plain
    /\ pending' = [pending EXCEPT ![f] = {[t |-> t, i |-> i, until |-> now + stateTTL]}]
    /\ callback' = [callback EXCEPT ![<<f, 1>>].at = "consent"]
    /\ UNCHANGED <<now, provider, code, live, issued, vault, worker, passed, latest, lost, overtaken>>

\* The user consents, and the redirect carries a new code; or declines, and it
\* carries an error.
handleAuthorize(f) ==
    /\ callback[<<f, 1>>].at = "consent"
    /\ \/ /\ code' = [code EXCEPT ![f] = {now + codeTTL}]
          /\ callback' = [callback EXCEPT ![<<f, 1>>].at = "redirect", ![<<f, 2>>].at = "redirect"]
       \/ /\ callback' = [callback EXCEPT ![<<f, 1>>].at = "denied", ![<<f, 2>>].at = "denied"]
          /\ UNCHANGED code
    /\ UNCHANGED <<now, provider, pending, live, issued, vault, worker, passed, latest, lost, overtaken>>

At(c, here, next) == callback[c].at = here /\ callback' = [callback EXCEPT ![c] = [NoCallback EXCEPT !.at = next]]
Found(c) == {p \in pending[c[1]] : now <= p.until}

\* Past the state check, with the flow it was begun for.
Pass(c) ==
    /\ callback[c].at = "redirect"
    /\ \E p \in Found(c) : callback' = [callback EXCEPT ![c].at = "exchange", ![c].i = p.i]
    /\ passed' = [passed EXCEPT ![c[1]] = @ + 1]
Stop(c) == /\ callback[c].at = "denied" \/ (callback[c].at = "redirect" /\ Found(c) = {})
           /\ At(c, callback[c].at, "done") /\ UNCHANGED passed

\* Mutant: GET instead of GETDEL.
consumeStateKeeps(c) ==
    /\ Pass(c) \/ Stop(c)
    /\ UNCHANGED <<now, provider, pending, code, live, issued, vault, worker, latest, lost, overtaken>>

\* The state is read and deleted in one step; missing, expired and replayed
\* look the same.  An error of the provider is looked at after that.
consumeState(c) ==
    /\ Pass(c) \/ Stop(c)
    /\ pending' = [pending EXCEPT ![c[1]] = {}]
    /\ UNCHANGED <<now, provider, code, live, issued, vault, worker, latest, lost, overtaken>>

\* A token response of the provider: the token is good for tokenTTL, or for
\* good when the response does not say.
issueTokens(f, refresh, expires) ==
    [refresh |-> refresh, flow |-> f,
     expiry |-> IF expires THEN now + tokenTTL ELSE Never,
     ends |-> IF expires THEN now + tokenTTL ELSE Never]

\* The code is consumed by the first use, whatever comes of it.
handleAuthCodeGrant(c) ==
    LET f == c[1] IN
    /\ callback[c].at = "exchange" /\ code' = [code EXCEPT ![f] = {}]
    /\ \/ /\ \E until \in code[f] : now <= until
          /\ issued < MaxIssued /\ issued' = issued + 1
          /\ \E refresh \in {0, issued + 1}, expires \in BOOLEAN :
                /\ callback' = [callback EXCEPT ![c].at = "put",
                                               ![c].tok = issueTokens(f, refresh, expires)]
                /\ live' = live \cup ({refresh} \ {0})
       \/ At(c, "exchange", "done") /\ UNCHANGED <<live, issued>>
    /\ UNCHANGED <<now, provider, pending, vault, worker, passed, latest, lost, overtaken>>

InFlight(i) == \E w \in Worker : worker[w].i = i /\ worker[w].at \in {"refresh", "put"}

Connect(c, i) ==
    /\ At(c, "put", "done")
    /\ vault' = [vault EXCEPT ![i] = {callback[c].tok}]
    /\ latest' = [latest EXCEPT ![callback[c].i] = {c[1]}]
    /\ overtaken' = IF InFlight(i) THEN overtaken \cup {i} ELSE overtaken \ {i}
    /\ lost' = lost \ {i}
    /\ UNCHANGED <<now, provider, pending, code, live, issued, worker, passed>>

\* PutToken for the tenant and the instance of the flow.
storeToken(c) == Connect(c, callback[c].i)

\* The control plane fails, or the gateway stops.
CallbackFails(c) ==
    /\ callback[c].at = "put"
    /\ At(c, callback[c].at, "done")
    /\ UNCHANGED <<now, provider, pending, code, live, issued, vault, worker, passed, latest, lost,
                   overtaken>>

-----------------------------------------------------------------------------
(* fetchToken.                                                               *)

Stale(tok) == tok.refresh # 0 /\ tok.ends <= now
Hand(w, stale) == worker' = [worker EXCEPT ![w] = [Idle EXCEPT !.stale = stale]]

NeedsRefresh(tok) == tok.refresh # 0 /\ tok.expiry # Never /\ now >= tok.expiry - refreshSkew

\* Without a token the connector runs without one; a token that is good for a
\* while is handed on.
getToken(w, i) ==
    /\ worker[w].at = "idle"
    /\ \E tok \in vault[i] :
          \/ ~NeedsRefresh(tok) /\ Hand(w, Stale(tok))
          \/ /\ NeedsRefresh(tok)
             /\ worker' = [worker EXCEPT ![w] = [Idle EXCEPT !.at = "refresh", !.i = i, !.tok = tok]]
    /\ UNCHANGED <<now, provider, pending, code, callback, live, issued, vault, passed, latest,
                   lost, overtaken>>

\* What the response left out is carried over.
tokenFrom(tok, prev) ==
    [tok EXCEPT !.refresh = IF @ = 0 THEN prev.refresh ELSE @,
                !.expiry = IF @ = Never THEN prev.expiry ELSE @]

\* x/oauth2 hands back a token that is still valid to it; Slack's grant is
\* made by hand.  The provider may answer with a new refresh token, and must
\* when the old one is spent by that.
Refresh(w) ==
    LET old == worker[w].tok
        rotates == provider # "standard"
    IN  /\ worker[w].at = "refresh"
        /\ \/ /\ provider # "slack" /\ now < old.expiry - expiryDelta
              /\ Hand(w, Stale(old)) /\ UNCHANGED <<live, issued>>
           \/ /\ provider = "slack" \/ now >= old.expiry - expiryDelta
              /\ old.refresh \in live /\ issued < MaxIssued /\ issued' = issued + 1
              /\ \E refresh \in {0, issued + 1}, told \in BOOLEAN :
                    /\ rotates => refresh # 0
                    /\ live' = (live \ (IF rotates THEN {old.refresh} ELSE {})) \cup ({refresh} \ {0})
                    /\ LET new == issueTokens(old.flow, refresh, TRUE)
                           tok == tokenFrom([new EXCEPT !.expiry = IF told THEN @ ELSE Never], old)
                       IN  worker' = [worker EXCEPT ![w].at = "put", ![w].tok = tok, ![w].stale = Stale(tok)]
    /\ UNCHANGED <<now, provider, pending, code, callback, vault, passed, latest, lost, overtaken>>

putToken(w) ==
    /\ worker[w].at = "put" /\ Hand(w, worker[w].stale)
    /\ vault' = [vault EXCEPT ![worker[w].i] = {worker[w].tok}]
    /\ UNCHANGED <<now, provider, pending, code, callback, live, issued, passed, latest, lost, overtaken>>

\* The provider, the control plane or the hub fails: the run ends, and a token
\* that was refreshed and not stored is gone.
RunFails(w) ==
    /\ worker[w].at \in {"refresh", "put"} /\ worker' = [worker EXCEPT ![w] = Idle]
    /\ lost' = IF worker[w].at = "put" THEN lost \cup {worker[w].i} ELSE lost
    /\ UNCHANGED <<now, provider, pending, code, callback, live, issued, vault, passed, latest, overtaken>>

Next == \/ Tick
        \/ \E f \in Flow : \/ \E i \in Instance : \E t \in {OwnerOf(j) : j \in Instance} :
                                 handleOAuthStart(f, t, i)
                           \/ handleAuthorize(f)
        \/ \E c \in Callback : consumeState(c) \/ handleAuthCodeGrant(c) \/ storeToken(c) \/ CallbackFails(c)
        \/ \E w \in Worker : (\E i \in Instance : getToken(w, i)) \/ Refresh(w) \/ putToken(w) \/ RunFails(w)

Spec == Init /\ [][Next]_vars

-----------------------------------------------------------------------------
(* Properties.                                                               *)

\* "Single-use: GetDel atomically consumes the state": of all the callbacks of
\* a flow, delivered twice or late, at most one gets to the exchange.
StateSingleUse == \A f \in Flow : passed[f] <= 1

\* The token stored for an instance comes from the last flow that the web app
\* reported connected for that instance, and so from its own tenant.  A flow
\* that connects while fetchToken is refreshing the token before is excepted:
\* the refreshed token is stored over the new one.
TokenOfLatestFlow ==
    \A i \in Instance \ overtaken : \A tok \in vault[i] : latest[i] = {tok.flow}

\* A bearer handed to a connector had not expired when the hub read or
\* refreshed it, "rather than handing it a stale or empty token"; a token
\* without a refresh token is excepted.
HandedLive == \A w \in Worker : ~worker[w].stale

\* The refresh token in the vault is one that the provider accepts, even if it
\* takes each only once (tokenFrom stores the one it is given), so that the
\* account need not be connected again.  Not while a refresh is in flight, nor
\* after one that was not stored, or was stored over a newer account.
RefreshSurvives ==
    \A i \in Instance \ (lost \cup overtaken) :
        \A tok \in vault[i] : tok.refresh # 0 /\ ~InFlight(i) => tok.refresh \in live
=============================================================================
