-------------------------- MODULE Personalization --------------------------
(* One tenant's personalization: the profile and the learned model of record *)
(* in Postgres, and the copies in Redis that the query path reads.  The      *)
(* gateway serves PUT /v1/preferences, POST /v1/feedback and POST            *)
(* /v1/preferences/reset; each calls the control plane and then writes the   *)
(* copy through, without a lock or an expiry.                                *)
(*                                                                           *)
(* A request is an element of Request and is served once.  The learned model *)
(* is the set of the feedback requests folded into it; a profile is its      *)
(* version and its pause-learning switch.                                    *)
EXTENDS Integers, FiniteSets

CONSTANTS Request,
          MaxFaults   \* bound: failing calls

VARIABLES profile,    \* user_preferences: [version, paused]
          weights,    \* learned_weights, a set of feedback requests
          events,     \* feedback_events, likewise
          prefCache,  \* asker:pref: the profile in it, {} without the key
          weightCache,\* asker:weights: likewise for the model
          pc,         \* request -> what it does next
          answer,     \* request -> what the control plane answered, to be cached
          learned,    \* history: feedback whose update committed since the
                      \* last reset
          raced,      \* history: the copies whose record changed while an
                      \* earlier write-through of them was still under way
          faults

vars == <<profile, weights, events, prefCache, weightCache, pc, answer, learned, raced, faults>>
db == <<profile, weights, events, learned>>
cache == <<prefCache, weightCache>>

Version == 0..Cardinality(Request)
Profile == [version : Version, paused : BOOLEAN]
Model == SUBSET Request
Copy(S) == {{}} \cup {{v} : v \in S}

NoProfile == [version |-> 0, paused |-> FALSE]

Label == {"new", "append", "update", "cacheProfile", "cacheWeights", "dropWeights", "done"}

TypeOK == /\ profile \in Profile
          /\ weights \in Model /\ events \in Model /\ learned \in Model
          /\ prefCache \in Copy(Profile)
          /\ weightCache \in Copy(Model)
          /\ pc \in [Request -> Label]
          /\ answer \in [Request -> [profile : Profile, model : Model]]
          /\ raced \subseteq {"profile", "weights"} /\ faults \in 0..MaxFaults

Init == /\ profile = NoProfile
        /\ weights = {} /\ events = {} /\ learned = {}
        /\ prefCache = {} /\ weightCache = {}
        /\ pc = [r \in Request |-> "new"]
        /\ answer = [r \in Request |-> [profile |-> NoProfile, model |-> {}]]
        /\ raced = {} /\ faults = 0

At(r, here, next) == pc[r] = here /\ pc' = [pc EXCEPT ![r] = next]
AnswersProfile(r, p) == answer' = [answer EXCEPT ![r].profile = p]
AnswersModel(r, m) == answer' = [answer EXCEPT ![r].model = m]

-----------------------------------------------------------------------------
(* PUT /v1/preferences.                                                      *)

\* The upsert bumps the version and returns it.
PutPreferences(r) ==
    \E paused \in BOOLEAN :
        LET p == [version |-> profile.version + 1, paused |-> paused]
        IN  /\ At(r, "new", "cacheProfile")
            /\ profile' = p /\ AnswersProfile(r, p)
            /\ UNCHANGED <<weights, events, learned, cache, faults>>

\* Mutant: the profile is cached as the request had it, without its version.
cacheProfileUnpinned(r) ==
    /\ At(r, "cacheProfile", "done")
    /\ prefCache' = {[answer[r].profile EXCEPT !.version = 0]}
    /\ UNCHANGED <<db, weightCache, answer, faults>>

cacheProfile(r) ==
    /\ At(r, "cacheProfile", "done")
    /\ prefCache' = {answer[r].profile}
    /\ UNCHANGED <<db, weightCache, answer, faults>>

-----------------------------------------------------------------------------
(* POST /v1/feedback.                                                        *)

\* RecordFeedback reads the profile and the model.  While learning is paused
\* the event is dropped and the model answered as it was read; the gateway
\* caches any answer but the one of a missing row.
RecordFeedback(r) ==
    /\ \/ ~profile.paused /\ At(r, "new", "append") /\ AnswersModel(r, weights)
       \/ profile.paused /\ At(r, "new", "cacheWeights") /\ AnswersModel(r, weights)
       \/ profile.paused /\ weights = {} /\ At(r, "new", "done") /\ UNCHANGED answer
    /\ UNCHANGED <<db, cache, faults>>

AppendFeedback(r) ==
    /\ At(r, "append", "update")
    /\ events' = events \cup {r}
    /\ UNCHANGED <<profile, weights, learned, cache, answer, faults>>

\* The model is read again under the row lock (FOR UPDATE) and written back,
\* with the event folded in when its action has a label and it has features.
UpdateLearnedWeights(r) ==
    /\ At(r, "update", "cacheWeights")
    /\ \E fold \in {{}, {r}} :
          /\ weights' = weights \cup fold /\ learned' = learned \cup fold
          /\ AnswersModel(r, weights \cup fold)
    /\ UNCHANGED <<profile, events, cache, faults>>

cacheWeights(r) ==
    /\ At(r, "cacheWeights", "done")
    /\ weightCache' = {answer[r].model}
    /\ UNCHANGED <<db, prefCache, answer, faults>>

-----------------------------------------------------------------------------
(* POST /v1/preferences/reset.                                               *)

\* One transaction deletes the model and the log.
ResetLearning(r) ==
    /\ At(r, "new", "dropWeights")
    /\ weights' = {} /\ events' = {} /\ learned' = {}
    /\ UNCHANGED <<profile, cache, answer, faults>>

dropWeights(r) ==
    /\ At(r, "dropWeights", "done")
    /\ weightCache' = {}
    /\ UNCHANGED <<db, prefCache, answer, faults>>

-----------------------------------------------------------------------------
\* A call of the request fails: before the control plane has committed the
\* request fails with it, a Redis error is only logged.
Fails(r) ==
    /\ pc[r] # "done" /\ faults < MaxFaults /\ faults' = faults + 1
    /\ pc' = [pc EXCEPT ![r] = "done"]
    /\ UNCHANGED <<db, cache, answer>>

Begin(r) == PutPreferences(r) \/ RecordFeedback(r) \/ ResetLearning(r)
Continue(r) == \/ cacheProfile(r) \/ AppendFeedback(r) \/ UpdateLearnedWeights(r)
               \/ cacheWeights(r) \/ dropWeights(r) \/ Fails(r)

Pending(labels) == \E r \in Request : pc[r] \in labels
Overtakes ==
    (IF profile' # profile /\ Pending({"cacheProfile"}) THEN {"profile"} ELSE {})
    \cup (IF weights' # weights /\ Pending({"cacheWeights", "dropWeights"}) THEN {"weights"} ELSE {})

Next == /\ \E r \in Request : Begin(r) \/ Continue(r)
        /\ raced' = raced \cup Overtakes

Spec == Init /\ [][Next]_vars

-----------------------------------------------------------------------------
(* Properties.                                                               *)

\* No feedback is lost: the model of record holds exactly the events whose
\* update committed since the last reset, however the requests interleave
\* ("the read-modify-write below cannot lose an update").
NoLostUpdate == weights = learned

Settled == \A r \in Request : pc[r] \in {"new", "done"}

\* With no request in flight and no failed call, the query path reads the
\* profile of record, or its cold-start default before there is one.  A save
\* that commits while an earlier one has yet to write its copy through is
\* excepted: the copies are written in any order, and the last stays.
ProfileSettles ==
    (Settled /\ faults = 0 /\ "profile" \notin raced) =>
        prefCache = IF profile.version = 0 THEN {} ELSE {profile}

\* Likewise for the learned model, whose copy without events is as neutral as
\* no copy: after a reset "the query path immediately falls back to cold-start
\* behavioral neutrality".
WeightsSettle ==
    (Settled /\ faults = 0 /\ "weights" \notin raced) => UNION weightCache = weights
=============================================================================
