---------------------------- MODULE TenantCipher ----------------------------
(* One tenant's data-encryption key (DEK) as platform/crypto manages it: it  *)
(* is minted lazily by the first Encrypt, persisted wrapped in a store that  *)
(* several replicas of a service share, cached unwrapped by each replica,    *)
(* and destroyed by the erasure cascade (DEKStore.Delete, then Forget on the *)
(* replica that runs the cascade).                                           *)
(*                                                                           *)
(* A call reads the cache, the store and the cache again in separate         *)
(* critical sections; every step between two of them is an action here.      *)
(* Keys are the numbers 1, 2, ... in the order they are minted; wrapping is  *)
(* the key itself, bound to the tenant.  Tenants share no state in this      *)
(* code, so one is enough.                                                   *)
EXTENDS Integers, FiniteSets, TLC, TLAPS

CONSTANTS Replica,    \* processes with a TenantCipher over the same DEKStore
          Slot,       \* concurrent calls a replica may have in flight
          MaxKeys,    \* bound: DEKs minted
          MaxShreds   \* bound: erasures

ASSUME BoundsAreNatural == MaxKeys \in Nat /\ MaxShreds \in Nat

VARIABLES stored,     \* the wrapped DEK in the store, NoKey when absent
          cached,     \* replica -> the key in its aeads map, or NoKey
          pc,         \* call -> where it is in Encrypt or Decrypt
          create,     \* call -> TRUE for Encrypt (aeadFor's create argument)
          dek,        \* call -> the key it holds, or NoKey
          minted,     \* how many DEKs have been generated
          erasing,    \* the replicas between Delete and Forget
          shreds,     \* erasures begun
          sealed,     \* history: the keys some ciphertext is sealed under
          everStored, \* history: the keys that have been in the store
          forgotten   \* history: replica -> destroyed keys it holds nowhere any more

vars == <<stored, cached, pc, create, dek, minted, erasing, shreds, sealed,
          everStored, forgotten>>

NoKey == 0
Key == 1..MaxKeys
Call == Replica \X Slot
Home(c) == c[1]
Destroyed == everStored \ {stored}

\* Replicas, and the calls of a replica, are interchangeable.
Symmetry == {f @@ g : f \in Permutations(Replica), g \in Permutations(Slot)}

TypeOK == /\ stored \in Key \cup {NoKey}
          /\ cached \in [Replica -> Key \cup {NoKey}]
          /\ pc \in [Call -> {"idle", "load", "put", "reread", "insert", "use"}]
          /\ create \in [Call -> BOOLEAN]
          /\ dek \in [Call -> Key \cup {NoKey}]
          /\ minted \in 0..MaxKeys
          /\ erasing \subseteq Replica
          /\ shreds \in 0..MaxShreds
          /\ sealed \subseteq Key
          /\ everStored \subseteq Key
          /\ forgotten \in [Replica -> SUBSET Key]

Init == /\ stored = NoKey
        /\ cached = [r \in Replica |-> NoKey]
        /\ pc = [c \in Call |-> "idle"]
        /\ create = [c \in Call |-> FALSE]
        /\ dek = [c \in Call |-> NoKey]
        /\ minted = 0
        /\ erasing = {}
        /\ shreds = 0
        /\ sealed = {}
        /\ everStored = {}
        /\ forgotten = [r \in Replica |-> {}]

Goto(c, label, key) == /\ pc' = [pc EXCEPT ![c] = label]
                       /\ dek' = [dek EXCEPT ![c] = key]

-----------------------------------------------------------------------------
(* Calls.                                                                    *)

\* aeadFor's first look at the map: a hit returns at once, a miss goes on to
\* the store.  Encrypt passes create = true, Decrypt false; a Decrypt is only
\* made of a ciphertext that exists.
aeadFor(c, mint) ==
    /\ pc[c] = "idle"
    /\ create' = [create EXCEPT ![c] = mint]
    /\ \/ cached[Home(c)] # NoKey /\ Goto(c, "use", cached[Home(c)])
       \/ cached[Home(c)] = NoKey /\ Goto(c, "load", NoKey)
    /\ UNCHANGED <<stored, cached, minted, erasing, shreds, sealed, everStored, forgotten>>

Encrypt(c) == aeadFor(c, TRUE)
Decrypt(c) == sealed # {} /\ aeadFor(c, FALSE)

\* GetWrappedDEK and UnwrapDEK.  Absent: Decrypt fails with ErrDEKNotFound,
\* Encrypt generates and wraps a DEK of its own.
loadDEK(c) ==
    /\ pc[c] = "load"
    /\ \/ stored # NoKey /\ Goto(c, "insert", stored) /\ UNCHANGED minted
       \/ stored = NoKey /\ ~create[c] /\ Goto(c, "idle", NoKey) /\ UNCHANGED minted
       \/ /\ stored = NoKey /\ create[c] /\ minted < MaxKeys
          /\ minted' = minted + 1
          /\ Goto(c, "put", minted + 1)
    /\ UNCHANGED <<stored, cached, create, erasing, shreds, sealed, everStored, forgotten>>

\* Mutant: the last writer wins.
PutOverwrites(c) ==
    /\ pc[c] = "put"
    /\ stored' = dek[c] /\ everStored' = everStored \cup {dek[c]}
    /\ Goto(c, "reread", dek[c])
    /\ UNCHANGED <<cached, create, minted, erasing, shreds, sealed, forgotten>>

\* PutWrappedDEK, first writer wins: INSERT ... ON CONFLICT DO NOTHING, or the
\* hard link that fails with ErrExist.  An error, before or after the row is
\* written, is remembered and the store is read again all the same.
PutWrappedDEK(c) ==
    /\ pc[c] = "put"
    /\ \/ /\ stored = NoKey
          /\ stored' = dek[c] /\ everStored' = everStored \cup {dek[c]}
       \/ UNCHANGED <<stored, everStored>>
    /\ Goto(c, "reread", dek[c])
    /\ UNCHANGED <<cached, create, minted, erasing, shreds, sealed, forgotten>>

\* Mutant: the key that was just generated is used without asking the store.
TrustsOwnKey(c) ==
    /\ pc[c] = "reread"
    /\ Goto(c, "insert", dek[c])
    /\ UNCHANGED <<stored, cached, create, minted, erasing, shreds, sealed, everStored, forgotten>>

\* provisionDEK's read-back: whatever the store holds is the tenant's DEK; the
\* call fails when it holds nothing.
provisionDEK(c) ==
    /\ pc[c] = "reread"
    /\ IF stored = NoKey THEN Goto(c, "idle", NoKey) ELSE Goto(c, "insert", stored)
    /\ UNCHANGED <<stored, cached, create, minted, erasing, shreds, sealed, everStored, forgotten>>

\* aeadFor's second critical section: keep the entry that is there, else add
\* one.
Insert(c) ==
    /\ pc[c] = "insert"
    /\ LET k == IF cached[Home(c)] # NoKey THEN cached[Home(c)] ELSE dek[c]
       IN  /\ cached' = [cached EXCEPT ![Home(c)] = k]
           /\ Goto(c, "use", k)
    /\ UNCHANGED <<stored, create, minted, erasing, shreds, sealed, everStored, forgotten>>

\* Seal or Open with the key in hand, and return.
Use(c) ==
    /\ pc[c] = "use"
    /\ sealed' = IF create[c] THEN sealed \cup {dek[c]} ELSE sealed
    /\ Goto(c, "idle", NoKey)
    /\ UNCHANGED <<stored, cached, create, minted, erasing, shreds, everStored, forgotten>>

\* The store, the KEK provider or the context fails the call.
Fails(c) ==
    /\ pc[c] \in {"load", "reread"}
    /\ Goto(c, "idle", NoKey)
    /\ UNCHANGED <<stored, cached, create, minted, erasing, shreds, sealed, everStored, forgotten>>

Work(c) == \/ Encrypt(c) \/ Decrypt(c) \/ loadDEK(c) \/ PutWrappedDEK(c)
           \/ provisionDEK(c) \/ Insert(c) \/ Use(c) \/ Fails(c)

-----------------------------------------------------------------------------
(* Erasure and restarts.                                                     *)

\* The cascade's step 1 on replica r: DEKStore.Delete ...
Delete(r) ==
    /\ r \notin erasing /\ shreds < MaxShreds
    /\ stored' = NoKey
    /\ erasing' = erasing \cup {r} /\ shreds' = shreds + 1
    /\ UNCHANGED <<cached, pc, create, dek, minted, sealed, everStored, forgotten>>

\* The keys that calls in flight on r are about to cache or to use: Forget
\* cannot take those away.
InHand(r) == {dek[c] : c \in {d \in Call : Home(d) = r /\ pc[d] \in {"insert", "use"}}}

\* Mutant: the cached AEAD is left in place.
ForgetNothing(r) ==
    /\ r \in erasing
    /\ forgotten' = [forgotten EXCEPT ![r] = @ \cup (Destroyed \ InHand(r))]
    /\ erasing' = erasing \ {r}
    /\ UNCHANGED <<stored, cached, pc, create, dek, minted, shreds, sealed, everStored>>

\* ... then TenantCipher.Forget.
Forget(r) ==
    /\ r \in erasing
    /\ cached' = [cached EXCEPT ![r] = NoKey]
    /\ forgotten' = [forgotten EXCEPT ![r] = @ \cup (Destroyed \ InHand(r))]
    /\ erasing' = erasing \ {r}
    /\ UNCHANGED <<stored, pc, create, dek, minted, shreds, sealed, everStored>>

\* A replica is killed and comes back: its map and its calls are gone, and so
\* is the cascade it was running (the caller retries it).
Restart(r) ==
    /\ cached' = [cached EXCEPT ![r] = NoKey]
    /\ pc' = [c \in Call |-> IF Home(c) = r THEN "idle" ELSE pc[c]]
    /\ dek' = [c \in Call |-> IF Home(c) = r THEN NoKey ELSE dek[c]]
    /\ erasing' = erasing \ {r}
    /\ UNCHANGED <<stored, create, minted, shreds, sealed, everStored, forgotten>>

Next == \/ \E c \in Call : Work(c)
        \/ \E r \in Replica : Delete(r) \/ Forget(r) \/ Restart(r)

Spec == Init /\ [][Next]_vars

-----------------------------------------------------------------------------
(* Properties.                                                               *)

\* A key that lost the first-encrypt race is never used: every key that seals
\* a ciphertext or sits in a replica's cache is one the store has held
\* (provisionDEK's read-back; "concurrent first-encrypts converge").
OnlyStoredKeys == /\ sealed \subseteq everStored
                  /\ \A r \in Replica : cached[r] \in everStored \cup {NoKey}

\* Until the tenant is erased there is one DEK: all ciphertexts are sealed
\* under the stored key and every cache, on every replica, holds that key or
\* none, so whatever was encrypted anywhere can be decrypted everywhere.
SealedReadable ==
    shreds = 0 => /\ sealed \subseteq {stored}
                  /\ \A r \in Replica : cached[r] \in {stored, NoKey}

\* A replica that has forgotten a destroyed key never caches or uses it again,
\* whatever its own calls and the other replicas do: "Forget ensures no
\* in-memory AEAD can keep decrypting the tenant's stragglers".  A key in the
\* hand of a call while Forget runs is not forgotten: the call may cache it.
ForgottenForGood ==
    \A r \in Replica : forgotten[r] \cap ({cached[r]} \cup InHand(r)) = {}

-----------------------------------------------------------------------------
(* Proofs, for any number of replicas, concurrent calls, minted keys and     *)
(* erasures.                                                                 *)

\* The key a call is about to cache or to use has been in the store; one it is
\* about to put is a real key.
Held == \A c \in Call : /\ pc[c] \in {"insert", "use"} => dek[c] \in everStored
                        /\ pc[c] = "put" => dek[c] \in Key

\* The store's key is on record, and before the first erasure it is the only
\* one that is.
OneKey == /\ stored \in everStored \cup {NoKey}
          /\ shreds = 0 => everStored \subseteq {stored}

IInv == TypeOK /\ OnlyStoredKeys /\ Held /\ OneKey

-----------------------------------------------------------------------------
LEMMA HomeIsReplica == \A c \in Call : Home(c) \in Replica
  BY DEF Call, Home

\* Moving one call leaves the program counters and keys well typed.
LEMMA GotoType ==
  ASSUME TypeOK, NEW c \in Call, NEW key \in Key \cup {NoKey},
         NEW label \in {"idle", "load", "put", "reread", "insert", "use"},
         Goto(c, label, key)
  PROVE  /\ pc' \in [Call -> {"idle", "load", "put", "reread", "insert", "use"}]
         /\ dek' \in [Call -> Key \cup {NoKey}]
  BY DEF TypeOK, Goto

\* A call moved to a place where it holds a key satisfying Held's demand of
\* that place keeps Held, whatever the record gains.
LEMMA GotoHeld ==
  ASSUME TypeOK, Held, NEW c \in Call, NEW key, NEW label,
         Goto(c, label, key), everStored \subseteq everStored',
         label \in {"insert", "use"} => key \in everStored',
         label = "put" => key \in Key
  PROVE  Held'
  <1> SUFFICES ASSUME NEW d \in Call
               PROVE  /\ pc'[d] \in {"insert", "use"} => dek'[d] \in everStored'
                      /\ pc'[d] = "put" => dek'[d] \in Key
      BY DEF Held, Key
  <1>1. CASE d = c
    <2>1. pc'[d] = label /\ dek'[d] = key
        BY <1>1 DEF TypeOK, Goto
    <2> QED BY <2>1
  <1>2. CASE d # c
    <2>1. pc'[d] = pc[d] /\ dek'[d] = dek[d]
        BY <1>2 DEF TypeOK, Goto
    <2> QED BY <2>1 DEF Held
  <1> QED BY <1>1, <1>2

-----------------------------------------------------------------------------
LEMMA InitIInv == Init => IInv
  <1> SUFFICES ASSUME Init PROVE IInv OBVIOUS
  <1>1. TypeOK
      BY BoundsAreNatural DEF Init, TypeOK, NoKey, Key
  <1>2. OnlyStoredKeys /\ Held /\ OneKey
      BY DEF Init, OnlyStoredKeys, Held, OneKey, NoKey
  <1> QED BY <1>1, <1>2 DEF IInv

LEMMA aeadForIInv ==
  ASSUME IInv, NEW c \in Call, NEW mint \in BOOLEAN, aeadFor(c, mint)
  PROVE  IInv'
  <1> USE HomeIsReplica
  <1>1. PICK label \in {"use", "load"}, key \in Key \cup {NoKey} :
           Goto(c, label, key) /\ (label = "use" => key \in everStored)
      BY DEF IInv, TypeOK, OnlyStoredKeys, aeadFor
  <1>2. TypeOK'
      BY <1>1, GotoType DEF IInv, aeadFor, TypeOK, Key
  <1>3. Held'
      BY <1>1, GotoHeld DEF IInv, aeadFor
  <1>4. OnlyStoredKeys' /\ OneKey'
      BY DEF IInv, aeadFor, OnlyStoredKeys, OneKey
  <1> QED BY <1>2, <1>3, <1>4 DEF IInv

LEMMA loadDEKIInv ==
  ASSUME IInv, NEW c \in Call, loadDEK(c)
  PROVE  IInv'
  <1>1. PICK label \in {"insert", "idle", "put"}, key \in Key \cup {NoKey} :
           /\ Goto(c, label, key)
           /\ label = "insert" => key \in everStored
           /\ label = "put" => key \in Key
           /\ minted' \in 0..MaxKeys
    <2>1. CASE stored # NoKey
        BY <2>1 DEF IInv, TypeOK, OneKey, loadDEK
    <2>2. CASE stored = NoKey /\ ~create[c]
        BY <2>2 DEF IInv, TypeOK, loadDEK
    <2>3. CASE stored = NoKey /\ create[c]
      <3>1. minted + 1 \in Key
          BY <2>3, BoundsAreNatural DEF IInv, TypeOK, loadDEK, Key
      <3> QED BY <2>3, <3>1, BoundsAreNatural DEF loadDEK, Key
    <2> QED BY <2>1, <2>2, <2>3
  <1>2. TypeOK'
      BY <1>1, GotoType DEF IInv, loadDEK, TypeOK, Key
  <1>3. Held'
      BY <1>1, GotoHeld DEF IInv, loadDEK
  <1>4. OnlyStoredKeys' /\ OneKey'
      BY DEF IInv, loadDEK, OnlyStoredKeys, OneKey
  <1> QED BY <1>2, <1>3, <1>4 DEF IInv

LEMMA PutWrappedDEKIInv ==
  ASSUME IInv, NEW c \in Call, PutWrappedDEK(c)
  PROVE  IInv'
  <1>1. dek[c] \in Key /\ Goto(c, "reread", dek[c])
      BY DEF IInv, Held, PutWrappedDEK
  <1>2. /\ everStored \subseteq everStored' /\ everStored' \subseteq Key
        /\ stored' \in Key \cup {NoKey}
      BY <1>1 DEF IInv, TypeOK, PutWrappedDEK
  <1>3. TypeOK'
      BY <1>1, <1>2, GotoType DEF IInv, PutWrappedDEK, TypeOK, Key
  <1>4. Held'
      BY <1>1, <1>2, GotoHeld DEF IInv, PutWrappedDEK
  <1>5. OnlyStoredKeys'
      BY <1>2 DEF IInv, PutWrappedDEK, OnlyStoredKeys
  <1>6. OneKey'
    <2>1. CASE stored = NoKey /\ stored' = dek[c] /\ everStored' = everStored \cup {dek[c]}
      <3>1. shreds = 0 => everStored = {}
          BY <2>1 DEF IInv, TypeOK, OneKey, NoKey, Key
      <3> QED BY <2>1, <3>1 DEF OneKey, PutWrappedDEK
    <2>2. CASE UNCHANGED <<stored, everStored>>
        BY <2>2 DEF IInv, OneKey, PutWrappedDEK
    <2> QED BY <2>1, <2>2 DEF PutWrappedDEK
  <1> QED BY <1>3, <1>4, <1>5, <1>6 DEF IInv

LEMMA provisionDEKIInv ==
  ASSUME IInv, NEW c \in Call, provisionDEK(c)
  PROVE  IInv'
  <1>1. PICK label \in {"idle", "insert"}, key \in Key \cup {NoKey} :
           Goto(c, label, key) /\ (label = "insert" => key \in everStored)
      BY DEF IInv, TypeOK, OneKey, provisionDEK
  <1>2. TypeOK'
      BY <1>1, GotoType DEF IInv, provisionDEK, TypeOK, Key
  <1>3. Held'
      BY <1>1, GotoHeld DEF IInv, provisionDEK
  <1>4. OnlyStoredKeys' /\ OneKey'
      BY DEF IInv, provisionDEK, OnlyStoredKeys, OneKey
  <1> QED BY <1>2, <1>3, <1>4 DEF IInv

LEMMA InsertIInv ==
  ASSUME IInv, NEW c \in Call, Insert(c)
  PROVE  IInv'
  <1> USE HomeIsReplica
  <1>1. PICK k \in everStored :
           Goto(c, "use", k) /\ cached' = [cached EXCEPT ![Home(c)] = k]
      BY Zenon DEF IInv, OnlyStoredKeys, Held, Insert
  <1>2. k \in Key
      BY DEF IInv, TypeOK
  <1>3. TypeOK'
      BY <1>1, <1>2, GotoType DEF IInv, Insert, TypeOK, Key
  <1>4. Held'
      BY <1>1, GotoHeld DEF IInv, Insert
  <1>5. OnlyStoredKeys' /\ OneKey'
      BY <1>1 DEF IInv, TypeOK, Insert, OnlyStoredKeys, OneKey
  <1> QED BY <1>3, <1>4, <1>5 DEF IInv

LEMMA UseIInv ==
  ASSUME IInv, NEW c \in Call, Use(c)
  PROVE  IInv'
  <1>1. sealed' \subseteq everStored /\ sealed' \subseteq Key
      BY DEF IInv, TypeOK, OnlyStoredKeys, Held, Use
  <1>2. TypeOK'
      BY <1>1, GotoType, Zenon DEF IInv, Use, TypeOK, Key
  <1>3. Held'
      BY GotoHeld DEF IInv, Use
  <1>4. OnlyStoredKeys' /\ OneKey'
      BY <1>1 DEF IInv, Use, OnlyStoredKeys, OneKey
  <1> QED BY <1>2, <1>3, <1>4 DEF IInv

LEMMA FailsIInv ==
  ASSUME IInv, NEW c \in Call, Fails(c)
  PROVE  IInv'
  <1>1. TypeOK'
      BY GotoType, Zenon DEF IInv, Fails, TypeOK, Key
  <1>2. Held'
      BY GotoHeld DEF IInv, Fails
  <1>3. OnlyStoredKeys' /\ OneKey'
      BY DEF IInv, Fails, OnlyStoredKeys, OneKey
  <1> QED BY <1>1, <1>2, <1>3 DEF IInv

LEMMA WorkIInv ==
  ASSUME IInv, NEW c \in Call, Work(c)
  PROVE  IInv'
  BY aeadForIInv, loadDEKIInv, PutWrappedDEKIInv, provisionDEKIInv, InsertIInv,
     UseIInv, FailsIInv, Zenon DEF Work, Encrypt, Decrypt

LEMMA ErasureIInv ==
  ASSUME IInv, NEW r \in Replica, Delete(r) \/ Forget(r) \/ Restart(r)
  PROVE  IInv'
  <1>1. CASE Delete(r)
    <2>1. shreds' \in 0..MaxShreds /\ shreds' # 0 /\ stored' = NoKey
        BY <1>1, BoundsAreNatural DEF IInv, TypeOK, Delete
    <2>2. TypeOK'
        BY <1>1, <2>1 DEF IInv, TypeOK, Delete, Key
    <2>3. OnlyStoredKeys' /\ Held' /\ OneKey'
        BY <1>1, <2>1 DEF IInv, Delete, OnlyStoredKeys, Held, OneKey, Key
    <2> QED BY <2>2, <2>3 DEF IInv
  <1>2. CASE Forget(r)
    <2>1. TypeOK'
        BY <1>2, Zenon DEF IInv, TypeOK, Forget, Destroyed, Key
    <2>2. OnlyStoredKeys' /\ Held' /\ OneKey'
        BY <1>2 DEF IInv, TypeOK, Forget, OnlyStoredKeys, Held, OneKey, Key
    <2> QED BY <2>1, <2>2 DEF IInv
  <1>3. CASE Restart(r)
    <2>1. TypeOK'
        BY <1>3 DEF IInv, TypeOK, Restart, Key
    <2>2. Held'
        BY <1>3 DEF IInv, Restart, Held, Key
    <2>3. OnlyStoredKeys' /\ OneKey'
        BY <1>3 DEF IInv, TypeOK, Restart, OnlyStoredKeys, OneKey
    <2> QED BY <2>1, <2>2, <2>3 DEF IInv
  <1> QED BY <1>1, <1>2, <1>3

LEMMA StutterIInv == IInv /\ UNCHANGED vars => IInv'
  BY DEF IInv, vars, TypeOK, OnlyStoredKeys, Held, OneKey, Key

LEMMA NextIInv == IInv /\ [Next]_vars => IInv'
  BY WorkIInv, ErasureIInv, StutterIInv DEF Next

THEOREM Inductive == Spec => []IInv
  BY InitIInv, NextIInv, PTL DEF Spec

\* Every variable of the key cache keeps its type.
THEOREM TypeCorrect == Spec => []TypeOK
  <1>1. IInv => TypeOK
      BY DEF IInv
  <1> QED BY <1>1, Inductive, PTL

\* Whatever calls race and whichever of their store operations fail, a DEK
\* that lost the first-encrypt race seals nothing and is cached nowhere:
\* provisionDEK's read-back makes them converge on a key the store has held.
THEOREM Converges == Spec => []OnlyStoredKeys
  <1>1. IInv => OnlyStoredKeys
      BY DEF IInv
  <1> QED BY <1>1, Inductive, PTL

\* Until the tenant is erased, every ciphertext written by any replica is
\* sealed under the stored DEK, and no replica caches another one.
THEOREM NothingOrphaned == Spec => []SealedReadable
  <1>1. IInv => SealedReadable
      BY DEF IInv, OnlyStoredKeys, OneKey, SealedReadable
  <1> QED BY <1>1, Inductive, PTL

-----------------------------------------------------------------------------
\* Every minted key is new: a key about to be put has never been in the store,
\* and no two calls are about to put the same one.
Fresh == /\ everStored \subseteq 1..minted
         /\ \A c \in Call : pc[c] = "put" => dek[c] \in (1..minted) \ everStored
         /\ \A c, d \in Call : pc[c] = "put" /\ pc[d] = "put" /\ c # d => dek[c] # dek[d]

\* A forgotten key is one that the store held and holds no longer.
Gone == \A r \in Replica : \A k \in forgotten[r] : k \in everStored /\ k # stored

\* No call of r is about to cache or to use a key that r has forgotten, and r
\* does not cache one.
Out == /\ \A r \in Replica : cached[r] \notin forgotten[r]
       /\ \A c \in Call : pc[c] \in {"insert", "use"} => dek[c] \notin forgotten[Home(c)]

FInv == IInv /\ Fresh /\ Gone /\ Out

LEMMA InitFInv == Init => FInv
  BY InitIInv DEF Init, FInv, Fresh, Gone, Out, Call, Home, NoKey

\* What a step of one call does to the others: nothing.
LEMMA GotoOthers ==
  ASSUME TypeOK, NEW c \in Call, NEW label, NEW key, Goto(c, label, key)
  PROVE  /\ pc'[c] = label /\ dek'[c] = key
         /\ \A d \in Call : d # c => pc'[d] = pc[d] /\ dek'[d] = dek[d]
  BY DEF TypeOK, Goto

\* A call that moves anywhere but to "put" keeps Fresh.
LEMMA GotoFresh ==
  ASSUME TypeOK, Fresh, NEW c \in Call, NEW key, NEW label, Goto(c, label, key),
         label # "put", UNCHANGED <<minted, everStored>>
  PROVE  Fresh'
  BY GotoOthers DEF Fresh

\* A call that comes to cache or to use a key its replica has not forgotten
\* keeps Out.
LEMMA GotoOut ==
  ASSUME TypeOK, Out, NEW c \in Call, NEW key, NEW label, Goto(c, label, key),
         label \in {"insert", "use"} => key \notin forgotten[Home(c)],
         UNCHANGED <<cached, forgotten>>
  PROVE  Out'
  <1> SUFFICES ASSUME NEW d \in Call, pc'[d] \in {"insert", "use"}
               PROVE  dek'[d] \notin forgotten[Home(d)]
      BY DEF Out, Home
  <1>1. CASE d = c
      BY <1>1, GotoOthers
  <1>2. CASE d # c
      BY <1>2, GotoOthers DEF Out
  <1> QED BY <1>1, <1>2

LEMMA aeadForFInv ==
  ASSUME FInv, NEW c \in Call, NEW mint \in BOOLEAN, aeadFor(c, mint)
  PROVE  Fresh' /\ Gone' /\ Out'
  <1> USE HomeIsReplica
  <1>1. PICK label \in {"use", "load"}, key \in Key \cup {NoKey} :
           Goto(c, label, key) /\ (label = "use" => key \notin forgotten[Home(c)])
      BY DEF FInv, IInv, TypeOK, Out, aeadFor
  <1>2. Fresh'
      BY <1>1, GotoFresh DEF FInv, IInv, aeadFor
  <1>3. Out'
      BY <1>1, GotoOut DEF FInv, IInv, aeadFor
  <1> QED BY <1>2, <1>3 DEF FInv, Gone, aeadFor

LEMMA loadDEKFInv ==
  ASSUME FInv, NEW c \in Call, loadDEK(c)
  PROVE  Fresh' /\ Gone' /\ Out'
  <1> USE HomeIsReplica
  <1>1. CASE stored # NoKey
    <2>1. Goto(c, "insert", stored) /\ UNCHANGED minted
        BY <1>1 DEF loadDEK
    <2>2. Fresh'
        BY <2>1, GotoFresh DEF FInv, IInv, loadDEK
    <2>3. stored \notin forgotten[Home(c)]
        BY DEF FInv, Gone
    <2>4. Out'
        BY <2>1, <2>3, GotoOut DEF FInv, IInv, loadDEK
    <2> QED BY <2>2, <2>4 DEF FInv, Gone, loadDEK
  <1>2. CASE stored = NoKey /\ ~create[c]
    <2>1. Goto(c, "idle", NoKey) /\ UNCHANGED minted
        BY <1>2 DEF loadDEK
    <2>2. Fresh'
        BY <2>1, GotoFresh DEF FInv, IInv, loadDEK
    <2>3. Out'
        BY <2>1, GotoOut DEF FInv, IInv, loadDEK
    <2> QED BY <2>2, <2>3 DEF FInv, Gone, loadDEK
  <1>3. CASE stored = NoKey /\ create[c]
    <2>1. Goto(c, "put", minted + 1) /\ minted' = minted + 1 /\ everStored' = everStored
        BY <1>3 DEF loadDEK
    <2>2. minted \in Nat
        BY BoundsAreNatural DEF FInv, IInv, TypeOK
    <2>3. /\ pc'[c] = "put" /\ dek'[c] = minted + 1
          /\ \A d \in Call : d # c => pc'[d] = pc[d] /\ dek'[d] = dek[d]
        BY <2>1, GotoOthers DEF FInv, IInv
    <2>4. Fresh'
        BY <2>1, <2>2, <2>3 DEF FInv, Fresh
    <2>5. Out'
        BY <2>1, GotoOut DEF FInv, IInv, loadDEK
    <2> QED BY <2>4, <2>5 DEF FInv, Gone, loadDEK
  <1> QED BY <1>1, <1>2, <1>3

LEMMA PutWrappedDEKFInv ==
  ASSUME FInv, NEW c \in Call, PutWrappedDEK(c)
  PROVE  Fresh' /\ Gone' /\ Out'
  <1>1. Goto(c, "reread", dek[c]) /\ UNCHANGED <<minted, cached, forgotten>>
      BY DEF PutWrappedDEK
  <1>2. /\ pc'[c] = "reread"
        /\ \A d \in Call : d # c => pc'[d] = pc[d] /\ dek'[d] = dek[d]
      BY <1>1, GotoOthers DEF FInv, IInv
  <1>3. /\ dek[c] \in (1..minted) \ everStored
        /\ \A d \in Call : pc[d] = "put" /\ d # c => dek[d] # dek[c]
      BY DEF FInv, Fresh, PutWrappedDEK
  <1>4. everStored' \in {everStored, everStored \cup {dek[c]}}
      BY DEF PutWrappedDEK
  <1>5. Fresh'
      BY <1>1, <1>2, <1>3, <1>4 DEF FInv, Fresh
  <1>6. Gone'
      BY <1>1, <1>3 DEF FInv, Gone, PutWrappedDEK
  <1>7. Out'
      BY <1>1, GotoOut DEF FInv, IInv
  <1> QED BY <1>5, <1>6, <1>7

LEMMA provisionDEKFInv ==
  ASSUME FInv, NEW c \in Call, provisionDEK(c)
  PROVE  Fresh' /\ Gone' /\ Out'
  <1>1. stored \notin forgotten[Home(c)]
      BY HomeIsReplica DEF FInv, Gone
  <1>2. PICK label \in {"idle", "insert"}, key \in Key \cup {NoKey} :
           Goto(c, label, key) /\ (label = "insert" => key = stored)
      BY DEF FInv, IInv, TypeOK, provisionDEK
  <1>3. Fresh'
      BY <1>2, GotoFresh DEF FInv, IInv, provisionDEK
  <1>4. Out'
      BY <1>1, <1>2, GotoOut DEF FInv, IInv, provisionDEK
  <1> QED BY <1>3, <1>4 DEF FInv, Gone, provisionDEK

LEMMA InsertFInv ==
  ASSUME FInv, NEW c \in Call, Insert(c)
  PROVE  Fresh' /\ Gone' /\ Out'
  <1> USE HomeIsReplica
  <1>1. PICK k :
           /\ Goto(c, "use", k) /\ cached' = [cached EXCEPT ![Home(c)] = k]
           /\ k \notin forgotten[Home(c)]
      BY Zenon DEF FInv, Out, Insert
  <1>2. Fresh'
      BY <1>1, GotoFresh DEF FInv, IInv, Insert
  <1>3. /\ pc'[c] = "use" /\ dek'[c] = k
        /\ \A d \in Call : d # c => pc'[d] = pc[d] /\ dek'[d] = dek[d]
      BY <1>1, GotoOthers DEF FInv, IInv
  <1>4. forgotten' = forgotten
      BY DEF Insert
  <1>5. \A r \in Replica : cached'[r] \notin forgotten[r]
      BY <1>1 DEF FInv, IInv, TypeOK, Out
  <1>6. \A d \in Call : pc'[d] \in {"insert", "use"} => dek'[d] \notin forgotten[Home(d)]
      BY <1>1, <1>3 DEF FInv, Out
  <1>7. Out'
      BY <1>4, <1>5, <1>6 DEF Out, Home
  <1> QED BY <1>2, <1>7 DEF FInv, Gone, Insert

LEMMA WorkFInv ==
  ASSUME FInv, NEW c \in Call, Work(c)
  PROVE  Fresh' /\ Gone' /\ Out'
  <1>1. CASE Use(c) \/ Fails(c)
    <2>1. /\ Goto(c, "idle", NoKey)
          /\ UNCHANGED <<stored, cached, minted, everStored, forgotten>>
        BY <1>1 DEF Use, Fails
    <2>2. Fresh'
        BY <2>1, GotoFresh DEF FInv, IInv
    <2>3. Out'
        BY <2>1, GotoOut DEF FInv, IInv
    <2> QED BY <2>1, <2>2, <2>3 DEF FInv, Gone
  <1> QED BY <1>1, aeadForFInv, loadDEKFInv, PutWrappedDEKFInv, provisionDEKFInv,
             InsertFInv, Zenon DEF Work, Encrypt, Decrypt

LEMMA ErasureFInv ==
  ASSUME FInv, NEW r \in Replica, Delete(r) \/ Forget(r) \/ Restart(r)
  PROVE  Fresh' /\ Gone' /\ Out'
  <1>1. CASE Delete(r)
    <2>1. Fresh' /\ Out'
        BY <1>1 DEF FInv, Fresh, Out, Delete, Home
    <2>2. \A k \in everStored : k # NoKey
        BY DEF FInv, IInv, TypeOK, Key, NoKey
    <2>3. Gone'
        BY <1>1, <2>2 DEF FInv, Gone, Delete
    <2> QED BY <2>1, <2>3
  <1>2. CASE Forget(r)
    <2>1. Fresh'
        BY <1>2 DEF FInv, Fresh, Forget
    <2>2. /\ forgotten'[r] = forgotten[r] \cup (Destroyed \ InHand(r))
          /\ cached'[r] = NoKey
          /\ \A q \in Replica : q # r => forgotten'[q] = forgotten[q] /\ cached'[q] = cached[q]
          /\ UNCHANGED <<stored, everStored, pc, dek>>
        BY <1>2 DEF Forget, FInv, IInv, TypeOK
    <2>3. Gone'
        BY <2>2 DEF FInv, Gone, Destroyed
    <2>4. NoKey \notin everStored
        BY DEF FInv, IInv, TypeOK, Key, NoKey
    <2>5. \A q \in Replica : cached'[q] \notin forgotten'[q]
        BY <2>2, <2>4 DEF FInv, Out, Gone, Destroyed
    <2>6. ASSUME NEW d \in Call, pc[d] \in {"insert", "use"}
          PROVE  dek[d] \notin forgotten'[Home(d)]
      <3>1. dek[d] \notin forgotten[Home(d)]
          BY <2>6 DEF FInv, Out
      <3>2. dek[d] \in InHand(Home(d))
          BY <2>6 DEF InHand
      <3> QED BY <2>2, <3>1, <3>2, HomeIsReplica
    <2>7. Out'
        BY <2>2, <2>5, <2>6 DEF Out, Home
    <2> QED BY <2>1, <2>3, <2>7
  <1>3. CASE Restart(r)
    <2>1. /\ \A c \in Call : /\ Home(c) = r => pc'[c] = "idle"
                             /\ Home(c) # r => pc'[c] = pc[c] /\ dek'[c] = dek[c]
          /\ \A q \in Replica : cached'[q] \in {cached[q], NoKey}
          /\ UNCHANGED <<stored, minted, everStored, forgotten>>
        BY <1>3 DEF Restart, FInv, IInv, TypeOK
    <2>2. Fresh'
        BY <2>1 DEF FInv, Fresh
    <2>3. Gone'
        BY <2>1 DEF FInv, Gone
    <2>4. \A q \in Replica : NoKey \notin forgotten[q]
        BY DEF FInv, IInv, Gone, TypeOK, Key, NoKey
    <2>5. Out'
        BY <2>1, <2>4 DEF FInv, Out, Home
    <2> QED BY <2>2, <2>3, <2>5
  <1> QED BY <1>1, <1>2, <1>3

LEMMA NextFInv == FInv /\ [Next]_vars => FInv'
  <1> SUFFICES ASSUME FInv, [Next]_vars PROVE FInv' OBVIOUS
  <1>1. IInv'
      BY NextIInv DEF FInv
  <1>2. CASE Next
      BY <1>1, <1>2, WorkFInv, ErasureFInv DEF Next, FInv
  <1>3. CASE UNCHANGED vars
      BY <1>1, <1>3 DEF FInv, Fresh, Gone, Out, vars, Home
  <1> QED BY <1>2, <1>3

\* A destroyed DEK that a replica has forgotten stays out of that replica's
\* cache and out of its calls, whatever calls, replicas and erasures interleave.
THEOREM NeverRecalled == Spec => []ForgottenForGood
  <1>1. FInv => ForgottenForGood
      BY DEF FInv, Out, ForgottenForGood, InHand
  <1> QED BY <1>1, InitFInv, NextFInv, PTL DEF Spec
=============================================================================
