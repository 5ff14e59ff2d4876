--------------------------- MODULE ServicesProofs ---------------------------
(* Predictions, datasets, monitoring and the console are right for any      *)
(* number of threads, actors, rows and columns and any size of the cache,   *)
(* and so are they beside each other.                                       *)
EXTENDS MCServices, FiniteSetTheorems, SequenceTheorems, TLAPS

-----------------------------------------------------------------------------
(* Predictions: the threads share the cache without a lock.                 *)
Request ==
    {NotPredicting}
       \cup [at: {"looking"}, model: Registered, persist: BOOLEAN]
       \cup [at: Phases, model: Registered, persist: BOOLEAN, package: Packages]

Entry == [key: Registered, package: Packages]

PredictionTables ==
    /\ deployed \in [Registered -> BOOLEAN]
    /\ everDeployed \in SUBSET Registered
    /\ file \in [Registered -> Packages]
    /\ events \in SUBSET [model: Registered, package: Packages]

(* A thread has a model that was deployed, and a package of that model.     *)
RequestSound(w) ==
    predict[w] # NotPredicting =>
        /\ predict[w].model \in everDeployed
        /\ predict[w].at \in Phases => predict[w].package.model = predict[w].model

(* What is put aside for a key is a package of the model of that key.       *)
PackagesInPlace ==
    /\ \A m \in Registered : file[m].model = m /\ (deployed[m] => m \in everDeployed)
    /\ \A i \in DOMAIN cache : cache[i].package.model = cache[i].key
    /\ \A e \in events : e.package.model = e.model /\ e.model \in everDeployed
    /\ \A f \in feedback : f.event \in events /\ f.model = f.event.model

OneEntryPerKey == \A i, j \in DOMAIN cache : cache[i].key = cache[j].key => i = j

Keys == {cache[i].key : i \in DOMAIN cache}

(* The keys of the threads that are between their insertion and the end of  *)
(* their loop.  Such a thread answers for the entry of its key, whether it  *)
(* is the one that put it there last or not.                                *)
Pending == {m \in Registered :
               \E w \in Threads : /\ predict[w].at \in {"put", "trimming", "evicting"}
                                  /\ predict[w].model = m}

(* Inductive: what nobody answers for is within the limit.  The length      *)
(* itself is not bounded by the limit and the number of pending threads in  *)
(* a way that steps keep: a thread whose entry was evicted under it leaves  *)
(* without a test.                                                          *)
CacheInv ==
    /\ cache \in Seq(Entry)
    /\ OneEntryPerKey
    /\ Cardinality(Keys \ Pending) <= CacheLimit

PredictionInv ==
    /\ PredictionTables
    /\ predict \in [Threads -> Request]
    /\ PackagesInPlace
    /\ \A w \in Threads : RequestSound(w)
    /\ CacheInv

-----------------------------------------------------------------------------
(* An ordered dictionary has as many keys as entries, when no two entries   *)
(* have one key.                                                            *)
LEMMA KeysCounted ==
    ASSUME NEW s \in Seq(Entry)
    PROVE  LET K == {s[i].key : i \in DOMAIN s}
           IN  /\ IsFiniteSet(K)
               /\ Cardinality(K) <= Len(s)
               /\ (\A i, j \in DOMAIN s : s[i].key = s[j].key => i = j) => Cardinality(K) = Len(s)
<1> DEFINE K == {s[i].key : i \in DOMAIN s}
           n == Len(s)
           keyAt == [i \in 1..n |-> s[i].key]
<1>1. n \in Nat /\ DOMAIN s = 1..n
    OBVIOUS
<1>2. IsFiniteSet(1..n) /\ Cardinality(1..n) = n
    BY <1>1, FS_Interval
<1>3. keyAt \in Surjection(1..n, K) /\ keyAt \in [1..n -> K]
    BY <1>1 DEF Surjection
<1>4. ASSUME \A i, j \in DOMAIN s : s[i].key = s[j].key => i = j
      PROVE  keyAt \in Injection(1..n, K)
  <2>1. \A i, j \in 1..n : keyAt[i] = keyAt[j] => i = j
      BY <1>1, <1>4
  <2> HIDE DEF keyAt, K, n
  <2> QED BY <1>3, <2>1 DEF Injection, IsInjective
<1> HIDE DEF n, keyAt, K
<1>5. /\ IsFiniteSet(K) /\ Cardinality(K) <= n
      /\ keyAt \in Injection(1..n, K) => Cardinality(K) = n
    BY <1>2, <1>3, FS_Surjection
<1> QED BY <1>4, <1>5 DEF n, K

(* move_to_end keeps the entries and their number.                          *)
LEMMA MovedToEnd ==
    ASSUME NEW s \in Seq(Entry), NEW i \in DOMAIN s
    PROVE  LET t == Append(RemoveAt(s, i), s[i])
           IN  /\ t \in Seq(Entry) /\ Len(t) = Len(s)
               /\ \A j \in DOMAIN t :
                      t[j] = s[IF j < i THEN j ELSE IF j < Len(s) THEN j + 1 ELSE i]
<1> DEFINE a == SubSeq(s, 1, i - 1)
           b == SubSeq(s, i + 1, Len(s))
           r == a \o b
<1>1. Len(s) \in Nat /\ i \in 1..Len(s) /\ s[i] \in Entry
    OBVIOUS
<1>2. a \in Seq(Entry) /\ Len(a) = i - 1 /\ \A j \in 1..i-1 : a[j] = s[j]
    BY <1>1
<1>3. b \in Seq(Entry) /\ Len(b) = Len(s) - i /\ \A j \in 1..(Len(s) - i) : b[j] = s[i + j]
    BY <1>1
<1> HIDE DEF a, b
<1>4. r \in Seq(Entry) /\ Len(r) = Len(s) - 1
      /\ \A j \in 1..Len(r) : r[j] = IF j < i THEN a[j] ELSE b[j - (i - 1)]
  <2>1. /\ r \in Seq(Entry) /\ Len(r) = Len(a) + Len(b)
        /\ \A j \in 1..Len(a) + Len(b) : r[j] = IF j <= Len(a) THEN a[j] ELSE b[j - Len(a)]
    <3>1. a \in Seq(Entry) /\ b \in Seq(Entry)
        BY <1>2, <1>3
    <3> QED BY <3>1, ConcatProperties, Zenon
  <2> HIDE DEF r
  <2> QED BY <1>1, <1>2, <1>3, <2>1
<1> HIDE DEF r
<1>5. \A j \in 1..Len(r) : r[j] = IF j < i THEN s[j] ELSE s[j + 1]
  <2> SUFFICES ASSUME NEW j \in 1..Len(r) PROVE r[j] = IF j < i THEN s[j] ELSE s[j + 1]
      OBVIOUS
  <2>1. CASE j < i
      BY <1>1, <1>2, <1>4, <2>1
  <2>2. CASE ~(j < i)
    <3>1. j - (i - 1) \in 1..(Len(s) - i) /\ i + (j - (i - 1)) = j + 1
        BY <1>1, <1>4, <2>2
    <3> QED BY <1>3, <1>4, <2>2, <3>1
  <2> QED BY <2>1, <2>2
<1> DEFINE t == Append(r, s[i])
<1>6. t \in Seq(Entry) /\ Len(t) = Len(s) /\ t[Len(s)] = s[i]
      /\ \A j \in 1..(Len(s) - 1) : t[j] = r[j]
    BY <1>1, <1>4
<1> HIDE DEF t
<1>7. \A j \in DOMAIN t : t[j] = s[IF j < i THEN j ELSE IF j < Len(s) THEN j + 1 ELSE i]
    BY <1>1, <1>4, <1>5, <1>6
<1>8. t = Append(RemoveAt(s, i), s[i])
    BY DEF t, r, a, b, RemoveAt
<1> QED BY <1>6, <1>7, <1>8

(* Where the entries of a sequence were before the one at i moved to the    *)
(* end: no two were at one place.                                           *)
LEMMA OldPlaceIsUnique ==
    ASSUME NEW n \in Nat, NEW i \in 1..n, NEW j \in 1..n, NEW l \in 1..n,
           (IF j < i THEN j ELSE IF j < n THEN j + 1 ELSE i)
               = (IF l < i THEN l ELSE IF l < n THEN l + 1 ELSE i)
    PROVE  j = l
<1>1. CASE j < i
    BY <1>1
<1>2. CASE ~(j < i) /\ j < n
    BY <1>2
<1>3. CASE ~(j < i) /\ ~(j < n)
    BY <1>3
<1> QED BY <1>1, <1>2, <1>3

(* The cache keeps its invariant when what nobody answers for only shrinks, *)
(* or when the whole of it is within the limit.                             *)
LEMMA SettledWithin ==
    ASSUME CacheInv, cache' \in Seq(Entry), OneEntryPerKey',
           Keys' \ Pending' \subseteq Keys \ Pending \/ Len(cache') <= CacheLimit
    PROVE  CacheInv'
<1>1. IsFiniteSet(Keys) /\ IsFiniteSet(Keys \ Pending)
      /\ Cardinality(Keys \ Pending) \in Nat /\ Cardinality(Keys \ Pending) <= CacheLimit
  <2>1. IsFiniteSet(Keys)
      BY KeysCounted DEF CacheInv, Keys
  <2>2. IsFiniteSet(Keys \ Pending)
      BY <2>1, FS_Subset
  <2> QED BY <2>1, <2>2, FS_CardinalityType DEF CacheInv
<1>2. CASE Keys' \ Pending' \subseteq Keys \ Pending
  <2>1. /\ IsFiniteSet(Keys' \ Pending')
        /\ Cardinality(Keys' \ Pending') <= Cardinality(Keys \ Pending)
      BY <1>1, <1>2, FS_Subset
  <2>2. Cardinality(Keys' \ Pending') \in Nat
      BY <2>1, FS_CardinalityType
  <2> QED BY <1>1, <2>1, <2>2, CacheLimitIsNat DEF CacheInv
<1>3. CASE Len(cache') <= CacheLimit
  <2>1. IsFiniteSet(Keys') /\ Cardinality(Keys') <= Len(cache')
      BY KeysCounted DEF Keys
  <2>2. /\ IsFiniteSet(Keys' \ Pending')
        /\ Cardinality(Keys' \ Pending') <= Cardinality(Keys')
      BY <2>1, FS_Subset
  <2>3. Cardinality(Keys' \ Pending') \in Nat /\ Cardinality(Keys') \in Nat
      BY <2>1, <2>2, FS_CardinalityType
  <2> QED BY <1>3, <2>1, <2>2, <2>3, CacheLimitIsNat DEF CacheInv
<1> QED BY <1>2, <1>3

-----------------------------------------------------------------------------
InLoop == {"put", "trimming", "evicting"}

PhaseRequest == [at: Phases, model: Registered, persist: BOOLEAN, package: Packages]

(* The fields of a request, by where it is.                                 *)
LEMMA ThreadShape ==
    ASSUME predict \in [Threads -> Request], NEW w \in Threads
    PROVE  /\ predict[w].at \in {"none", "looking"} \cup Phases
           /\ predict[w].at = "none" <=> predict[w] = NotPredicting
           /\ predict[w].at = "looking" =>
                  predict[w] \in [at: {"looking"}, model: Registered, persist: BOOLEAN]
           /\ predict[w].at \in Phases => predict[w] \in PhaseRequest
BY DEF Request, NotPredicting, Phases, PhaseRequest

(* A thread that goes on keeps what it has.                                 *)
LEMMA GoesOn ==
    ASSUME predict \in [Threads -> Request], NEW w \in Threads, NEW at \in Phases,
           predict[w].at \in Phases, Goto(w, at)
    PROVE  \E q \in PhaseRequest :
               /\ predict' = [predict EXCEPT ![w] = q]
               /\ q.at = at /\ q.model = predict[w].model
               /\ q.package = predict[w].package
<1> DEFINE q == [predict[w] EXCEPT !.at = at]
<1>1. predict[w] \in PhaseRequest
    BY ThreadShape
<1>2. /\ q \in PhaseRequest /\ q.at = at /\ q.model = predict[w].model
      /\ q.package = predict[w].package
    BY <1>1 DEF PhaseRequest
<1>3. predict' = [predict EXCEPT ![w] = q]
    BY DEF Goto
<1> QED BY <1>2, <1>3

(* Whom a step of one thread leaves pending.                                *)
LEMMA PendingFollows ==
    ASSUME predict \in [Threads -> Request], NEW w \in Threads, NEW q \in Request,
           predict' = [predict EXCEPT ![w] = q]
    PROVE  /\ predict[w].at \notin InLoop => Pending \subseteq Pending'
           /\ q.at \in InLoop /\ q.model = predict[w].model => Pending \subseteq Pending'
           /\ \A m \in Pending : m # predict[w].model => m \in Pending'
           /\ q.at \in InLoop => q.model \in Pending'
<1>1. predict'[w] = q /\ \A v \in Threads \ {w} : predict'[v] = predict[v]
    OBVIOUS
<1>2. q.at \in InLoop => q.model \in Registered
    BY DEF Request, InLoop, NotPredicting, Phases
<1> QED BY <1>1, <1>2 DEF Pending, InLoop

(* A step of one thread that leaves the cache alone: who stops answering    *)
(* for a key does so when the cache does not hold it, or is small enough.   *)
LEMMA CacheStands ==
    ASSUME CacheInv, predict \in [Threads -> Request], NEW w \in Threads, NEW q \in Request,
           predict' = [predict EXCEPT ![w] = q], cache' = cache,
           \/ predict[w].at \notin InLoop
           \/ q.at \in InLoop /\ q.model = predict[w].model
           \/ predict[w].model \notin Keys
           \/ Len(cache) <= CacheLimit
    PROVE  CacheInv'
<1>1. Keys' = Keys /\ OneEntryPerKey' /\ cache' \in Seq(Entry)
    BY DEF Keys, OneEntryPerKey, CacheInv
<1>2. Keys' \ Pending' \subseteq Keys \ Pending \/ Len(cache') <= CacheLimit
    BY <1>1, PendingFollows
<1> QED BY <1>1, <1>2, SettledWithin

(* The entry that was put is answered for by the thread that put it.        *)
LEMMA PutKeepsCache ==
    ASSUME PredictionInv, NEW w \in Threads, CachePut(w)
    PROVE  CacheInv'
<1> DEFINE k == predict[w].model
           entry == [key |-> k, package |-> predict[w].package]
<1>1. predict[w] \in PhaseRequest /\ entry \in Entry /\ k \in Registered
    BY ThreadShape DEF CachePut, PredictionInv, Phases, PhaseRequest, Entry
<1>2. PICK q \in PhaseRequest : predict' = [predict EXCEPT ![w] = q] /\ q.at = "put" /\ q.model = k
    BY GoesOn DEF CachePut, PredictionInv, Phases
<1>3. Pending \cup {k} \subseteq Pending'
  <2>1. q \in Request /\ q.at \in InLoop /\ predict[w].at \notin InLoop
      BY <1>2 DEF Request, PhaseRequest, InLoop, CachePut
  <2> QED BY <1>2, <2>1, PendingFollows DEF PredictionInv
<1>4. cache \in Seq(Entry) /\ OneEntryPerKey
    BY DEF PredictionInv, CacheInv
<1>5. cache' = IF Entries(k) = {} THEN Append(cache, entry)
               ELSE [i \in DOMAIN cache |-> IF cache[i].key = k THEN entry ELSE cache[i]]
    BY DEF CachePut, KeyOf
<1>6. entry.key = k
    OBVIOUS
<1> HIDE DEF entry, k
<1>7. CASE Entries(k) = {}
  <2>1. /\ cache' \in Seq(Entry) /\ Len(cache') = Len(cache) + 1
        /\ cache'[Len(cache) + 1] = entry
        /\ \A i \in 1..Len(cache) : cache'[i] = cache[i]
      BY <1>1, <1>4, <1>5, <1>7
  <2>2. \A i \in 1..Len(cache) : cache[i].key # k
      BY <1>4, <1>7 DEF Entries
  <2>3. DOMAIN cache' = 1..(Len(cache) + 1) /\ DOMAIN cache = 1..Len(cache) /\ Len(cache) \in Nat
      BY <1>4, <2>1
  <2>4. OneEntryPerKey'
    <3> SUFFICES ASSUME NEW i \in 1..(Len(cache) + 1), NEW j \in 1..(Len(cache) + 1),
                        cache'[i].key = cache'[j].key
                 PROVE  i = j
        BY <2>3 DEF OneEntryPerKey
    <3>1. CASE i \in 1..Len(cache) /\ j \in 1..Len(cache)
        BY <1>4, <2>1, <2>3, <3>1 DEF OneEntryPerKey
    <3>2. CASE i = Len(cache) + 1 \/ j = Len(cache) + 1
        BY <1>6, <2>1, <2>2, <2>3, <3>2
    <3> QED BY <2>3, <3>1, <3>2
  <2>5. Keys' \subseteq Keys \cup {k}
    <3> SUFFICES ASSUME NEW i \in DOMAIN cache' PROVE cache'[i].key \in Keys \cup {k}
        BY DEF Keys
    <3>1. CASE i \in 1..Len(cache)
        BY <2>1, <2>3, <3>1 DEF Keys
    <3>2. CASE i = Len(cache) + 1
        BY <1>6, <2>1, <3>2
    <3> QED BY <2>3, <3>1, <3>2
  <2> QED BY <1>3, <2>1, <2>4, <2>5, SettledWithin DEF PredictionInv
<1>8. CASE Entries(k) # {}
  <2>1. /\ cache' = [i \in DOMAIN cache |-> IF cache[i].key = k THEN entry ELSE cache[i]]
        /\ DOMAIN cache' = DOMAIN cache
      BY <1>5, <1>8
  <2>2. cache' \in Seq(Entry)
    <3>1. cache' = [i \in 1..Len(cache) |-> IF cache[i].key = k THEN entry ELSE cache[i]]
        BY <1>4, <2>1
    <3>2. \A i \in 1..Len(cache) : (IF cache[i].key = k THEN entry ELSE cache[i]) \in Entry
        BY <1>1, <1>4
    <3> QED BY <1>4, <3>1, <3>2
  <2>3. \A i \in DOMAIN cache : cache'[i].key = cache[i].key
      BY <1>6, <2>1
  <2>4. OneEntryPerKey' /\ Keys' = Keys
      BY <1>4, <2>1, <2>3 DEF OneEntryPerKey, Keys
  <2> QED BY <1>3, <2>2, <2>4, SettledWithin DEF PredictionInv
<1> QED BY <1>7, <1>8

(* move_to_end changes neither the keys nor who answers for them.           *)
LEMMA TouchKeepsCache ==
    ASSUME PredictionInv, NEW w \in Threads, Touch(w)
    PROVE  CacheInv'
<1>1. PICK at \in {"scoring", "trimming"} :
          /\ Goto(w, at)
          /\ predict[w].at \in {"hit", "put"}
          /\ predict[w].at = "put" => at = "trimming"
    BY DEF Touch
<1>2. predict[w].at \in Phases /\ at \in Phases
    BY <1>1 DEF Phases
<1>3. PICK q \in PhaseRequest : /\ predict' = [predict EXCEPT ![w] = q]
                                /\ q.at = at /\ q.model = predict[w].model
    BY <1>1, <1>2, GoesOn DEF PredictionInv
<1>4. Pending \subseteq Pending'
  <2>1. q \in Request /\ (predict[w].at \notin InLoop \/ q.at \in InLoop)
      BY <1>1, <1>3 DEF Request, PhaseRequest, InLoop
  <2> QED BY <1>3, <2>1, PendingFollows DEF PredictionInv
<1>5. cache \in Seq(Entry) /\ OneEntryPerKey /\ CacheInv
    BY DEF PredictionInv, CacheInv
<1>6. PICK i \in DOMAIN cache : cache' = Append(RemoveAt(cache, i), cache[i])
    BY DEF Touch, Entries
<1>7. /\ cache' \in Seq(Entry) /\ Len(cache') = Len(cache)
      /\ \A j \in DOMAIN cache' :
             cache'[j] = cache[IF j < i THEN j ELSE IF j < Len(cache) THEN j + 1 ELSE i]
    BY <1>5, <1>6, MovedToEnd
<1>8. /\ Len(cache) \in Nat /\ i \in 1..Len(cache)
      /\ DOMAIN cache' = 1..Len(cache) /\ DOMAIN cache = 1..Len(cache)
    BY <1>5, <1>7
<1> DEFINE from(j) == IF j < i THEN j ELSE IF j < Len(cache) THEN j + 1 ELSE i
<1>9. \A j \in 1..Len(cache) : from(j) \in 1..Len(cache) /\ cache'[j] = cache[from(j)]
    BY <1>7, <1>8
<1>10. \A j, l \in 1..Len(cache) : from(j) = from(l) => j = l
    BY <1>8, OldPlaceIsUnique
<1> HIDE DEF from
<1>11. OneEntryPerKey'
    BY <1>5, <1>8, <1>9, <1>10 DEF OneEntryPerKey
<1>12. Keys' \subseteq Keys
    BY <1>8, <1>9 DEF Keys
<1> QED BY <1>4, <1>5, <1>7, <1>11, <1>12, SettledWithin

(* popitem takes the first entry, whoever answers for it.                   *)
LEMMA EvictKeepsCache ==
    ASSUME PredictionInv, NEW w \in Threads, Evict(w)
    PROVE  CacheInv'
<1>1. PICK q \in PhaseRequest : /\ predict' = [predict EXCEPT ![w] = q]
                                /\ q.at = "trimming" /\ q.model = predict[w].model
    BY GoesOn DEF Evict, PredictionInv, Phases
<1>2. Pending \subseteq Pending'
  <2>1. q \in Request /\ q.at \in InLoop
      BY <1>1 DEF Request, PhaseRequest, InLoop
  <2> QED BY <1>1, <2>1, PendingFollows DEF PredictionInv
<1>3. cache \in Seq(Entry) /\ OneEntryPerKey /\ CacheInv /\ cache # <<>> /\ cache' = Tail(cache)
    BY DEF PredictionInv, CacheInv, Evict
<1>4. /\ cache' \in Seq(Entry) /\ Len(cache) \in Nat
      /\ DOMAIN cache' = 1..(Len(cache) - 1) /\ DOMAIN cache = 1..Len(cache)
      /\ \A j \in 1..(Len(cache) - 1) : cache'[j] = cache[j + 1]
    BY <1>3
<1>5. \A j \in 1..(Len(cache) - 1) : j + 1 \in 1..Len(cache)
    BY <1>4
<1>6. OneEntryPerKey'
    BY <1>3, <1>4, <1>5 DEF OneEntryPerKey
<1>7. Keys' \subseteq Keys
    BY <1>4, <1>5 DEF Keys
<1> QED BY <1>2, <1>3, <1>4, <1>6, <1>7, SettledWithin

(* TouchFails leaves a key the cache does not hold, Trimmed a cache within  *)
(* its limit, and an empty cache holds no key.                              *)
LEMMA ThreadKeepsCache ==
    ASSUME PredictionInv, NEW w \in Threads, PredictionStep(w)
    PROVE  CacheInv'
<1> USE DEF PredictionInv
<1>1. NotPredicting \in Request /\ PhaseRequest \subseteq Request
    BY DEF Request, PhaseRequest
<1>2. ASSUME NEW m \in Registered, NEW persist \in BOOLEAN, PredictRead(w, m, persist)
      PROVE  CacheInv'
  <2> DEFINE q == [at |-> "looking", model |-> m, persist |-> persist]
  <2>1. q \in Request /\ predict[w].at \notin InLoop
        /\ predict' = [predict EXCEPT ![w] = q] /\ cache' = cache
      BY <1>2 DEF PredictRead, Request, NotPredicting, InLoop
  <2> HIDE DEF q
  <2> QED BY <2>1, CacheStands
<1>3. CASE CacheHit(w) \/ CacheMiss(w)
  <2>1. /\ cache' = cache /\ predict[w].at \notin InLoop
        /\ \E p \in Packages, at \in {"hit", "loaded"} :
              predict' = [predict EXCEPT ![w] = [at |-> at, model |-> predict[w].model,
                                                 persist |-> predict[w].persist, package |-> p]]
    <3>1. predict[w] \in [at: {"looking"}, model: Registered, persist: BOOLEAN]
        BY <1>3, ThreadShape DEF CacheHit, CacheMiss
    <3>2. CASE CacheHit(w)
      <4>1. PICK i \in Entries(KeyOf(predict[w].model)) :
                predict' = [predict EXCEPT
                    ![w] = [at |-> "hit", model |-> @.model, persist |-> @.persist,
                            package |-> cache[i].package]]
          BY <3>2 DEF CacheHit
      <4>2. cache[i].package \in Packages
        <5>1. cache \in Seq(Entry) /\ i \in DOMAIN cache
            BY <4>1 DEF Entries, CacheInv
        <5>2. cache[i] \in Entry
            BY <5>1
        <5> QED BY <5>2 DEF Entry
      <4> QED BY <3>1, <3>2, <4>1, <4>2 DEF CacheHit, InLoop
    <3>3. CASE CacheMiss(w)
      <4>1. file[predict[w].model] \in Packages
          BY <3>1 DEF PredictionTables
      <4> QED BY <3>1, <3>3, <4>1 DEF CacheMiss, InLoop
    <3> QED BY <1>3, <3>2, <3>3
  <2>2. PICK p \in Packages, at \in {"hit", "loaded"} :
              predict' = [predict EXCEPT ![w] = [at |-> at, model |-> predict[w].model,
                                                 persist |-> predict[w].persist, package |-> p]]
      BY <2>1
  <2> DEFINE q == [at |-> at, model |-> predict[w].model, persist |-> predict[w].persist,
                   package |-> p]
  <2>3. q \in Request
      BY <1>3, ThreadShape DEF CacheHit, CacheMiss, Request, Phases
  <2> HIDE DEF q
  <2> QED BY <2>1, <2>2, <2>3, CacheStands DEF q
<1>4. CASE CachePut(w)
    BY <1>4, PutKeepsCache
<1>5. CASE Touch(w)
    BY <1>5, TouchKeepsCache
<1>6. CASE TouchFails(w)
  <2>1. predict[w].model \notin Keys
      BY <1>6 DEF TouchFails, Entries, KeyOf, Keys
  <2> QED BY <1>1, <1>6, <2>1, CacheStands DEF TouchFails, EndPrediction
<1>7. CASE Trimmed(w)
  <2>1. PICK q \in PhaseRequest : predict' = [predict EXCEPT ![w] = q]
      BY <1>7, GoesOn DEF Trimmed, Phases
  <2> QED BY <1>1, <1>7, <2>1, CacheStands DEF Trimmed
<1>8. CASE Overfull(w)
  <2>1. PICK q \in PhaseRequest : /\ predict' = [predict EXCEPT ![w] = q]
                                  /\ q.at = "evicting" /\ q.model = predict[w].model
      BY <1>8, GoesOn DEF Overfull, Phases
  <2> QED BY <1>1, <1>8, <2>1, CacheStands DEF Overfull, InLoop
<1>9. CASE Evict(w)
    BY <1>9, EvictKeepsCache
<1>10. CASE PersistEvents(w) \/ Preview(w)
    BY <1>1, <1>10, CacheStands DEF PersistEvents, Preview, EndPrediction, InLoop
<1>11. CASE PredictFails(w)
  <2>1. predict[w].at \notin InLoop \/ Keys = {}
      BY <1>11 DEF PredictFails, InLoop, Keys
  <2> QED BY <1>1, <1>11, <2>1, CacheStands DEF PredictFails, EndPrediction
<1> QED BY <1>2, <1>3, <1>4, <1>5, <1>6, <1>7, <1>8, <1>9, <1>10, <1>11 DEF PredictionStep

-----------------------------------------------------------------------------
Sound == PackagesInPlace /\ \A w \in Threads : RequestSound(w)

(* A step of one thread that leaves tables and events alone, and whose      *)
(* request is sound after it.                                               *)
LEMMA ThreadKeepsSound ==
    ASSUME PredictionInv, NEW w \in Threads, NEW q \in Request,
           predict' = [predict EXCEPT ![w] = q],
           UNCHANGED <<deployed, everDeployed, file, events, feedback>>,
           q # NotPredicting =>
               /\ q.model \in everDeployed
               /\ q.at \in Phases => q.package.model = q.model,
           \A i \in DOMAIN cache' : cache'[i].package.model = cache'[i].key
    PROVE  PredictionTables' /\ predict' \in [Threads -> Request] /\ Sound'
<1>1. predict' \in [Threads -> Request] /\ predict'[w] = q
      /\ \A v \in Threads \ {w} : predict'[v] = predict[v]
    BY DEF PredictionInv
<1>2. \A v \in Threads : RequestSound(v)'
    BY <1>1 DEF RequestSound, PredictionInv
<1>3. PredictionTables' /\ PackagesInPlace'
    BY DEF PredictionInv, PredictionTables, PackagesInPlace
<1> QED BY <1>1, <1>2, <1>3 DEF Sound

(* What the cache holds for a key stays a package of its model.             *)
LEMMA CacheKeepsModels ==
    ASSUME PredictionInv, NEW w \in Threads, CachePut(w) \/ Touch(w) \/ Evict(w)
    PROVE  \A i \in DOMAIN cache' : cache'[i].package.model = cache'[i].key
<1>1. cache \in Seq(Entry) /\ \A i \in DOMAIN cache : cache[i].package.model = cache[i].key
    BY DEF PredictionInv, CacheInv, PackagesInPlace
<1>2. CASE CachePut(w)
  <2> DEFINE k == predict[w].model
             entry == [key |-> k, package |-> predict[w].package]
  <2>1. predict[w] \in PhaseRequest /\ RequestSound(w) /\ predict[w] # NotPredicting
      BY <1>2, ThreadShape DEF CachePut, PredictionInv, Phases, NotPredicting
  <2>2. entry \in Entry /\ entry.package.model = entry.key
      BY <2>1 DEF RequestSound, PhaseRequest, Entry
  <2>3. cache' = IF Entries(k) = {} THEN Append(cache, entry)
                 ELSE [i \in DOMAIN cache |-> IF cache[i].key = k THEN entry ELSE cache[i]]
      BY <1>2 DEF CachePut, KeyOf
  <2> HIDE DEF entry, k
  <2>4. CASE Entries(k) = {}
    <3>1. /\ DOMAIN cache' = 1..(Len(cache) + 1) /\ DOMAIN cache = 1..Len(cache)
          /\ Len(cache) \in Nat /\ cache'[Len(cache) + 1] = entry
          /\ \A i \in 1..Len(cache) : cache'[i] = cache[i]
        BY <1>1, <2>2, <2>3, <2>4
    <3>2. ASSUME NEW i \in 1..(Len(cache) + 1)
          PROVE  cache'[i].package.model = cache'[i].key
      <4>1. i \in 1..Len(cache) \/ i = Len(cache) + 1
          BY <3>1
      <4> QED BY <1>1, <2>2, <3>1, <4>1
    <3> QED BY <3>1, <3>2
  <2>5. CASE Entries(k) # {}
    <3>1. cache' = [i \in DOMAIN cache |-> IF cache[i].key = k THEN entry ELSE cache[i]]
        BY <2>3, <2>5
    <3> QED BY <1>1, <2>2, <3>1
  <2> QED BY <2>4, <2>5
<1>3. CASE Touch(w)
  <2>1. PICK i \in DOMAIN cache : cache' = Append(RemoveAt(cache, i), cache[i])
      BY <1>3 DEF Touch, Entries
  <2>2. \A j \in DOMAIN cache' : \E l \in DOMAIN cache : cache'[j] = cache[l]
    <3>1. /\ cache' \in Seq(Entry) /\ Len(cache') = Len(cache)
          /\ \A j \in DOMAIN cache' :
                 cache'[j] = cache[IF j < i THEN j ELSE IF j < Len(cache) THEN j + 1 ELSE i]
        BY <1>1, <2>1, MovedToEnd
    <3>2. Len(cache) \in Nat /\ DOMAIN cache' = 1..Len(cache) /\ DOMAIN cache = 1..Len(cache)
        BY <1>1, <3>1
    <3>3. \A j \in 1..Len(cache) :
              (IF j < i THEN j ELSE IF j < Len(cache) THEN j + 1 ELSE i) \in 1..Len(cache)
        BY <3>2
    <3> QED BY <3>1, <3>2, <3>3
  <2> QED BY <1>1, <2>2
<1>4. CASE Evict(w)
  <2>1. /\ Len(cache) \in Nat
        /\ DOMAIN cache' = 1..(Len(cache) - 1) /\ DOMAIN cache = 1..Len(cache)
        /\ \A j \in 1..(Len(cache) - 1) : cache'[j] = cache[j + 1]
      BY <1>1, <1>4 DEF Evict
  <2>2. \A j \in 1..(Len(cache) - 1) : j + 1 \in 1..Len(cache)
      BY <2>1
  <2> QED BY <1>1, <2>1, <2>2
<1> QED BY <1>2, <1>3, <1>4

LEMMA ThreadStepKeepsSound ==
    ASSUME PredictionInv, NEW w \in Threads, PredictionStep(w)
    PROVE  PredictionTables' /\ predict' \in [Threads -> Request] /\ Sound'
<1>1. NotPredicting \in Request /\ PhaseRequest \subseteq Request /\ predict \in [Threads -> Request]
    BY DEF Request, PhaseRequest, PredictionInv
<1>2. RequestSound(w) /\ \A i \in DOMAIN cache : cache[i].package.model = cache[i].key
    BY DEF PredictionInv, PackagesInPlace
<1>3. ASSUME NEW m \in Registered, NEW persist \in BOOLEAN, PredictRead(w, m, persist)
      PROVE  PredictionTables' /\ predict' \in [Threads -> Request] /\ Sound'
  <2> DEFINE q == [at |-> "looking", model |-> m, persist |-> persist]
  <2>1. /\ q \in Request /\ q.at \notin Phases /\ q.model = m
        /\ predict' = [predict EXCEPT ![w] = q] /\ UNCHANGED cache
        /\ UNCHANGED <<deployed, everDeployed, file, events, feedback>>
      BY <1>3 DEF PredictRead, Request, Phases
  <2>2. m \in everDeployed
      BY <1>3 DEF PredictRead, PredictionInv, PackagesInPlace
  <2> HIDE DEF q
  <2> QED BY <1>2, <2>1, <2>2, ThreadKeepsSound
<1>4. CASE CacheHit(w)
  <2>1. predict[w] \in [at: {"looking"}, model: Registered, persist: BOOLEAN]
      BY <1>4, ThreadShape DEF CacheHit, PredictionInv
  <2>2. PICK i \in Entries(KeyOf(predict[w].model)) :
            predict' = [predict EXCEPT
                ![w] = [at |-> "hit", model |-> @.model, persist |-> @.persist,
                        package |-> cache[i].package]]
      BY <1>4 DEF CacheHit
  <2>3. i \in DOMAIN cache /\ cache[i] \in Entry /\ cache[i].key = predict[w].model
    <3>1. i \in DOMAIN cache /\ cache \in Seq(Entry) /\ cache[i].key = predict[w].model
        BY <2>2 DEF Entries, KeyOf, PredictionInv, CacheInv
    <3> QED BY <3>1
  <2> DEFINE q == [at |-> "hit", model |-> predict[w].model, persist |-> predict[w].persist,
                   package |-> cache[i].package]
  <2>4. q \in PhaseRequest
      BY <2>1, <2>3 DEF PhaseRequest, Phases, Entry
  <2>5. q.model \in everDeployed /\ q.package.model = q.model
      BY <1>2, <2>1, <2>3 DEF RequestSound, NotPredicting
  <2>6. /\ predict' = [predict EXCEPT ![w] = q] /\ UNCHANGED cache
        /\ UNCHANGED <<deployed, everDeployed, file, events, feedback>>
      BY <1>4, <2>2 DEF CacheHit
  <2> HIDE DEF q
  <2> QED BY <1>1, <1>2, <2>4, <2>5, <2>6, ThreadKeepsSound
<1>5. CASE CacheMiss(w)
  <2>1. predict[w] \in [at: {"looking"}, model: Registered, persist: BOOLEAN]
      BY <1>5, ThreadShape DEF CacheMiss, PredictionInv
  <2> DEFINE q == [at |-> "loaded", model |-> predict[w].model, persist |-> predict[w].persist,
                   package |-> file[predict[w].model]]
  <2>2. q \in PhaseRequest
      BY <2>1 DEF PhaseRequest, Phases, PredictionInv, PredictionTables
  <2>3. q.model \in everDeployed /\ q.package.model = q.model
      BY <1>2, <2>1 DEF RequestSound, NotPredicting, PredictionInv, PackagesInPlace
  <2>4. /\ predict' = [predict EXCEPT ![w] = q] /\ UNCHANGED cache
        /\ UNCHANGED <<deployed, everDeployed, file, events, feedback>>
      BY <1>5 DEF CacheMiss
  <2> HIDE DEF q
  <2> QED BY <1>1, <1>2, <2>2, <2>3, <2>4, ThreadKeepsSound
<1>6. ASSUME predict[w].at \in Phases, NEW at \in Phases, Goto(w, at),
             UNCHANGED <<deployed, everDeployed, file, events, feedback>>,
             \A i \in DOMAIN cache' : cache'[i].package.model = cache'[i].key
      PROVE  PredictionTables' /\ predict' \in [Threads -> Request] /\ Sound'
  <2>1. PICK q \in PhaseRequest :
            /\ predict' = [predict EXCEPT ![w] = q]
            /\ q.at = at /\ q.model = predict[w].model
            /\ q.package = predict[w].package
      BY <1>1, <1>6, GoesOn
  <2>2. predict[w] # NotPredicting
      BY <1>6 DEF NotPredicting, Phases
  <2>3. q \in Request /\ q.model \in everDeployed /\ q.package.model = q.model
      BY <1>1, <1>2, <1>6, <2>1, <2>2 DEF RequestSound
  <2> QED BY <1>6, <2>1, <2>3, ThreadKeepsSound
<1>7. CASE CachePut(w)
    BY <1>6, <1>7, CacheKeepsModels DEF CachePut, Phases
<1>8. CASE Touch(w)
    BY <1>6, <1>8, CacheKeepsModels DEF Touch, Phases
<1>9. CASE Evict(w)
    BY <1>6, <1>9, CacheKeepsModels DEF Evict, Phases
<1>10. CASE Trimmed(w) \/ Overfull(w)
    BY <1>2, <1>6, <1>10 DEF Trimmed, Overfull, Phases
<1>11. CASE TouchFails(w) \/ Preview(w) \/ PredictFails(w)
    BY <1>1, <1>2, <1>11, ThreadKeepsSound
       DEF TouchFails, Preview, PredictFails, EndPrediction
<1>12. CASE PersistEvents(w)
  <2> DEFINE e == [model |-> predict[w].model, package |-> predict[w].package]
  <2>1. predict[w] \in PhaseRequest /\ predict[w] # NotPredicting
      BY <1>1, <1>12, ThreadShape DEF PersistEvents, Phases, NotPredicting
  <2>2. e \in [model: Registered, package: Packages] /\ e.package.model = e.model
        /\ e.model \in everDeployed
      BY <1>2, <2>1, <1>12 DEF RequestSound, PhaseRequest, PersistEvents, Phases
  <2>3. /\ events' = events \cup {e}
        /\ UNCHANGED <<deployed, everDeployed, file, cache, feedback>>
        /\ predict' \in [Threads -> Request] /\ predict'[w] = NotPredicting
        /\ \A v \in Threads \ {w} : predict'[v] = predict[v]
      BY <1>1, <1>12 DEF PersistEvents, EndPrediction
  <2> HIDE DEF e
  <2>4. \A v \in Threads : RequestSound(v)'
      BY <2>3 DEF RequestSound, PredictionInv
  <2>5. PredictionTables' /\ PackagesInPlace'
      BY <2>2, <2>3 DEF PredictionInv, PredictionTables, PackagesInPlace
  <2> QED BY <2>3, <2>4, <2>5 DEF Sound
<1> QED BY <1>3, <1>4, <1>5, <1>7, <1>8, <1>9, <1>10, <1>11, <1>12 DEF PredictionStep

-----------------------------------------------------------------------------
(* The steps of others: they leave the cache and the requests alone, or     *)
(* empty both.                                                              *)
LEMMA OthersKeepInv ==
    ASSUME PredictionInv,
           \/ \E m \in Registered : DeployVersion(m) \/ Repackage(m)
           \/ \E e \in events : FeedbackCreate(e)
           \/ ServingRestart
    PROVE  PredictionInv'
<1>1. ASSUME cache' = cache, predict' = predict
      PROVE  CacheInv' /\ predict' \in [Threads -> Request]
    BY <1>1 DEF PredictionInv, CacheInv, OneEntryPerKey, Keys, Pending
<1>2. ASSUME NEW m \in Registered, DeployVersion(m) PROVE PredictionInv'
  <2>1. /\ deployed' \in [Registered -> BOOLEAN]
        /\ \A n \in Registered : deployed'[n] => n = m \/ deployed[n]
        /\ everDeployed' = everDeployed \cup {m}
        /\ UNCHANGED <<file, cache, events, feedback, predict>>
      BY <1>2 DEF DeployVersion, PredictionInv, PredictionTables
  <2>2. PredictionTables' /\ PackagesInPlace'
      BY <2>1 DEF PredictionInv, PredictionTables, PackagesInPlace
  <2>3. \A w \in Threads : RequestSound(w)'
      BY <2>1 DEF PredictionInv, RequestSound
  <2> QED BY <1>1, <2>1, <2>2, <2>3 DEF PredictionInv
<1>3. ASSUME NEW m \in Registered, Repackage(m) PROVE PredictionInv'
  <2>1. /\ file' = [file EXCEPT ![m].build = @ + 1] /\ file[m].build < MaxBuilds
        /\ UNCHANGED <<deployed, everDeployed, cache, events, feedback, predict>>
        /\ file \in [Registered -> Packages]
      BY <1>3 DEF Repackage, PredictionInv, PredictionTables
  <2>2. [file[m] EXCEPT !.build = @ + 1] \in Packages
        /\ [file[m] EXCEPT !.build = @ + 1].model = file[m].model
      BY <2>1, BoundsAreNat DEF Packages
  <2>3. /\ file' \in [Registered -> Packages]
        /\ \A n \in Registered : file'[n].model = file[n].model
      BY <2>1, <2>2
  <2>4. PredictionTables' /\ PackagesInPlace'
      BY <2>1, <2>3 DEF PredictionInv, PredictionTables, PackagesInPlace
  <2>5. \A w \in Threads : RequestSound(w)'
      BY <2>1 DEF PredictionInv, RequestSound
  <2> QED BY <1>1, <2>1, <2>4, <2>5 DEF PredictionInv
<1>4. ASSUME NEW e \in events, FeedbackCreate(e) PROVE PredictionInv'
  <2>1. PredictionTables' /\ PackagesInPlace'
      BY <1>4 DEF FeedbackCreate, PredictionInv, PredictionTables, PackagesInPlace
  <2>2. \A w \in Threads : RequestSound(w)'
      BY <1>4 DEF FeedbackCreate, PredictionInv, RequestSound
  <2> QED BY <1>1, <1>4, <2>1, <2>2 DEF PredictionInv, FeedbackCreate
<1>5. CASE ServingRestart
  <2>1. CacheInv'
    <3>1. cache' = <<>>
        BY <1>5 DEF ServingRestart
    <3>2. cache' \in Seq(Entry) /\ Len(cache') = 0 /\ DOMAIN cache' = {}
        BY <3>1, SMT
    <3>3. OneEntryPerKey' /\ Len(cache') <= CacheLimit
        BY <3>2, CacheLimitIsNat DEF OneEntryPerKey
    <3> QED BY <3>2, <3>3, SettledWithin DEF PredictionInv
  <2>2. PredictionTables' /\ PackagesInPlace' /\ \A w \in Threads : RequestSound(w)'
      BY <1>5 DEF ServingRestart, PredictionInv, PredictionTables, PackagesInPlace, RequestSound
  <2>3. predict' \in [Threads -> Request]
      BY <1>5 DEF ServingRestart, Request
  <2> QED BY <2>1, <2>2, <2>3 DEF PredictionInv
<1> QED BY <1>2, <1>3, <1>4, <1>5

(* The invariant of all reachable states.                                   *)
THEOREM PredictionInvHolds == PredictionSpec => []PredictionInv
<1>1. PredictionInit => PredictionInv
  <2> SUFFICES ASSUME PredictionInit PROVE PredictionInv
      OBVIOUS
  <2>1. CacheInv
    <3>1. cache \in Seq(Entry) /\ DOMAIN cache = {}
        BY SMT DEF PredictionInit
    <3>2. Keys \ Pending = {}
        BY <3>1 DEF Keys
    <3> QED BY <3>1, <3>2, FS_EmptySet, CacheLimitIsNat DEF CacheInv, OneEntryPerKey
  <2>2. \A m \in Registered : [model |-> m, build |-> 1] \in Packages
      BY BoundsAreNat DEF Packages
  <2>3. PredictionTables /\ predict \in [Threads -> Request]
      BY <2>2 DEF PredictionInit, PredictionTables, Request
  <2>4. PackagesInPlace /\ \A w \in Threads : RequestSound(w)
      BY DEF PredictionInit, PackagesInPlace, RequestSound
  <2> QED BY <2>1, <2>3, <2>4 DEF PredictionInv
<1>2. PredictionInv /\ [PredictionNext]_predictionVars => PredictionInv'
  <2> SUFFICES ASSUME PredictionInv, [PredictionNext]_predictionVars PROVE PredictionInv'
      OBVIOUS
  <2>1. ASSUME NEW w \in Threads, PredictionStep(w) PROVE PredictionInv'
      BY <2>1, ThreadKeepsCache, ThreadStepKeepsSound DEF PredictionInv, Sound
  <2>2. CASE UNCHANGED predictionVars
      BY <2>2 DEF predictionVars, PredictionInv, PredictionTables, PackagesInPlace, RequestSound,
                  CacheInv, OneEntryPerKey, Keys, Pending
  <2> QED BY <2>1, <2>2, OthersKeepInv DEF PredictionNext
<1> QED BY <1>1, <1>2, PTL DEF PredictionSpec

(* Every variable has its type in every reachable state (db/models.py       *)
(* PredictionEvent and TechnicianFeedback, application/predictions.py).     *)
THEOREM PredictionTypesHold == PredictionSpec => []PredictionTypeOK
<1>1. ASSUME PredictionInv PROVE PredictionTypeOK
  <2>1. \A w \in Threads : predict[w] \in Request
      BY <1>1 DEF PredictionInv
  <2>2. \A i \in DOMAIN cache : cache[i].package \in Packages
    <3>1. cache \in Seq(Entry)
        BY <1>1 DEF PredictionInv, CacheInv
    <3>2. \A i \in DOMAIN cache : cache[i] \in Entry
        BY <3>1
    <3> QED BY <3>2 DEF Entry
  <2>3. \A f \in feedback : f.event \in events /\ f.model \in Registered
      BY <1>1 DEF PredictionInv, PredictionTables, PackagesInPlace
  <2> QED BY <1>1, <2>1, <2>2, <2>3 DEF PredictionTypeOK, PredictionInv, PredictionTables, Request
<1> QED BY <1>1, PredictionInvHolds, PTL

(* PredictionService.predict and FeedbackService.create: whatever threads   *)
(* do to the cache, an event was made with a package of its own model,      *)
(* which was deployed, and feedback names the model of its event.           *)
THEOREM EventsHold == PredictionSpec => []EventsAreOfTheirModel
<1>1. ASSUME PredictionInv PROVE EventsAreOfTheirModel
    BY <1>1 DEF EventsAreOfTheirModel, PredictionInv, PackagesInPlace
<1> QED BY <1>1, PredictionInvHolds, PTL

(* _load_deployed tests the size of the cache and evicts in separate steps, *)
(* without a lock: when no thread is between its insertion and the end of   *)
(* its loop the cache keeps its limit, and it never holds two entries for   *)
(* one key.                                                                 *)
THEOREM CacheLimitHolds == PredictionSpec => []CacheKeepsItsLimit
<1>1. ASSUME PredictionInv PROVE CacheKeepsItsLimit
  <2>1. cache \in Seq(Entry) /\ OneEntryPerKey /\ Cardinality(Keys \ Pending) <= CacheLimit
      BY <1>1 DEF PredictionInv, CacheInv
  <2>2. ASSUME \A w \in Threads : predict[w].at \notin {"put", "trimming", "evicting"}
        PROVE  Len(cache) <= CacheLimit
    <3>1. Keys \ Pending = Keys
        BY <2>2 DEF Pending
    <3>2. Cardinality(Keys) = Len(cache)
        BY <2>1, KeysCounted DEF Keys, OneEntryPerKey
    <3> QED BY <2>1, <3>1, <3>2
  <2> QED BY <2>1, <2>2 DEF CacheKeepsItsLimit, OneEntryPerKey
<1> QED BY <1>1, PredictionInvHolds, PTL

-----------------------------------------------------------------------------
(* Datasets: uploads of one file race, merges of one row cross, and any     *)
(* request may be cut off between two of its steps.                         *)
Checked == [at: {"checked"}, file: Files]

Stored == [at: {"stored"}, file: Files, id: DatasetIds]

Computed == [at: {"computed"}, id: DatasetIds, copy: DatasetRow]

Merging == [at: {"merging"}, id: DatasetIds, copy: DatasetRow, loaded: DatasetRow]

Requests == {NoRequest} \cup Checked \cup Stored \cup Computed \cup Merging

TablesTyped ==
    /\ dataset \in [DatasetIds -> {NoDataset} \cup DatasetRow]
    /\ storage \in [DatasetIds -> Files \cup {NoFile}]
    /\ orphan \in SUBSET DatasetIds
    /\ crossed \in SUBSET DatasetIds

(* An upload that has stored its file holds an id nobody else has.          *)
UploadHolds(w) ==
    request[w].at = "stored" =>
        /\ storage[request[w].id] = request[w].file
        /\ dataset[request[w].id] = NoDataset
        /\ request[w].id \notin orphan
        /\ \A v \in Workers : request[v].at = "stored" /\ request[v].id = request[w].id => v = w

(* A dataset has its file, no other has the same, and a file without row    *)
(* is accounted for.                                                        *)
FileHeld(d) ==
    /\ dataset[d] # NoDataset =>
          /\ storage[d] = dataset[d].file
          /\ \A c \in DatasetIds :
                dataset[c] # NoDataset /\ dataset[c].file = dataset[d].file => c = d
    /\ storage[d] # NoFile /\ dataset[d] = NoDataset =>
          d \in orphan \/ \E w \in Workers : request[w].at = "stored" /\ request[w].id = d

(* A row that tells one story.                                              *)
Story(r) ==
    /\ r.target = r.task /\ r.task = r.json.task /\ r.task = r.json.leakage
    /\ r.score = r.json.quality
    /\ r.status = "uploaded" => r = NewDataset(r.file)
    /\ r.status = "profiled" => r.json.profiled /\ r.score = NoColumn
    /\ r.status = "task_recommended" => r.target \in Columns /\ r.score = r.target

(* A request that edits holds a copy of a row that is still there, with the *)
(* same file; unless the row was crossed the copy tells one story, and what *)
(* the merge loaded is what is stored.                                      *)
EditHolds(w) ==
    LET q == request[w] IN
    /\ q.at \in {"computed", "merging"} =>
          /\ dataset[q.id] # NoDataset
          /\ q.copy.file = dataset[q.id].file
          /\ q.id \notin crossed => Story(q.copy)
    /\ q.at = "merging" =>
          /\ q.loaded.file = dataset[q.id].file
          /\ q.id \notin crossed => q.loaded = dataset[q.id]

(* Inductive: rows have their files because an id that is being stored is   *)
(* held by one upload, and they tell one story because an uncrossed merge   *)
(* writes the whole of its copy.                                            *)
DatasetInv ==
    /\ TablesTyped
    /\ request \in [Workers -> Requests]
    /\ \A d \in DatasetIds : FileHeld(d)
    /\ \A d \in DatasetIds \ crossed : dataset[d] # NoDataset => Story(dataset[d])
    /\ \A w \in Workers : UploadHolds(w) /\ EditHolds(w)

-----------------------------------------------------------------------------
(* The fields of a request, by where it is.                                 *)
LEMMA RequestShape ==
    ASSUME request \in [Workers -> Requests], NEW w \in Workers
    PROVE  /\ request[w].at \in {"none", "checked", "stored", "computed", "merging"}
           /\ request[w].at = "none" => request[w] = NoRequest
           /\ request[w].at = "checked" => request[w] \in Checked
           /\ request[w].at = "stored" => request[w] \in Stored
           /\ request[w].at = "computed" => request[w] \in Computed
           /\ request[w].at = "merging" => request[w] \in Merging
BY DEF Requests, Checked, Stored, Computed, Merging, NoRequest

LEMMA RowIsNotNone == NoDataset \notin DatasetRow
BY DEF NoDataset, DatasetRow

(* A new row, a profile and a recommendation are rows, of the same file,    *)
(* and tell one story when the row they start from does.                    *)
LEMMA EditsTellStories ==
    /\ \A f \in Files : NewDataset(f) \in DatasetRow /\ Story(NewDataset(f))
                        /\ NewDataset(f).file = f
    /\ \A r \in DatasetRow :
          /\ Profiled(r) \in DatasetRow /\ Profiled(r).file = r.file
          /\ Story(r) => Story(Profiled(r))
          /\ \A t \in Columns :
                /\ Recommended(r, t) \in DatasetRow /\ Recommended(r, t).file = r.file
                /\ Story(Recommended(r, t))
<1>1. ASSUME NEW f \in Files
      PROVE  NewDataset(f) \in DatasetRow /\ Story(NewDataset(f)) /\ NewDataset(f).file = f
  <2>1. NewDataset(f) \in DatasetRow
      BY DEF NewDataset, DatasetRow, Report
  <2> QED BY <2>1 DEF NewDataset, Story
<1>2. ASSUME NEW r \in DatasetRow
      PROVE  /\ Profiled(r) \in DatasetRow /\ Profiled(r).file = r.file
             /\ Story(r) => Story(Profiled(r))
    BY DEF Profiled, DatasetRow, Report, Story
<1>3. ASSUME NEW r \in DatasetRow, NEW t \in Columns
      PROVE  /\ Recommended(r, t) \in DatasetRow /\ Recommended(r, t).file = r.file
             /\ Story(Recommended(r, t))
    BY DEF Recommended, DatasetRow, Report, Story
<1> QED BY <1>1, <1>2, <1>3

(* What a flush leaves of a row: it is a row, its file is the one that all  *)
(* three have, and the copy when what was loaded is what is stored.         *)
LEMMA FlushKeeps ==
    ASSUME NEW stored \in DatasetRow, NEW loaded \in DatasetRow, NEW copy \in DatasetRow,
           copy.file = stored.file, loaded.file = stored.file
    PROVE  /\ Flushed(stored, loaded, copy) \in DatasetRow
           /\ Flushed(stored, loaded, copy).file = stored.file
           /\ loaded = stored => Flushed(stored, loaded, copy) = copy
<1> DEFINE new == Flushed(stored, loaded, copy)
<1>1. DOMAIN stored = {"file", "status", "target", "task", "score", "json"}
    BY DEF DatasetRow
<1>2. new = [file |-> IF copy.file # loaded.file THEN copy.file ELSE stored.file,
             status |-> IF copy.status # loaded.status THEN copy.status ELSE stored.status,
             target |-> IF copy.target # loaded.target THEN copy.target ELSE stored.target,
             task |-> IF copy.task # loaded.task THEN copy.task ELSE stored.task,
             score |-> IF copy.score # loaded.score THEN copy.score ELSE stored.score,
             json |-> IF copy.json # loaded.json THEN copy.json ELSE stored.json]
    BY <1>1 DEF Flushed
<1>3. new \in DatasetRow
    BY <1>2 DEF DatasetRow
<1>4. new.file = stored.file
    BY <1>2
<1>5. ASSUME loaded = stored PROVE new = copy
  <2>1. copy = [file |-> copy.file, status |-> copy.status, target |-> copy.target,
                task |-> copy.task, score |-> copy.score, json |-> copy.json]
      BY DEF DatasetRow
  <2> QED BY <1>2, <1>5, <2>1
<1> QED BY <1>3, <1>4, <1>5

-----------------------------------------------------------------------------
(* A step that moves only the request of w, which holds no file before or   *)
(* after.                                                                   *)
LEMMA RequestMoves ==
    ASSUME DatasetInv, NEW w \in Workers, NEW q \in Requests,
           request' = [request EXCEPT ![w] = q],
           UNCHANGED <<dataset, storage, orphan, crossed>>,
           request[w].at # "stored", q.at # "stored", EditHolds(w)'
    PROVE  DatasetInv'
<1>1. request' \in [Workers -> Requests] /\ request'[w] = q
      /\ \A v \in Workers \ {w} : request'[v] = request[v]
    BY DEF DatasetInv
<1>2. \A d \in DatasetIds : FileHeld(d)'
    BY <1>1 DEF DatasetInv, FileHeld
<1>3. ASSUME NEW v \in Workers PROVE UploadHolds(v)'
    BY <1>1 DEF DatasetInv, UploadHolds
<1>4. ASSUME NEW v \in Workers \ {w} PROVE EditHolds(v)'
    BY <1>1 DEF DatasetInv, EditHolds
<1>5. \A d \in DatasetIds \ crossed' : dataset'[d] # NoDataset => Story(dataset'[d])
    BY DEF DatasetInv
<1>6. TablesTyped'
    BY DEF DatasetInv, TablesTyped
<1> QED BY <1>1, <1>2, <1>3, <1>4, <1>5, <1>6 DEF DatasetInv

(* An upload that ends without a row gives up the id it held: its file is   *)
(* removed, or left and counted among the orphans.                          *)
LEMMA UploadEnds ==
    ASSUME DatasetInv, NEW w \in Workers, request[w].at = "stored",
           RemoveStorage(request[w].id), EndRequest(w), UNCHANGED <<dataset, crossed>>
    PROVE  DatasetInv'
<1> DEFINE i == request[w].id
<1>1. i \in DatasetIds /\ storage[i] = request[w].file /\ dataset[i] = NoDataset
    BY RequestShape DEF DatasetInv, Stored, UploadHolds
<1>2. request' \in [Workers -> Requests] /\ request'[w] = NoRequest
      /\ \A v \in Workers \ {w} : request'[v] = request[v]
    BY DEF DatasetInv, EndRequest, Requests
<1>3. /\ storage' \in [DatasetIds -> Files \cup {NoFile}] /\ orphan' \in SUBSET DatasetIds
      /\ \A d \in DatasetIds \ {i} : storage'[d] = storage[d] /\ (d \in orphan' <=> d \in orphan)
      /\ storage'[i] = NoFile \/ i \in orphan'
    BY <1>1 DEF DatasetInv, TablesTyped, RemoveStorage
<1> HIDE DEF i
<1>4. ASSUME NEW d \in DatasetIds PROVE FileHeld(d)'
    BY <1>1, <1>2, <1>3 DEF DatasetInv, FileHeld, i
<1>5. ASSUME NEW v \in Workers PROVE UploadHolds(v)'
  <2>1. CASE v = w
      BY <1>2, <2>1 DEF UploadHolds, NoRequest
  <2>2. CASE v # w /\ request[v].at = "stored"
    <3>1. request[v].id \in DatasetIds /\ request[v].id # i
        BY <2>2, RequestShape DEF DatasetInv, Stored, UploadHolds, i
    <3> QED BY <1>2, <1>3, <2>2, <3>1 DEF DatasetInv, UploadHolds, NoRequest
  <2>3. CASE v # w /\ request[v].at # "stored"
      BY <1>2, <2>3 DEF UploadHolds
  <2> QED BY <2>1, <2>2, <2>3
<1>6. ASSUME NEW v \in Workers PROVE EditHolds(v)'
    BY <1>2 DEF DatasetInv, EditHolds, NoRequest
<1>7. \A d \in DatasetIds \ crossed' : dataset'[d] # NoDataset => Story(dataset'[d])
    BY DEF DatasetInv
<1> QED BY <1>2, <1>3, <1>4, <1>5, <1>6, <1>7 DEF DatasetInv, TablesTyped

(* The bytes are stored under an id that nothing names.                     *)
LEMMA WriteKeeps ==
    ASSUME DatasetInv, NEW w \in Workers, UploadWrite(w)
    PROVE  DatasetInv'
<1>1. request[w] \in Checked
    BY RequestShape DEF UploadWrite, DatasetInv
<1>2. PICK d \in DatasetIds \ Taken :
          /\ storage' = [storage EXCEPT ![d] = request[w].file]
          /\ request' = [request EXCEPT ![w] = [at |-> "stored", file |-> request[w].file,
                                                id |-> d]]
    BY DEF UploadWrite
<1>3. dataset[d] = NoDataset /\ storage[d] = NoFile /\ d \notin orphan
    BY <1>2 DEF Taken
<1>4. /\ request' \in [Workers -> Requests]
      /\ request'[w] = [at |-> "stored", file |-> request[w].file, id |-> d]
      /\ \A v \in Workers \ {w} : request'[v] = request[v]
    BY <1>1, <1>2 DEF DatasetInv, Requests, Stored, Checked
<1>5. /\ storage' \in [DatasetIds -> Files \cup {NoFile}] /\ storage'[d] = request[w].file
      /\ \A c \in DatasetIds \ {d} : storage'[c] = storage[c]
    BY <1>1, <1>2 DEF DatasetInv, TablesTyped, Checked
<1>6. UNCHANGED <<dataset, orphan, crossed>>
    BY DEF UploadWrite
<1>7. ASSUME NEW c \in DatasetIds PROVE FileHeld(c)'
  <2>1. CASE c = d
      BY <1>3, <1>4, <1>6, <2>1 DEF FileHeld
  <2>2. CASE c # d
    <3>1. FileHeld(c)
        BY DEF DatasetInv
    <3>2. \A v \in Workers : request[v].at = "stored" => v # w
        BY <1>1 DEF Checked
    <3> QED BY <1>4, <1>5, <1>6, <2>2, <3>1, <3>2 DEF FileHeld
  <2> QED BY <2>1, <2>2
<1>8. ASSUME NEW v \in Workers, request[v].at = "stored"
      PROVE  v # w /\ request[v].id \in DatasetIds \ {d}
  <2>1. v # w
      BY <1>1, <1>8 DEF Checked
  <2>2. request[v] \in Stored /\ storage[request[v].id] = request[v].file
      BY <1>8, RequestShape DEF DatasetInv, UploadHolds
  <2> QED BY <1>3, <2>1, <2>2, NoFileIsNone DEF Stored
<1>9. ASSUME NEW v \in Workers PROVE UploadHolds(v)'
  <2>1. CASE v = w
      BY <1>3, <1>4, <1>5, <1>6, <1>8, <2>1 DEF UploadHolds
  <2>2. CASE v # w /\ request[v].at = "stored"
    <3>1. UploadHolds(v) /\ request'[v] = request[v] /\ request[v].id \in DatasetIds \ {d}
        BY <1>4, <1>8, <2>2 DEF DatasetInv
    <3> QED BY <1>4, <1>5, <1>6, <2>2, <3>1 DEF UploadHolds
  <2>3. CASE v # w /\ request[v].at # "stored"
      BY <1>4, <2>3 DEF UploadHolds
  <2> QED BY <2>1, <2>2, <2>3
<1>10. ASSUME NEW v \in Workers PROVE EditHolds(v)'
    BY <1>4, <1>6 DEF DatasetInv, EditHolds
<1>11. \A c \in DatasetIds \ crossed' : dataset'[c] # NoDataset => Story(dataset'[c])
    BY <1>6 DEF DatasetInv
<1> QED BY <1>4, <1>5, <1>6, <1>7, <1>9, <1>10, <1>11 DEF DatasetInv, TablesTyped

(* The row is inserted when no row has the hash: it takes over the file.    *)
LEMMA InsertKeeps ==
    ASSUME DatasetInv, NEW w \in Workers, UploadInsert(w)
    PROVE  DatasetInv'
<1> DEFINE i == request[w].id
           f == request[w].file
<1>1. request[w].at = "stored" /\ i \in DatasetIds /\ f \in Files
      /\ storage[i] = f /\ dataset[i] = NoDataset
    BY RequestShape DEF UploadInsert, DatasetInv, Stored, UploadHolds
<1>2. \A c \in DatasetIds : dataset[c] # NoDataset => dataset[c].file # f
    BY DEF UploadInsert, RowFor
<1>3. NewDataset(f) \in DatasetRow /\ Story(NewDataset(f)) /\ NewDataset(f).file = f
    BY <1>1, EditsTellStories
<1>4. /\ dataset' \in [DatasetIds -> {NoDataset} \cup DatasetRow] /\ dataset'[i] = NewDataset(f)
      /\ \A c \in DatasetIds \ {i} : dataset'[c] = dataset[c]
      /\ UNCHANGED <<storage, orphan, crossed>>
    BY <1>1, <1>3 DEF UploadInsert, DatasetInv, TablesTyped
<1>5. request' \in [Workers -> Requests] /\ request'[w] = NoRequest
      /\ \A v \in Workers \ {w} : request'[v] = request[v]
    BY DEF DatasetInv, UploadInsert, EndRequest, Requests
<1> HIDE DEF i, f
<1>6. ASSUME NEW c \in DatasetIds PROVE FileHeld(c)'
  <2>1. CASE c = i
      BY <1>1, <1>2, <1>3, <1>4, <2>1, RowIsNotNone DEF FileHeld
  <2>2. CASE c # i
    <3>1. FileHeld(c)
        BY DEF DatasetInv
    <3> QED BY <1>1, <1>2, <1>3, <1>4, <1>5, <2>2, <3>1 DEF FileHeld, i
  <2> QED BY <2>1, <2>2
<1>7. ASSUME NEW v \in Workers PROVE UploadHolds(v)'
  <2>1. CASE v = w
      BY <1>5, <2>1 DEF UploadHolds, NoRequest
  <2>2. CASE v # w /\ request[v].at = "stored"
    <3>1. request[v].id \in DatasetIds /\ request[v].id # i
        BY <1>1, <2>2, RequestShape DEF DatasetInv, Stored, UploadHolds, i
    <3> QED BY <1>4, <1>5, <2>2, <3>1 DEF DatasetInv, UploadHolds, NoRequest
  <2>3. CASE v # w /\ request[v].at # "stored"
      BY <1>5, <2>3 DEF UploadHolds
  <2> QED BY <2>1, <2>2, <2>3
<1>8. ASSUME NEW v \in Workers PROVE EditHolds(v)'
  <2>1. CASE v = w
      BY <1>5, <2>1 DEF EditHolds, NoRequest
  <2>2. CASE v # w /\ request[v].at \in {"computed", "merging"}
    <3>1. request[v].id \in DatasetIds /\ dataset[request[v].id] # NoDataset /\ EditHolds(v)
        BY <2>2, RequestShape DEF DatasetInv, Computed, Merging, EditHolds
    <3>2. dataset'[request[v].id] = dataset[request[v].id]
        BY <1>1, <1>4, <3>1
    <3> QED BY <1>4, <1>5, <2>2, <3>1, <3>2 DEF EditHolds
  <2>3. CASE v # w /\ request[v].at \notin {"computed", "merging"}
      BY <1>5, <2>3 DEF EditHolds
  <2> QED BY <2>1, <2>2, <2>3
<1>9. \A c \in DatasetIds \ crossed' : dataset'[c] # NoDataset => Story(dataset'[c])
    BY <1>3, <1>4 DEF DatasetInv
<1> QED BY <1>4, <1>5, <1>6, <1>7, <1>8, <1>9 DEF DatasetInv, TablesTyped

(* A copy is taken of a row that is there, and edited.                      *)
LEMMA ReadKeeps ==
    ASSUME DatasetInv, NEW w \in Workers, NEW d \in DatasetIds, NEW copy \in DatasetRow,
           EditRead(w, d, copy), copy.file = dataset[d].file, d \notin crossed => Story(copy)
    PROVE  DatasetInv'
<1> DEFINE q == [at |-> "computed", id |-> d, copy |-> copy]
<1>1. q \in Requests /\ request[w].at # "stored"
      /\ request' = [request EXCEPT ![w] = q] /\ dataset[d] # NoDataset
      /\ UNCHANGED <<dataset, storage, orphan, crossed>>
    BY DEF EditRead, Requests, Computed, NoRequest
<1>2. request'[w] = q
    BY <1>1 DEF DatasetInv
<1>3. EditHolds(w)'
    BY <1>1, <1>2 DEF EditHolds
<1>4. q.at # "stored"
    OBVIOUS
<1> HIDE DEF q
<1> QED BY <1>1, <1>3, <1>4, RequestMoves

(* The merge loads the row as it is.                                        *)
LEMMA LoadKeeps ==
    ASSUME DatasetInv, NEW w \in Workers, MergeLoad(w)
    PROVE  DatasetInv'
<1> DEFINE i == request[w].id
           q == [at |-> "merging", id |-> i, copy |-> request[w].copy, loaded |-> dataset[i]]
<1>1. request[w] \in Computed /\ EditHolds(w)
    BY RequestShape DEF MergeLoad, DatasetInv
<1>2. i \in DatasetIds /\ dataset[i] \in DatasetRow
    BY <1>1 DEF DatasetInv, TablesTyped, EditHolds, Computed
<1>3. q \in Requests
    BY <1>1, <1>2 DEF Requests, Merging, Computed
<1>4. request' = [request EXCEPT ![w] = q] /\ request'[w] = q
      /\ UNCHANGED <<dataset, storage, orphan, crossed>>
    BY DEF MergeLoad, DatasetInv
<1>5. EditHolds(w)'
    BY <1>1, <1>4 DEF EditHolds, Computed
<1>6. request[w].at # "stored" /\ q.at # "stored"
    BY <1>1 DEF Computed
<1> HIDE DEF q
<1> QED BY <1>3, <1>4, <1>5, <1>6, RequestMoves

(* The flush: when no other merge of the row is under way, and none was     *)
(* since it was loaded, the row becomes the copy.                           *)
LEMMA CommitKeeps ==
    ASSUME DatasetInv, NEW w \in Workers, MergeCommit(w)
    PROVE  DatasetInv'
<1> DEFINE i == request[w].id
           copy == request[w].copy
           loaded == request[w].loaded
           new == Flushed(dataset[i], loaded, copy)
<1>1. request[w].at = "merging" /\ request[w] \in Merging /\ EditHolds(w)
    BY RequestShape DEF MergeCommit, DatasetInv
<1>2. /\ i \in DatasetIds /\ copy \in DatasetRow /\ loaded \in DatasetRow
      /\ dataset[i] \in DatasetRow /\ copy.file = dataset[i].file /\ loaded.file = dataset[i].file
      /\ i \notin crossed => Story(copy) /\ loaded = dataset[i]
    BY <1>1 DEF DatasetInv, TablesTyped, EditHolds, Merging
<1>3. /\ new \in DatasetRow /\ new.file = dataset[i].file
      /\ loaded = dataset[i] => new = copy
    BY <1>2, FlushKeeps
<1>4. /\ dataset' = [dataset EXCEPT ![i] = new]
      /\ crossed' = crossed \cup
          {d \in {i} : \E v \in Workers \ {w} : request[v].at = "merging" /\ request[v].id = d}
      /\ UNCHANGED <<storage, orphan>>
    BY DEF MergeCommit
<1>5. request' \in [Workers -> Requests] /\ request'[w] = NoRequest
      /\ \A v \in Workers \ {w} : request'[v] = request[v]
    BY DEF DatasetInv, MergeCommit, EndRequest, Requests
<1> HIDE DEF i, copy, loaded, new
<1>6. /\ dataset' \in [DatasetIds -> {NoDataset} \cup DatasetRow] /\ dataset'[i] = new
      /\ \A c \in DatasetIds \ {i} : dataset'[c] = dataset[c]
      /\ \A c \in DatasetIds : /\ dataset'[c] # NoDataset <=> dataset[c] # NoDataset
                               /\ dataset'[c].file = dataset[c].file
    BY <1>2, <1>3, <1>4, RowIsNotNone DEF DatasetInv, TablesTyped
<1>7. /\ crossed' \in SUBSET DatasetIds /\ crossed \subseteq crossed'
      /\ \A v \in Workers \ {w} : request[v].at = "merging" /\ request[v].id = i => i \in crossed'
    BY <1>2, <1>4 DEF DatasetInv, TablesTyped
<1>8. ASSUME NEW c \in DatasetIds PROVE FileHeld(c)'
  <2>1. \A v \in Workers : request[v].at = "stored" <=> request'[v].at = "stored"
      BY <1>1, <1>5 DEF NoRequest
  <2>2. FileHeld(c)
      BY DEF DatasetInv
  <2> QED BY <1>1, <1>4, <1>5, <1>6, <2>1, <2>2 DEF FileHeld, NoRequest
<1>9. ASSUME NEW v \in Workers PROVE UploadHolds(v)'
  <2>1. CASE v = w
      BY <1>5, <2>1 DEF UploadHolds, NoRequest
  <2>2. CASE v # w /\ request[v].at = "stored"
    <3>1. request[v].id \in DatasetIds
        BY <2>2, RequestShape DEF DatasetInv, Stored
    <3> QED BY <1>4, <1>5, <1>6, <2>2, <3>1 DEF DatasetInv, UploadHolds, NoRequest
  <2>3. CASE v # w /\ request[v].at # "stored"
      BY <1>5, <2>3 DEF UploadHolds
  <2> QED BY <2>1, <2>2, <2>3
<1>10. ASSUME NEW v \in Workers PROVE EditHolds(v)'
  <2>1. CASE v = w
      BY <1>5, <2>1 DEF EditHolds, NoRequest
  <2>2. CASE v # w /\ request[v].at \in {"computed", "merging"}
    <3>1. request[v].id \in DatasetIds /\ EditHolds(v)
        BY <2>2, RequestShape DEF DatasetInv, Computed, Merging
    <3>2. request[v].at = "merging" /\ request[v].id \notin crossed' =>
              request[v].id # i /\ dataset'[request[v].id] = dataset[request[v].id]
        BY <1>6, <1>7, <2>2, <3>1
    <3> QED BY <1>5, <1>6, <1>7, <2>2, <3>1, <3>2 DEF EditHolds
  <2>3. CASE v # w /\ request[v].at \notin {"computed", "merging"}
      BY <1>5, <2>3 DEF EditHolds
  <2> QED BY <2>1, <2>2, <2>3
<1>11. \A c \in DatasetIds \ crossed' : dataset'[c] # NoDataset => Story(dataset'[c])
    BY <1>2, <1>3, <1>6, <1>7 DEF DatasetInv
<1> QED BY <1>4, <1>5, <1>6, <1>7, <1>8, <1>9, <1>10, <1>11 DEF DatasetInv, TablesTyped

(* A request that is cut off: an upload then leaves its file behind.        *)
LEMMA DeathKeeps ==
    ASSUME DatasetInv, NEW w \in Workers, RequestDies(w)
    PROVE  DatasetInv'
<1>1. CASE request[w].at = "stored"
  <2>1. {d \in DatasetIds : request[w].at = "stored" /\ request[w].id = d} = {request[w].id}
      BY <1>1, RequestShape DEF DatasetInv, Stored
  <2>2. RemoveStorage(request[w].id)
      BY <2>1 DEF RequestDies, RemoveStorage
  <2> QED BY <1>1, <2>2, UploadEnds DEF RequestDies
<1>2. CASE request[w].at # "stored"
  <2>1. UNCHANGED <<dataset, storage, orphan, crossed>>
      BY <1>2 DEF RequestDies
  <2>2. request'[w] = NoRequest /\ NoRequest \in Requests /\ NoRequest.at # "stored"
      BY DEF RequestDies, EndRequest, DatasetInv, Requests, NoRequest
  <2>3. EditHolds(w)'
      BY <2>2 DEF EditHolds, NoRequest
  <2> QED BY <1>2, <2>1, <2>2, <2>3, RequestMoves DEF RequestDies, EndRequest
<1> QED BY <1>1, <1>2

LEMMA DatasetStepKeeps ==
    ASSUME DatasetInv, NEW w \in Workers, DatasetStep(w)
    PROVE  DatasetInv'
<1>1. ASSUME NEW f \in Files, UploadCheck(w, f) PROVE DatasetInv'
  <2> DEFINE q == [at |-> "checked", file |-> f]
  <2>1. q \in Requests /\ q.at # "stored" /\ request[w].at # "stored"
        /\ request' = [request EXCEPT ![w] = q]
        /\ UNCHANGED <<dataset, storage, orphan, crossed>>
      BY <1>1 DEF UploadCheck, Requests, Checked, NoRequest
  <2>2. request'[w].at = "checked"
      BY <2>1 DEF DatasetInv
  <2>3. EditHolds(w)'
      BY <2>2 DEF EditHolds
  <2> HIDE DEF q
  <2> QED BY <2>1, <2>3, RequestMoves
<1>2. CASE UploadWrite(w)
    BY <1>2, WriteKeeps
<1>3. CASE UploadInsert(w)
    BY <1>3, InsertKeeps
<1>4. CASE UploadDuplicate(w) \/ UploadFails(w)
    BY <1>4, UploadEnds DEF UploadDuplicate, UploadFails
<1>5. ASSUME NEW d \in DatasetIds, ProfileRead(w, d) PROVE DatasetInv'
  <2>1. dataset[d] \in DatasetRow /\ (d \notin crossed => Story(dataset[d]))
      BY <1>5 DEF ProfileRead, EditRead, DatasetInv, TablesTyped
  <2> QED BY <1>5, <2>1, EditsTellStories, ReadKeeps DEF ProfileRead
<1>6. ASSUME NEW d \in DatasetIds, NEW t \in Columns, RecommendRead(w, d, t) PROVE DatasetInv'
  <2>1. dataset[d] \in DatasetRow
      BY <1>6 DEF RecommendRead, EditRead, DatasetInv, TablesTyped
  <2> QED BY <1>6, <2>1, EditsTellStories, ReadKeeps DEF RecommendRead
<1>7. CASE MergeLoad(w)
    BY <1>7, LoadKeeps
<1>8. CASE MergeCommit(w)
    BY <1>8, CommitKeeps
<1>9. CASE RequestDies(w)
    BY <1>9, DeathKeeps
<1> QED BY <1>1, <1>2, <1>3, <1>4, <1>5, <1>6, <1>7, <1>8, <1>9 DEF DatasetStep

-----------------------------------------------------------------------------
(* The invariant of all reachable states.                                   *)
THEOREM DatasetInvHolds == DatasetSpec => []DatasetInv
<1>1. DatasetInit => DatasetInv
    BY DEF DatasetInit, DatasetInv, TablesTyped, FileHeld, UploadHolds, EditHolds, Requests,
           NoRequest
<1>2. DatasetInv /\ [DatasetNext]_datasetVars => DatasetInv'
  <2> SUFFICES ASSUME DatasetInv, [DatasetNext]_datasetVars PROVE DatasetInv'
      OBVIOUS
  <2>1. CASE DatasetNext
      BY <2>1, DatasetStepKeeps DEF DatasetNext
  <2>2. CASE UNCHANGED datasetVars
      BY <2>2 DEF datasetVars, DatasetInv, TablesTyped, FileHeld, UploadHolds, EditHolds
  <2> QED BY <2>1, <2>2
<1> QED BY <1>1, <1>2, PTL DEF DatasetSpec

(* Every variable has its type in every reachable state (db/models.py       *)
(* Dataset, application/datasets.py).                                       *)
THEOREM DatasetTypesHold == DatasetSpec => []DatasetTypeOK
<1>1. ASSUME DatasetInv PROVE DatasetTypeOK
  <2>1. \A w \in Workers : request[w] \in Requests
      BY <1>1 DEF DatasetInv
  <2> QED BY <1>1, <2>1 DEF DatasetTypeOK, DatasetInv, TablesTyped, Requests, Checked, Stored,
                            Computed, Merging
<1> QED BY <1>1, DatasetInvHolds, PTL

(* DatasetService.upload: whatever uploads of one file do to each other, a  *)
(* file has one dataset, a dataset has its file, and a file that no row     *)
(* names is that of an upload under way or of one that was cut off.         *)
THEOREM FilesHold == DatasetSpec => []RowsHaveTheirFiles
<1>1. ASSUME DatasetInv PROVE RowsHaveTheirFiles
  <2>1. ASSUME NEW f \in Files PROVE Cardinality(RowFor(f)) <= 1
    <3>1. CASE RowFor(f) = {}
        BY <3>1, FS_EmptySet
    <3>2. CASE RowFor(f) # {}
      <4>1. PICK d \in RowFor(f) : TRUE
          BY <3>2
      <4>2. RowFor(f) = {d}
          BY <1>1, <4>1 DEF RowFor, DatasetInv, FileHeld
      <4> QED BY <4>2, FS_Singleton
    <3> QED BY <3>1, <3>2
  <2> QED BY <1>1, <2>1 DEF RowsHaveTheirFiles, DatasetInv, FileHeld
<1> QED BY <1>1, DatasetInvHolds, PTL

(* DatasetService.profile and recommend_task write a row back that they     *)
(* read long before: as long as neither writes inside the merge of the      *)
(* other, the row tells one story.                                          *)
THEOREM StoriesHold == DatasetSpec => []RowTellsOneStory
<1>1. ASSUME DatasetInv PROVE RowTellsOneStory
    BY <1>1 DEF RowTellsOneStory, DatasetInv, Story
<1> QED BY <1>1, DatasetInvHolds, PTL


-----------------------------------------------------------------------------
(* Monitoring: passes over one model run beside each other while the roles  *)
(* of the baseline change, and any of them may be cut off.                  *)

(* What a pass over a source may conclude.                                  *)
Concludes(source, out) ==
    /\ out.status = "failed" => out = Failed
    /\ out.status = "succeeded" =>
          /\ out.features \subseteq Frozen /\ out.features \cap NumericColumns # {}
          /\ out.severity = "HIGH" => out.recommended
          /\ (source.replay = "normal" /\ out.features \cap NumericColumns \cap VaryingColumns = {})
             => out.severity = "LOW"

SoundRows == {r \in MonitoringRows : Concludes(r.source, r.outcome)}

Computing == [at : {"computing"}, source : Sources, roles : SUBSET Frozen]

Persisting == {q \in [at : {"persisting"}, source : Sources, outcome : Outcomes] :
                  Concludes(q.source, q.outcome)}

EventOf(id, row) == [run |-> id, source |-> row.source, said |-> Summary(row.outcome)]

(* Inductive: what a request is about to write is sound, and the trail is   *)
(* what the rows say, an event for each.                                    *)
MonitoringInv ==
    /\ roles \subseteq Frozen
    /\ monitored \in [MonitoringIds -> {Absent} \cup SoundRows]
    /\ watch \in [Watchers -> {NotWatching} \cup Computing \cup Persisting]
    /\ watchTrail = {EventOf(id, monitored[id]) : id \in {i \in MonitoringIds : monitored[i] # Absent}}

(* Both ways a pass can end are sound.                                      *)
LEMMA FailureIsSound ==
    ASSUME NEW source PROVE Failed \in Outcomes /\ Concludes(source, Failed)
<1>1. Failed \in Outcomes
    BY DEF Failed, Outcomes
<1>2. Failed.status = "failed"
    BY DEF Failed
<1> QED BY <1>1, <1>2 DEF Concludes

(* A report is sound: its features include a numeric one, as the detection  *)
(* of anomalies raised no error; a HIGH drift is a trigger; and a normal    *)
(* replay changes no column that is not both numeric and varying.           *)
LEMMA ReportIsSound ==
    ASSUME NEW source \in Sources, NEW features \in SUBSET Frozen,
           features \cap NumericColumns # {},
           NEW out \in Succeeded(source, features)
    PROVE  out \in Outcomes /\ Concludes(source, out)
<1>1. PICK drift \in {d \in [features -> Severities] : \A f \in features : d[f] \in DriftOf(source, f)},
           dropped \in BOOLEAN, jumped \in BOOLEAN, due \in BOOLEAN, manual \in BOOLEAN :
        out = [status |-> "succeeded", features |-> features, severity |-> MaxSeverity(Range(drift)),
               recommended |-> Triggers(MaxSeverity(Range(drift)), dropped, jumped, due, manual) # {}]
    BY DEF Succeeded
<1> DEFINE worst == MaxSeverity(Range(drift))
<1>2. worst \in Severities
    BY DEF MaxSeverity, Severities
<1>3. out \in Outcomes
    BY <1>1, <1>2 DEF Outcomes
<1>4. worst = "HIGH" => "high_drift" \in Triggers(worst, dropped, jumped, due, manual)
    BY DEF Triggers
<1>5. ASSUME source.replay = "normal", features \cap NumericColumns \cap VaryingColumns = {}
      PROVE  worst = "LOW"
  <2>1. source.upload = Absent
      BY <1>5, AbsentIsNothing DEF Sources, ReplayKinds
  <2>2. ASSUME NEW f \in features PROVE drift[f] = "LOW"
      BY <1>5, <2>1 DEF DriftOf, ReplayChanges
  <2> QED BY <2>2 DEF MaxSeverity, Range
<1> QED BY <1>1, <1>3, <1>4, <1>5 DEF Concludes

(* The four kinds of step of a request, by what it holds.                   *)
LEMMA WatchMoves ==
    ASSUME MonitoringInv, NEW w \in Watchers,
           NEW q \in {NotWatching} \cup Computing \cup Persisting,
           watch' = [watch EXCEPT ![w] = q],
           UNCHANGED <<roles, monitored, watchTrail>>
    PROVE  MonitoringInv'
BY DEF MonitoringInv

LEMMA PersistKeeps ==
    ASSUME MonitoringInv, NEW w \in Watchers, NEW id \in MonitoringIds, Persist(w, id)
    PROVE  MonitoringInv'
<1>1. watch[w] \in Persisting
    BY DEF Persist, MonitoringInv, NotWatching, Computing
<1>2. Row(w) \in SoundRows
    BY <1>1 DEF Row, SoundRows, MonitoringRows, Persisting
<1>3. PICK row \in SoundRows : row = Row(w)
    BY <1>2
<1>4. row # Absent
    BY AbsentIsNoRow DEF SoundRows
<1>5. Payload(id, w) = EventOf(id, row)
    BY <1>3 DEF Payload, EventOf, Row
<1>6. monitored' = [monitored EXCEPT ![id] = row] /\ monitored[id] = Absent
      /\ watchTrail' = watchTrail \cup {EventOf(id, row)}
      /\ watch' = [watch EXCEPT ![w] = NotWatching] /\ roles' = roles
    BY <1>3, <1>5 DEF Persist, EndWatch
<1>7. watchTrail' = {EventOf(i, monitored'[i]) : i \in {j \in MonitoringIds : monitored'[j] # Absent}}
    BY <1>4, <1>6 DEF MonitoringInv
<1> QED BY <1>6, <1>7 DEF MonitoringInv

LEMMA WatcherStepKeeps ==
    ASSUME MonitoringInv, NEW w \in Watchers,
           \/ \E source \in Sources : Check(w, source)
           \/ Compute(w) \/ ComputeRaises(w) \/ Unwatched(w)
    PROVE  MonitoringInv'
<1>1. ASSUME NEW source \in Sources, Check(w, source) PROVE MonitoringInv'
  <2>1. [at |-> "computing", source |-> source, roles |-> roles] \in Computing
      BY DEF Computing, MonitoringInv
  <2> QED BY <1>1, <2>1, WatchMoves DEF Check
<1>2. ASSUME watch[w].at = "computing" PROVE watch[w] \in Computing
    BY <1>2 DEF MonitoringInv, NotWatching, Persisting
<1>3. ASSUME watch[w].at = "computing", NEW out \in Outcomes, Concludes(watch[w].source, out)
      PROVE  [at |-> "persisting", source |-> watch[w].source, outcome |-> out] \in Persisting
    BY <1>2, <1>3 DEF Computing, Persisting
<1>4. CASE Compute(w)
  <2> DEFINE features == Allowlist(watch[w])
             numeric == features \cap NumericColumns
             baseline(rows) == [columns |-> Frozen, rows |-> rows]
             errors(rows, window) == AnomalyErrors(baseline(rows), window, numeric)
                                     \cup DriftErrors(baseline(rows), window, features)
             outcomes(rows, window) == IF features = {} \/ errors(rows, window) # {} THEN {Failed}
                                       ELSE Succeeded(watch[w].source, features)
             ends(out) == watch' = [watch EXCEPT
                 ![w] = [at |-> "persisting", source |-> watch[w].source, outcome |-> out]]
  <2>0. \E rows \in {MinBaselineRows - 1, MinBaselineRows} :
        \E window \in Windows(watch[w].source, features, rows) :
        \E out \in outcomes(rows, window) : ends(out)
      BY <1>4, Zenon DEF Compute
  <2>1. PICK rows, window, out : out \in outcomes(rows, window) /\ ends(out)
      BY <2>0
  <2>2. watch[w].at = "computing" /\ UNCHANGED <<roles, monitored, watchTrail>>
      BY <1>4 DEF Compute
  <2>3. watch[w].source \in Sources /\ features \in SUBSET Frozen
      BY <1>2, <2>1, <2>2 DEF Computing, Allowlist
  <2>4. CASE out = Failed
      BY <1>3, <2>1, <2>2, <2>4, FailureIsSound, WatchMoves
  <2>5. CASE out # Failed
    <3>1. numeric # {}
        BY <2>1, <2>5 DEF AnomalyErrors
    <3>2. out \in Outcomes /\ Concludes(watch[w].source, out)
        BY <2>1, <2>3, <2>5, <3>1, ReportIsSound
    <3> QED BY <1>3, <2>1, <2>2, <3>2, WatchMoves
  <2> QED BY <2>4, <2>5
<1>5. CASE ComputeRaises(w)
  <2>1. watch' = [watch EXCEPT ![w] = [at |-> "persisting", source |-> watch[w].source,
                                       outcome |-> Failed]]
      BY <1>5 DEF ComputeRaises
  <2> QED BY <1>3, <1>5, <2>1, FailureIsSound, WatchMoves DEF ComputeRaises
<1>6. CASE Unwatched(w)
    BY <1>6, WatchMoves DEF Unwatched, EndWatch
<1> QED BY <1>1, <1>4, <1>5, <1>6

(* The invariant of all reachable states.                                   *)
THEOREM MonitoringInvHolds == MonitoringSpec => []MonitoringInv
<1>1. MonitoringInit => MonitoringInv
    BY DEF MonitoringInit, MonitoringInv
<1>2. MonitoringInv /\ [MonitoringNext]_monitoringVars => MonitoringInv'
  <2> SUFFICES ASSUME MonitoringInv, [MonitoringNext]_monitoringVars PROVE MonitoringInv'
      OBVIOUS
  <2>1. CASE ChangeRoles
      BY <2>1 DEF ChangeRoles, MonitoringInv
  <2>2. ASSUME NEW w \in Watchers, NEW id \in MonitoringIds, Persist(w, id)
        PROVE  MonitoringInv'
      BY <2>2, PersistKeeps
  <2>3. ASSUME NEW w \in Watchers,
               \/ \E source \in Sources : Check(w, source)
               \/ Compute(w) \/ ComputeRaises(w) \/ Unwatched(w)
        PROVE  MonitoringInv'
      BY <2>3, WatcherStepKeeps
  <2>4. CASE UNCHANGED monitoringVars
      BY <2>4 DEF monitoringVars, MonitoringInv
  <2> QED BY <2>1, <2>2, <2>3, <2>4 DEF MonitoringNext
<1> QED BY <1>1, <1>2, PTL DEF MonitoringSpec

(* Every variable has its type in every reachable state (db/models.py       *)
(* MonitoringRun, application/monitoring.py).                               *)
THEOREM MonitoringTypesHold == MonitoringSpec => []MonitoringTypeOK
<1>1. ASSUME MonitoringInv PROVE MonitoringTypeOK
  <2>1. \A id \in MonitoringIds : monitored[id] # Absent => monitored[id] \in MonitoringRows
      BY <1>1 DEF MonitoringInv, SoundRows
  <2>2. \A e \in watchTrail : /\ DOMAIN e = {"run", "source", "said"}
                              /\ e.run \in MonitoringIds /\ e.source \in Sources
      BY <1>1, <2>1 DEF MonitoringInv, EventOf, MonitoringRows
  <2> QED BY <1>1, <2>1, <2>2 DEF MonitoringTypeOK, MonitoringInv, Computing, Persisting
<1> QED BY <1>1, MonitoringInvHolds, PTL

(* MonitoringService.run: whatever changes the roles or raises meanwhile, a *)
(* row tells what happened and its one audit event says the same.           *)
THEOREM RunsTellWhatHappened == MonitoringSpec => []RunTellsWhatHappened
<1>1. ASSUME MonitoringInv PROVE RunTellsWhatHappened
  <2>1. ASSUME NEW id \in MonitoringIds, monitored[id] # Absent
        PROVE  /\ Concludes(monitored[id].source, monitored[id].outcome)
               /\ EventOf(id, monitored[id]) \in watchTrail
               /\ {f \in watchTrail : f.run = id} = {EventOf(id, monitored[id])}
               /\ EventOf(id, monitored[id]).said = Summary(monitored[id].outcome)
    <3>1. Concludes(monitored[id].source, monitored[id].outcome)
        BY <1>1, <2>1 DEF MonitoringInv, SoundRows
    <3> QED BY <1>1, <2>1, <3>1 DEF MonitoringInv, EventOf
  <2>2. \A e \in watchTrail : monitored[e.run] # Absent
      BY <1>1 DEF MonitoringInv, EventOf
  <2> QED BY <2>1, <2>2 DEF RunTellsWhatHappened, Concludes
<1> QED BY <1>1, MonitoringInvHolds, PTL

-----------------------------------------------------------------------------
(* The console: lists change at the backend while the session keeps what it *)
(* fetched, and a click may cut a button before it drops its list.          *)

Statuses == {"none", "queued", "succeeded", "failed"}

(* A kept list is one the backend has had, and so is what the session did.  *)
ListInv(l) ==
    /\ backend[l] \in 0..changes
    /\ owed[l] \in 0..backend[l]
    /\ kept[l] \in 0..backend[l] \cup {NotKept, Unavailable}
    /\ l \notin {"monitoring_runs"} \cup cutShort /\ IsListed(l) => kept[l] >= owed[l]

ListsInv ==
    /\ changes \in 0..MaxChanges
    /\ backend = [l \in Lists |-> backend[l]]
    /\ owed = [l \in Lists |-> owed[l]]
    /\ kept = [l \in Lists |-> kept[l]]
    /\ cutShort \subseteq Lists
    /\ fetches \in 0..MaxFetches
    /\ \A l \in Lists : ListInv(l)

(* What is selected is of a training that began, and a detail that says     *)
(* succeeded is of one that did, as that status is the last.                *)
SelectionInv ==
    /\ training \in [ExperimentIds -> Statuses]
    /\ selected \in ExperimentIds \cup {NoSelection}
    /\ selected # NoSelection => training[selected] # "none"
    /\ detail \in [of : ExperimentIds, status : Statuses \ {"none"}] \cup {NoDetail}
    /\ detail.status = "succeeded" => training[detail.of] = "succeeded"
    /\ registered \subseteq ExperimentIds
    /\ \A e \in registered : training[e] = "succeeded"

ConsoleInv == ListsInv /\ SelectionInv

(* A fetch keeps what the backend has now, which is all the session did.    *)
LEMMA FetchKeepsLists ==
    ASSUME ListsInv, NEW l \in Lists, Fetch(l)
    PROVE  ListsInv'
<1>1. fetches' \in 0..MaxFetches /\ fetches' = fetches + 1 /\ UNCHANGED <<backend, changes, owed>>
      /\ cutShort' = cutShort \ {l}
    BY ConsoleBoundsAreNat DEF Fetch, ListsInv
<1>2. PICK now \in {backend[l], Unavailable} : kept' = [kept EXCEPT ![l] = now]
    BY DEF Fetch
<1>3. DOMAIN kept' = Lists /\ kept' = [m \in Lists |-> kept'[m]] /\ kept'[l] = now
      /\ \A m \in Lists \ {l} : kept'[m] = kept[m]
    BY <1>2 DEF ListsInv
<1>4. ASSUME NEW m \in Lists PROVE ListInv(m)'
  <2>1. ListInv(m) /\ changes \in Nat
      BY ConsoleBoundsAreNat DEF ListsInv
  <2>2. CASE m = l
      BY <1>1, <1>2, <1>3, <2>1, <2>2 DEF ListInv, IsListed
  <2>3. CASE m # l
      BY <1>1, <1>3, <2>1, <2>3 DEF ListInv, IsListed
  <2> QED BY <2>2, <2>3
<1> QED BY <1>1, <1>3, <1>4 DEF ListsInv

(* A change elsewhere only makes the kept list older.                       *)
LEMMA ChangeElsewhereKeepsLists ==
    ASSUME ListsInv, NEW l \in Lists, Changing(l), UNCHANGED <<kept, owed, cutShort>>
    PROVE  ListsInv'
<1>1. changes' \in 0..MaxChanges /\ changes' = changes + 1 /\ fetches' = fetches
      /\ changes \in Nat
    BY ConsoleBoundsAreNat DEF Changing, ListsInv
<1>2. DOMAIN backend' = Lists /\ backend' = [m \in Lists |-> backend'[m]]
      /\ \A m \in Lists : backend'[m] = IF m = l THEN backend[l] + 1 ELSE backend[m]
    BY DEF Changing, ListsInv
<1>3. ASSUME NEW m \in Lists PROVE ListInv(m)'
  <2>1. ListInv(m)
      BY DEF ListsInv
  <2> QED BY <1>1, <1>2, <2>1 DEF ListInv, IsListed
<1> QED BY <1>1, <1>2, <1>3 DEF ListsInv

(* A change of this session leaves its list dropped, cut, or known not to   *)
(* be dropped by any button.                                                *)
LEMMA ChangeHereKeepsLists ==
    ASSUME ListsInv, NEW l \in Lists, Changing(l),
           owed' = [owed EXCEPT ![l] = backend[l] + 1],
           \/ kept' = [kept EXCEPT ![l] = NotKept] /\ cutShort' = cutShort \ {l}
           \/ kept' = kept /\ cutShort' = cutShort \cup {l}
           \/ kept' = kept /\ cutShort' = cutShort /\ l = "monitoring_runs"
    PROVE  ListsInv'
<1>1. changes' \in 0..MaxChanges /\ changes' = changes + 1 /\ fetches' = fetches
      /\ changes \in Nat
    BY ConsoleBoundsAreNat DEF Changing, ListsInv
<1>2. DOMAIN backend' = Lists /\ backend' = [m \in Lists |-> backend'[m]]
      /\ \A m \in Lists : backend'[m] = IF m = l THEN backend[l] + 1 ELSE backend[m]
    BY DEF Changing, ListsInv
<1>3. DOMAIN owed' = Lists /\ owed' = [m \in Lists |-> owed'[m]]
      /\ \A m \in Lists : owed'[m] = IF m = l THEN backend[l] + 1 ELSE owed[m]
    BY DEF ListsInv
<1>4. /\ DOMAIN kept' = Lists /\ kept' = [m \in Lists |-> kept'[m]]
      /\ \A m \in Lists \ {l} : kept'[m] = kept[m] /\ (m \in cutShort' <=> m \in cutShort)
      /\ \/ kept'[l] = NotKept
         \/ kept'[l] = kept[l] /\ l \in {"monitoring_runs"} \cup cutShort'
    BY DEF ListsInv
<1>5. ASSUME NEW m \in Lists PROVE ListInv(m)'
  <2>1. ListInv(m)
      BY DEF ListsInv
  <2>2. CASE m = l
      BY <1>1, <1>2, <1>3, <1>4, <2>1, <2>2 DEF ListInv, IsListed
  <2>3. CASE m # l
      BY <1>1, <1>2, <1>3, <1>4, <2>1, <2>3 DEF ListInv, IsListed
  <2> QED BY <2>2, <2>3
<1>6. cutShort' \subseteq Lists
    BY DEF ListsInv
<1> QED BY <1>1, <1>2, <1>3, <1>4, <1>5, <1>6 DEF ListsInv

LEMMA ChangeAndDropKeepsLists ==
    ASSUME ListsInv, NEW l \in Lists, ChangeAndDrop(l)
    PROVE  ListsInv'
BY ChangeHereKeepsLists DEF ChangeAndDrop

LEMMA ConsoleStepKeepsLists ==
    ASSUME ListsInv, ConsoleNext
    PROVE  ListsInv'
<1>1. ASSUME NEW l \in Lists, Load(l) \/ Reload(l) \/ ChangedElsewhere(l) PROVE ListsInv'
    BY <1>1, FetchKeepsLists, ChangeElsewhereKeepsLists DEF Load, Reload, ChangedElsewhere
<1>2. CASE UNCHANGED listVars
    BY <1>2 DEF listVars, ListsInv, ListInv, IsListed
<1>3. ASSUME NEW e \in ExperimentIds,
             CreateExperiment(e) \/ ExperimentMoves(e)
             \/ \E drop \in BOOLEAN : SelectExperiment(e, drop)
      PROVE  ListsInv'
  <2>1. CASE CreateExperiment(e)
      BY <2>1, ChangeAndDropKeepsLists DEF CreateExperiment, Lists
  <2>2. CASE ExperimentMoves(e)
      BY <2>2, ChangeElsewhereKeepsLists DEF ExperimentMoves, Lists
  <2>3. ASSUME NEW drop \in BOOLEAN, SelectExperiment(e, drop) PROVE ListsInv'
      BY <1>2, <2>3 DEF SelectExperiment
  <2> QED BY <1>3, <2>1, <2>2, <2>3
<1>4. CASE ResetContext \/ ShowDetail
    BY <1>2, <1>4 DEF ResetContext, ShowDetail
<1>5. CASE UploadDataset \/ ProfileDataset \/ RecommendTask
    BY <1>5, ChangeAndDropKeepsLists DEF UploadDataset, ProfileDataset, RecommendTask, Lists
<1>6. CASE RegisterModel \/ DeployModel \/ ExecutePromotion
    BY <1>6, ChangeAndDropKeepsLists DEF RegisterModel, DeployModel, ExecutePromotion, Lists
<1>7. CASE RunMonitoring
    BY <1>7, ChangeHereKeepsLists DEF RunMonitoring, ChangeAndKeep, Lists
<1>8. CASE RequestPromotion \/ Decide \/ ProposeWorkOrder \/ DraftWorkOrder
    BY <1>8, ChangeAndDropKeepsLists
       DEF RequestPromotion, Decide, ProposeWorkOrder, DraftWorkOrder, Lists
<1> QED BY <1>1, <1>3, <1>4, <1>5, <1>6, <1>7, <1>8 DEF ConsoleNext

(* Trainings go forward only, so what was read of one stays true.           *)
LEMMA ConsoleStepKeepsSelection ==
    ASSUME SelectionInv, ConsoleNext
    PROVE  SelectionInv'
<1>1. CASE UNCHANGED experimentVars
    BY <1>1 DEF experimentVars, SelectionInv
<1>2. ASSUME NEW e \in ExperimentIds, CreateExperiment(e) PROVE SelectionInv'
    BY <1>2 DEF CreateExperiment, SelectionInv, Statuses, NoDetail
<1>3. ASSUME NEW e \in ExperimentIds, ExperimentMoves(e) PROVE SelectionInv'
    BY <1>3 DEF ExperimentMoves, SelectionInv, Statuses, NoDetail
<1>4. ASSUME NEW e \in ExperimentIds, NEW drop \in BOOLEAN, SelectExperiment(e, drop)
      PROVE  SelectionInv'
    BY <1>4 DEF SelectExperiment, SelectionInv, NoDetail
<1>5. CASE ResetContext
    BY <1>5 DEF ResetContext, SelectionInv, NoDetail
<1>6. CASE ShowDetail
    BY <1>6 DEF ShowDetail, SelectionInv, Statuses, NoDetail
<1>7. CASE RegisterModel
  <2>1. detail \in [of : ExperimentIds, status : Statuses \ {"none"}]
      BY <1>7 DEF RegisterModel, SelectionInv, NoDetail
  <2> QED BY <1>7, <2>1 DEF RegisterModel, SelectionInv
<1>8. ASSUME NEW l \in Lists, Load(l) \/ Reload(l) \/ ChangedElsewhere(l) PROVE SelectionInv'
    BY <1>1, <1>8 DEF Load, Reload, ChangedElsewhere, Fetch
<1>9. CASE UploadDataset \/ ProfileDataset \/ RecommendTask \/ DeployModel \/ RunMonitoring
           \/ RequestPromotion \/ Decide \/ ExecutePromotion \/ ProposeWorkOrder \/ DraftWorkOrder
    BY <1>1, <1>9 DEF UploadDataset, ProfileDataset, RecommendTask, DeployModel, RunMonitoring,
        RequestPromotion, Decide, ExecutePromotion, ProposeWorkOrder, DraftWorkOrder
<1> QED BY <1>2, <1>3, <1>4, <1>5, <1>6, <1>7, <1>8, <1>9 DEF ConsoleNext

(* The invariant of all reachable states.                                   *)
THEOREM ConsoleInvHolds == ConsoleSpec => []ConsoleInv
<1>1. ConsoleInit => ConsoleInv
    BY ConsoleBoundsAreNat
       DEF ConsoleInit, ConsoleInv, ListsInv, ListInv, IsListed, SelectionInv, Statuses, NoDetail
<1>2. ConsoleInv /\ [ConsoleNext]_consoleVars => ConsoleInv'
  <2>1. CASE UNCHANGED consoleVars
      BY <2>1 DEF consoleVars, ConsoleInv, ListsInv, ListInv, IsListed, SelectionInv
  <2> QED BY <2>1, ConsoleStepKeepsLists, ConsoleStepKeepsSelection DEF ConsoleInv
<1> QED BY <1>1, <1>2, PTL DEF ConsoleSpec

(* Every variable has its type in every reachable state (ui/app.py).        *)
THEOREM ConsoleTypesHold == ConsoleSpec => []ConsoleTypeOK
<1>1. ASSUME ConsoleInv PROVE ConsoleTypeOK
  <2>1. ASSUME NEW l \in Lists
        PROVE  /\ backend[l] \in 0..MaxChanges /\ owed[l] \in 0..MaxChanges
               /\ kept[l] \in 0..MaxChanges \cup {NotKept, Unavailable}
      BY <1>1, ConsoleBoundsAreNat DEF ConsoleInv, ListsInv, ListInv
  <2>2. /\ backend \in [Lists -> 0..MaxChanges] /\ owed \in [Lists -> 0..MaxChanges]
        /\ kept \in [Lists -> 0..MaxChanges \cup {NotKept, Unavailable}]
      BY <1>1, <2>1 DEF ConsoleInv, ListsInv
  <2> QED BY <1>1, <2>2 DEF ConsoleTypeOK, ConsoleInv, ListsInv, SelectionInv, Statuses
<1> QED BY <1>1, ConsoleInvHolds, PTL

(* ui/app.py: whatever happens at the backend, and whenever the user clicks,*)
(* the session shows what it did itself, but for the lists that were cut    *)
(* and the one no button drops; and it registers what succeeded only.       *)
THEOREM OwnWritesAreShown == ConsoleSpec => []OwnWritesShown
<1>1. ASSUME ConsoleInv PROVE OwnWritesShown
    BY <1>1 DEF OwnWritesShown, ConsoleInv, ListsInv, ListInv, SelectionInv
<1> QED BY <1>1, ConsoleInvHolds, PTL

-----------------------------------------------------------------------------
(* All four services beside each other: the steps of one leave the others   *)
(* as they are.                                                             *)
LEMMA EveryScene == Spec => DatasetSpec /\ PredictionSpec /\ MonitoringSpec /\ ConsoleSpec
<1>1. Init => DatasetInit /\ PredictionInit /\ MonitoringInit /\ ConsoleInit
    BY DEF Init
<1>2. [Next]_<<scene, datasetVars, predictionVars, monitoringVars, consoleVars>> =>
        /\ [DatasetNext]_datasetVars /\ [PredictionNext]_predictionVars
        /\ [MonitoringNext]_monitoringVars /\ [ConsoleNext]_consoleVars
    BY DEF Next
<1> QED BY <1>1, <1>2, PTL DEF Spec, DatasetSpec, PredictionSpec, MonitoringSpec, ConsoleSpec

(* The types of all four, in the specification the services are checked     *)
(* under.                                                                   *)
THEOREM ServicesTypesHold == Spec => []ServicesTypeOK
BY EveryScene, DatasetTypesHold, PredictionTypesHold, MonitoringTypesHold, ConsoleTypesHold, PTL
   DEF ServicesTypeOK
=============================================================================
