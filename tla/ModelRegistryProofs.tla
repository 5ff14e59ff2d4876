------------------------- MODULE ModelRegistryProofs -------------------------
(* Model registration and demo deployment, for any number of rows, runs and *)
(* names.  That what is stored names what MLflow has is proved for any      *)
(* number of API threads; the rest is proved where requests follow each     *)
(* other and any of them may be cut off at any step, as TLC refutes it for  *)
(* two threads.                                                             *)
EXTENDS ModelRegistry, FiniteSetTheorems, SequenceTheorems, TLAPS

ModelRow == [run: Runs, name: Names, version: Nat, candidate: BOOLEAN, deployed: BOOLEAN]

Calls == {Idle} \cup RegisterCall \cup DeployCall

StateTyped ==
    /\ row \in [RowIds -> {NoModelRow} \cup ModelRow]
    /\ versions \in [Names -> Seq(Runs)]
    /\ candidateAlias \in [Names -> Nat]
    /\ call \in [Workers -> Calls]

RegisterOps == {"search", "create", "alias", "scan", "lock", "locked"}

DeployOps == {"deploy", "deploy_lock", "deploy_locked"}

Registering(w) == call[w].op \in RegisterOps

Deploying(w) == call[w].op \in DeployOps

Versioned(w) == call[w].op \in {"alias", "scan", "lock", "locked"}

(* A version of a name that MLflow has for a run.                           *)
HeldBy(n, v, run) == v \in Version(n) /\ versions[n][v] = run

(* A request has a version that MLflow made for its run, a row that is      *)
(* there, and rows of its own name.                                         *)
CallSound(w) ==
    /\ Versioned(w) => HeldBy(call[w].name, call[w].version, call[w].run)
    /\ Deploying(w) => call[w].id \in RowsOf(call[w].name)
    /\ Registering(w) \/ Deploying(w) => call[w].rows \subseteq RowsOf(call[w].name)

(* Inductive, for any number of workers: MLflow's versions are only added.  *)
RegistryInv ==
    /\ StateTyped
    /\ \A n \in Names : candidateAlias[n] \in Version(n) \cup {0}
    /\ \A r \in Registered : HeldBy(row[r].name, row[r].version, row[r].run)
    /\ \A w \in Workers : CallSound(w)

-----------------------------------------------------------------------------
(* Requests follow each other.                                              *)
OneAtATime == \A v, w \in Workers : v = w

(* What a request c has read is then still so when it writes.               *)
StillTrue(c) ==
    /\ c.op \in RegisterOps => \A r \in Registered : row[r].run # c.run
    /\ c.op = "create" => \A v \in Version(c.name) : versions[c.name][v] # c.run
    /\ c.op \in {"scan", "lock", "locked"} => candidateAlias[c.name] = c.version
    /\ c.op \in {"lock", "locked", "deploy_lock", "deploy_locked"} => c.rows = RowsOf(c.name)
    /\ c.op \in DeployOps => c.was = row[c.id].deployed

(* At most one row of a name is the candidate, and it is MLflow's unless    *)
(* MLflow's has no row.                                                     *)
NameAgrees(n) ==
    /\ \A r, q \in Candidates(n) : r = q
    /\ \/ \A r \in RowsOf(n) : row[r].candidate <=> row[r].version = candidateAlias[n]
       \/ \A r \in RowsOf(n) : row[r].version # candidateAlias[n]

(* Inductive when requests follow each other.  A registration holds a run   *)
(* no row has, so its version is no row's either: pointing the alias at it  *)
(* parts MLflow from the database, and the commit joins them again.         *)
SoloInv ==
    /\ RegistryInv
    /\ OneRowPerRun
    /\ OneVersionPerRun
    /\ \A n \in Names : NameAgrees(n)
    /\ \A w \in Workers : StillTrue(call[w])

-----------------------------------------------------------------------------
(* The fields of a request, by what it is doing.                            *)
LEMMA CallShape ==
    ASSUME call \in [Workers -> Calls], NEW w \in Workers
    PROVE  /\ call[w].op \in {"idle"} \cup RegisterOps \cup DeployOps
           /\ call[w].op = "idle" <=> call[w] = Idle
           /\ call[w].op \in RegisterOps => call[w] \in RegisterCall
           /\ call[w].op \in DeployOps => call[w] \in DeployCall
BY DEF Calls, Idle, RegisterCall, DeployCall, RegisterOps, DeployOps

(* A request that goes on keeps what it has read.                           *)
LEMMA CallGoesOn ==
    ASSUME call \in [Workers -> Calls], NEW w \in Workers, NEW op
    PROVE  /\ call[w].op \in RegisterOps /\ op \in RegisterOps =>
                  [call[w] EXCEPT !.op = op] \in RegisterCall
           /\ call[w].op \in DeployOps /\ op \in DeployOps =>
                  [call[w] EXCEPT !.op = op] \in DeployCall
<1>1. ASSUME call[w].op \in RegisterOps, op \in RegisterOps
      PROVE  [call[w] EXCEPT !.op = op] \in RegisterCall
  <2>1. call[w] \in RegisterCall
      BY <1>1, CallShape
  <2> QED BY <1>1, <2>1 DEF RegisterCall, RegisterOps
<1>2. ASSUME call[w].op \in DeployOps, op \in DeployOps
      PROVE  [call[w] EXCEPT !.op = op] \in DeployCall
  <2>1. call[w] \in DeployCall
      BY <1>2, CallShape
  <2> QED BY <1>2, <2>1 DEF DeployCall, DeployOps
<1> QED BY <1>1, <1>2

LEMMA ModelRowIsNotNone == NoModelRow \notin ModelRow
BY NoRunIsNone DEF NoModelRow, ModelRow

(* The rows of a name are rows.                                             *)
LEMMA RowsAreRows ==
    ASSUME StateTyped
    PROVE  /\ \A r \in Registered : r \in RowIds /\ row[r] \in ModelRow
           /\ \A n : RowsOf(n) \subseteq Registered
           /\ \A n : \A r \in RowsOf(n) : row[r].name = n
BY ModelRowIsNotNone DEF StateTyped, Registered, RowsOf

(* Nothing MLflow has is changed or taken away.                             *)
VersionsStay ==
    \A n \in Names : /\ Version(n) \subseteq Version(n)'
                     /\ \A v \in Version(n) : versions'[n][v] = versions[n][v]

RowsStay == \A n \in Names : RowsOf(n) \subseteq RowsOf(n)'

LEMMA OtherCallsSound ==
    ASSUME StateTyped, NEW v \in Workers, CallSound(v), call'[v] = call[v],
           VersionsStay, RowsStay
    PROVE  CallSound(v)'
<1>1. PICK c : c = call[v]
    OBVIOUS
<1>2. Registering(v) \/ Deploying(v) => c.name \in Names
    BY <1>1, CallShape DEF StateTyped, Registering, Deploying, RegisterCall, DeployCall,
                           RegisterOps, DeployOps
<1>3. /\ Versioned(v)' <=> Versioned(v)
      /\ Registering(v)' <=> Registering(v)
      /\ Deploying(v)' <=> Deploying(v)
      /\ Versioned(v) => Registering(v)
    BY DEF Versioned, Registering, Deploying, RegisterOps, DeployOps
<1>4. Versioned(v)' => HeldBy(c.name, c.version, c.run)'
    BY <1>1, <1>2, <1>3 DEF CallSound, VersionsStay, HeldBy, Version
<1>5. /\ Deploying(v)' => c.id \in RowsOf(c.name)'
      /\ Registering(v)' \/ Deploying(v)' => c.rows \subseteq RowsOf(c.name)'
    BY <1>1, <1>2, <1>3 DEF CallSound, RowsStay
<1> QED BY <1>1, <1>4, <1>5 DEF CallSound

(* The database and MLflow keep their part when versions and rows stay.     *)
LEMMA TablesStaySound ==
    ASSUME RegistryInv, StateTyped', NEW w \in Workers, CallSound(w)',
           \A v \in Workers \ {w} : call'[v] = call[v],
           VersionsStay, RowsStay,
           \A n \in Names : candidateAlias'[n] = candidateAlias[n]
                            \/ candidateAlias'[n] \in Version(n),
           \A r \in Registered' : HeldBy(row'[r].name, row'[r].version, row'[r].run)
    PROVE  RegistryInv'
<1>1. \A v \in Workers : CallSound(v)'
    BY OtherCallsSound DEF RegistryInv
<1>2. ASSUME NEW n \in Names PROVE candidateAlias'[n] \in Version(n)' \cup {0}
    BY DEF RegistryInv, VersionsStay
<1>3. ASSUME NEW r \in Registered', NEW R, R = row'[r] PROVE HeldBy(R.name, R.version, R.run)'
  <2>1. R.name \in Names
      BY <1>3 DEF StateTyped, Registered, ModelRow
  <2>2. HeldBy(R.name, R.version, R.run)
      BY <1>3
  <2> QED BY <2>1, <2>2 DEF VersionsStay, HeldBy, Version
<1>4. (\A r \in Registered : HeldBy(row[r].name, row[r].version, row[r].run))'
    BY <1>3 DEF HeldBy
<1> QED BY <1>1, <1>2, <1>4 DEF RegistryInv

(* A request in hand is sound.                                              *)
SoundAs(q) ==
    /\ q.op \in {"alias", "scan", "lock", "locked"} => HeldBy(q.name, q.version, q.run)
    /\ q.op \in DeployOps => q.id \in RowsOf(q.name)
    /\ q.op \in RegisterOps \cup DeployOps => q.rows \subseteq RowsOf(q.name)

(* A step that only moves a request.                                        *)
LEMMA CallMoves ==
    ASSUME RegistryInv, NEW w \in Workers, NEW q \in Calls, SoundAs(q),
           call' = [call EXCEPT ![w] = q], UNCHANGED <<row, versions, candidateAlias>>
    PROVE  RegistryInv'
<1>1. StateTyped' /\ call'[w] = q /\ \A v \in Workers \ {w} : call'[v] = call[v]
    BY DEF RegistryInv, StateTyped
<1>2. VersionsStay /\ RowsStay /\ Registered' = Registered
    BY DEF VersionsStay, RowsStay, Version, RowsOf, Registered
<1>3. \A n, v, run : HeldBy(n, v, run)' <=> HeldBy(n, v, run)
    BY DEF HeldBy, Version
<1>4. \A n : RowsOf(n)' = RowsOf(n)
    BY DEF RowsOf, Registered
<1>5. CallSound(w)'
    BY <1>1, <1>3, <1>4 DEF CallSound, SoundAs, Versioned, Registering, Deploying, RegisterOps,
                            DeployOps
<1>6. \A r \in Registered' : HeldBy(row'[r].name, row'[r].version, row'[r].run)
    BY <1>2 DEF RegistryInv
<1>7. \A n \in Names : candidateAlias'[n] = candidateAlias[n]
    OBVIOUS
<1> QED BY <1>1, <1>2, <1>5, <1>6, <1>7, TablesStaySound

(* register_run takes the latest version that matches: there is one.        *)
LEMMA LargestNumber ==
    ASSUME NEW n \in Nat, NEW S \in SUBSET (1..n), S # {}
    PROVE  \E x \in S : \A u \in S : u <= x
<1> DEFINE less == {p \in Nat \X Nat : p[1] < p[2]}
           T == {n - u : u \in S}
<1>1. IsWellFoundedOn(less, Nat)
    BY NatLessThanWellFounded DEF OpToRel
<1>2. T \subseteq Nat /\ T # {}
  <2>1. \A u \in S : n - u \in Nat
      OBVIOUS
  <2> QED BY <2>1
<1>3. PICK x \in T : \A y \in T : ~ (<<y, x>> \in less)
  <2> HIDE DEF less, T
  <2> QED BY <1>1, <1>2, WFMin
<1>4. ASSUME NEW y \in T PROVE x <= y
  <2>1. x \in Nat /\ y \in Nat /\ <<y, x>> \notin less
      BY <1>2, <1>3
  <2> HIDE DEF T
  <2> QED BY <2>1
<1>5. PICK u \in S : x = n - u
    OBVIOUS
<1>6. ASSUME NEW v \in S PROVE v <= u
  <2>1. x <= n - v
      BY <1>4
  <2> QED BY <1>5, <2>1
<1> QED BY <1>6

(* What each step that only moves the request of w makes of it.             *)
MovesTo(w, q) ==
    /\ q \in Calls /\ SoundAs(q)
    /\ call' = [call EXCEPT ![w] = q]
    /\ UNCHANGED <<row, versions, candidateAlias>>

LEMMA ReadMoves ==
    ASSUME RegistryInv, NEW w \in Workers, NEW run \in Runs, NEW n \in Names,
           RegisterRead(w, run, n)
    PROVE  MovesTo(w, [op |-> "search", run |-> run, name |-> n, version |-> 0, rows |-> {}])
<1> DEFINE q == [op |-> "search", run |-> run, name |-> n, version |-> 0, rows |-> {}]
<1>1. q \in RegisterCall
    BY DEF RegisterCall
<1>2. SoundAs(q)
    BY DEF SoundAs, DeployOps
<1> QED BY <1>1, <1>2 DEF MovesTo, RegisterRead, Calls

LEMMA SearchMoves ==
    ASSUME RegistryInv, NEW w \in Workers, SearchVersion(w)
    PROVE  \/ /\ Matching(call[w].name, call[w].run) = {}
              /\ MovesTo(w, [call[w] EXCEPT !.op = "create"])
           \/ \E v : MovesTo(w, [call[w] EXCEPT !.op = "alias", !.version = v])
<1> DEFINE found == Matching(call[w].name, call[w].run)
<1>1. call[w] \in RegisterCall /\ call[w].op = "search" /\ CallSound(w)
    BY CallShape DEF RegistryInv, StateTyped, SearchVersion, RegisterOps
<1>2. CASE found = {}
  <2> DEFINE q == [call[w] EXCEPT !.op = "create"]
  <2>1. q \in RegisterCall /\ q.op = "create" /\ q.rows = call[w].rows /\ q.name = call[w].name
      BY <1>1 DEF RegisterCall
  <2>2. SoundAs(q)
      BY <1>1, <2>1 DEF SoundAs, DeployOps, CallSound, Registering, RegisterOps
  <2>3. call' = [call EXCEPT ![w] = q] /\ UNCHANGED <<row, versions, candidateAlias>>
      BY <1>2 DEF SearchVersion, Goto
  <2> QED BY <1>2, <2>1, <2>2, <2>3 DEF MovesTo, Calls
<1>3. CASE found # {}
  <2> DEFINE v == CHOOSE v \in found : \A u \in found : u <= v
             q == [call[w] EXCEPT !.op = "alias", !.version = v]
  <2>1. call' = [call EXCEPT ![w] = q] /\ UNCHANGED <<row, versions, candidateAlias>>
      BY <1>3 DEF SearchVersion
  <2>2. v \in found
    <3>1. call[w].name \in Names /\ versions[call[w].name] \in Seq(Runs)
        BY <1>1 DEF RegisterCall, RegistryInv, StateTyped
    <3>2. found \subseteq 1..Len(versions[call[w].name]) /\ Len(versions[call[w].name]) \in Nat
        BY <3>1 DEF Matching
    <3>3. \E x \in found : \A u \in found : u <= x
      <4> HIDE DEF found
      <4> QED BY <1>3, <3>2, LargestNumber
    <3> HIDE DEF found
    <3> QED BY <3>3
  <2>3. HeldBy(call[w].name, v, call[w].run) /\ v \in Nat
    <3> HIDE DEF v
    <3>1. call[w].name \in Names /\ versions[call[w].name] \in Seq(Runs)
        BY <1>1 DEF RegisterCall, RegistryInv, StateTyped
    <3> QED BY <2>2, <3>1 DEF Matching, HeldBy, Version
  <2> HIDE DEF v
  <2>4. /\ q \in RegisterCall /\ q.op = "alias" /\ q.rows = call[w].rows /\ q.version = v
        /\ q.name = call[w].name /\ q.run = call[w].run
      BY <1>1, <2>3 DEF RegisterCall
  <2>5. SoundAs(q)
      BY <1>1, <2>3, <2>4 DEF SoundAs, DeployOps, CallSound, Registering, RegisterOps
  <2> QED BY <2>1, <2>4, <2>5 DEF MovesTo, Calls
<1> QED BY <1>2, <1>3

LEMMA ScanMoves ==
    ASSUME RegistryInv, NEW w \in Workers, ScanName(w)
    PROVE  MovesTo(w, [call[w] EXCEPT !.op = IF @ = "scan" THEN "lock" ELSE "deploy_lock",
                                      !.rows = RowsOf(call[w].name)])
<1> DEFINE q == [call[w] EXCEPT !.op = IF @ = "scan" THEN "lock" ELSE "deploy_lock",
                                !.rows = RowsOf(call[w].name)]
<1>1. CallSound(w) /\ RowsOf(call[w].name) \subseteq RowIds
    BY DEF RegistryInv, RowsOf, Registered
<1>2. CASE call[w].op = "scan"
  <2>1. call[w] \in RegisterCall
      BY <1>2, CallShape DEF RegistryInv, StateTyped, RegisterOps
  <2>2. /\ q \in RegisterCall /\ q.op = "lock" /\ q.rows = RowsOf(call[w].name)
        /\ q.name = call[w].name /\ q.version = call[w].version /\ q.run = call[w].run
      BY <1>1, <1>2, <2>1 DEF RegisterCall
  <2>3. SoundAs(q)
      BY <1>1, <1>2, <2>2 DEF SoundAs, DeployOps, CallSound, Versioned
  <2> QED BY <2>2, <2>3 DEF MovesTo, Calls, ScanName
<1>3. CASE call[w].op = "deploy"
  <2>1. call[w] \in DeployCall
      BY <1>3, CallShape DEF RegistryInv, StateTyped, DeployOps
  <2>2. /\ q \in DeployCall /\ q.op = "deploy_lock" /\ q.rows = RowsOf(call[w].name)
        /\ q.name = call[w].name /\ q.id = call[w].id
      BY <1>1, <1>3, <2>1 DEF DeployCall
  <2>3. SoundAs(q)
      BY <1>1, <1>3, <2>2 DEF SoundAs, CallSound, Deploying, RegisterOps, DeployOps
  <2> QED BY <2>2, <2>3 DEF MovesTo, Calls, ScanName
<1> QED BY <1>2, <1>3 DEF ScanName

LEMMA LockMoves ==
    ASSUME RegistryInv, NEW w \in Workers, LockRows(w)
    PROVE  MovesTo(w, [call[w] EXCEPT !.op = IF @ = "lock" THEN "locked" ELSE "deploy_locked"])
<1> DEFINE q == [call[w] EXCEPT !.op = IF @ = "lock" THEN "locked" ELSE "deploy_locked"]
<1>1. CallSound(w)
    BY DEF RegistryInv
<1>2. CASE call[w].op = "lock"
  <2>1. call[w] \in RegisterCall
      BY <1>2, CallShape DEF RegistryInv, StateTyped, RegisterOps
  <2>2. /\ q \in RegisterCall /\ q.op = "locked" /\ q.rows = call[w].rows
        /\ q.name = call[w].name /\ q.version = call[w].version /\ q.run = call[w].run
      BY <1>2, <2>1 DEF RegisterCall
  <2>3. SoundAs(q)
      BY <1>1, <1>2, <2>2 DEF SoundAs, DeployOps, CallSound, Versioned, Registering, RegisterOps
  <2> QED BY <1>2, <2>2, <2>3 DEF MovesTo, Calls, LockRows, Goto
<1>3. CASE call[w].op = "deploy_lock"
  <2>1. call[w] \in DeployCall
      BY <1>3, CallShape DEF RegistryInv, StateTyped, DeployOps
  <2>2. /\ q \in DeployCall /\ q.op = "deploy_locked" /\ q.rows = call[w].rows
        /\ q.name = call[w].name /\ q.id = call[w].id
      BY <1>3, <2>1 DEF DeployCall
  <2>3. SoundAs(q)
      BY <1>1, <1>3, <2>2 DEF SoundAs, CallSound, Deploying, RegisterOps, DeployOps
  <2> QED BY <1>3, <2>2, <2>3 DEF MovesTo, Calls, LockRows, Goto
<1> QED BY <1>2, <1>3 DEF LockRows

LEMMA DeployReadMoves ==
    ASSUME RegistryInv, NEW w \in Workers, NEW r \in RowIds, DeployRead(w, r)
    PROVE  MovesTo(w, [op |-> "deploy", id |-> r, name |-> row[r].name,
                       was |-> row[r].deployed, rows |-> {}])
<1> DEFINE q == [op |-> "deploy", id |-> r, name |-> row[r].name,
                 was |-> row[r].deployed, rows |-> {}]
<1>1. r \in Registered /\ row[r] \in ModelRow
    BY RowsAreRows DEF DeployRead, RegistryInv
<1>2. q \in DeployCall
    BY <1>1 DEF DeployCall, ModelRow
<1>3. SoundAs(q)
    BY <1>1 DEF SoundAs, RowsOf
<1> QED BY <1>2, <1>3 DEF MovesTo, DeployRead, Calls

LEMMA LostMoves ==
    ASSUME NEW w \in Workers, RequestLost(w)
    PROVE  MovesTo(w, Idle)
<1>1. SoundAs(Idle)
    BY DEF SoundAs, Idle, RegisterOps, DeployOps
<1> QED BY <1>1 DEF MovesTo, RequestLost, Calls

-----------------------------------------------------------------------------
(* MLflow's next version of a name.                                         *)
LEMMA VersionAppended ==
    ASSUME RegistryInv, NEW w \in Workers, CreateVersion(w)
    PROVE  \E c, v, q :
               /\ c = call[w] /\ q \in RegisterCall /\ call' = [call EXCEPT ![w] = q]
               /\ q.op = "alias" /\ q.version = v /\ q.rows = c.rows
               /\ q.name = c.name /\ q.run = c.run
               /\ versions' \in [Names -> Seq(Runs)]
               /\ DOMAIN versions'[c.name] = Version(c.name) \cup {v}
               /\ v \in Nat \ Version(c.name) /\ versions'[c.name][v] = c.run
               /\ \A n \in Names \ {c.name} : versions'[n] = versions[n]
               /\ VersionsStay /\ UNCHANGED <<row, candidateAlias>>
<1> DEFINE c == call[w]
           n == c.name
           v == Len(versions[n]) + 1
           q == [c EXCEPT !.op = "alias", !.version = v]
<1>1. c \in RegisterCall
    BY CallShape DEF CreateVersion, RegistryInv, StateTyped, RegisterOps
<1>2. n \in Names /\ c.run \in Runs /\ versions \in [Names -> Seq(Runs)]
    BY <1>1 DEF RegisterCall, RegistryInv, StateTyped
<1>3. versions[n] \in Seq(Runs) /\ v \in Nat
    BY <1>2
<1>4. /\ q \in RegisterCall /\ q.op = "alias" /\ q.version = v /\ q.rows = c.rows
      /\ q.name = n /\ q.run = c.run
    BY <1>1, <1>3 DEF RegisterCall
<1>5. versions' = [versions EXCEPT ![n] = Append(@, c.run)] /\ call' = [call EXCEPT ![w] = q]
      /\ UNCHANGED <<row, candidateAlias>>
    BY DEF CreateVersion
<1>6. /\ versions'[n] = Append(versions[n], c.run) /\ versions' \in [Names -> Seq(Runs)]
      /\ \A m \in Names \ {n} : versions'[m] = versions[m]
    BY <1>2, <1>3, <1>5
<1>7. /\ DOMAIN versions'[n] = DOMAIN versions[n] \cup {v} /\ v \notin DOMAIN versions[n]
      /\ versions'[n][v] = c.run
      /\ \A u \in DOMAIN versions[n] : versions'[n][u] = versions[n][u]
    BY <1>2, <1>3, <1>6
<1> HIDE DEF c, n, v, q
<1>8. VersionsStay
    BY <1>6, <1>7 DEF VersionsStay, Version
<1>9. DOMAIN versions'[n] = Version(n) \cup {v} /\ v \notin Version(n)
    BY <1>7 DEF Version
<1>10. c = call[w] /\ n = c.name
    BY DEF c, n
<1> QED BY <1>3, <1>4, <1>5, <1>6, <1>7, <1>8, <1>9, <1>10

LEMMA CreateKeeps ==
    ASSUME RegistryInv, NEW w \in Workers, CreateVersion(w)
    PROVE  RegistryInv'
<1>1. PICK c, v, q :
          /\ c = call[w] /\ q \in RegisterCall /\ call' = [call EXCEPT ![w] = q]
          /\ q.op = "alias" /\ q.version = v /\ q.rows = c.rows
          /\ q.name = c.name /\ q.run = c.run
          /\ versions' \in [Names -> Seq(Runs)]
          /\ DOMAIN versions'[c.name] = Version(c.name) \cup {v}
          /\ v \in Nat \ Version(c.name) /\ versions'[c.name][v] = c.run
          /\ \A n \in Names \ {c.name} : versions'[n] = versions[n]
          /\ VersionsStay /\ UNCHANGED <<row, candidateAlias>>
    BY VersionAppended
<1>2. RowsStay /\ Registered' = Registered /\ \A n : RowsOf(n)' = RowsOf(n)
    BY <1>1 DEF RowsStay, RowsOf, Registered
<1>3. StateTyped' /\ call'[w] = q /\ \A x \in Workers \ {w} : call'[x] = call[x]
    BY <1>1 DEF RegistryInv, StateTyped, Calls
<1>4. HeldBy(q.name, q.version, q.run)'
    BY <1>1 DEF HeldBy, Version
<1>5. c.rows \subseteq RowsOf(c.name)
    BY <1>1 DEF CreateVersion, RegistryInv, CallSound, Registering, RegisterOps, DeployOps
<1>6. CallSound(w)'
    BY <1>1, <1>2, <1>3, <1>4, <1>5
       DEF CallSound, Versioned, Registering, Deploying, RegisterOps, DeployOps
<1>7. \A r \in Registered' : HeldBy(row'[r].name, row'[r].version, row'[r].run)
    BY <1>1, <1>2 DEF RegistryInv
<1>8. \A n \in Names : candidateAlias'[n] = candidateAlias[n]
    BY <1>1
<1> QED BY <1>1, <1>2, <1>3, <1>6, <1>7, <1>8, TablesStaySound

(* The alias is pointed at the version in hand.                             *)
LEMMA AliasKeeps ==
    ASSUME RegistryInv, NEW w \in Workers, SetCandidate(w)
    PROVE  /\ RegistryInv'
           /\ \E q \in RegisterCall :
                  /\ q.op = "scan" /\ q.name = call[w].name /\ q.version = call[w].version
                  /\ q.run = call[w].run /\ q.rows = call[w].rows
                  /\ call' = [call EXCEPT ![w] = q]
<1> DEFINE c == call[w]
           q == [c EXCEPT !.op = "scan"]
<1>1. c \in RegisterCall /\ c.op = "alias" /\ HeldBy(c.name, c.version, c.run)
      /\ c.rows \subseteq RowsOf(c.name)
    BY CallShape DEF SetCandidate, RegistryInv, StateTyped, RegisterOps, CallSound, Versioned,
                     Registering
<1>2. /\ q \in RegisterCall /\ q.op = "scan" /\ q.name = c.name /\ q.version = c.version
      /\ q.run = c.run /\ q.rows = c.rows
    BY <1>1 DEF RegisterCall
<1>3. /\ call' = [call EXCEPT ![w] = q]
      /\ candidateAlias' = [candidateAlias EXCEPT ![c.name] = c.version]
      /\ UNCHANGED <<row, versions>>
    BY DEF SetCandidate, Goto
<1> HIDE DEF q
<1>4. StateTyped' /\ call'[w] = q /\ \A x \in Workers \ {w} : call'[x] = call[x]
    BY <1>1, <1>2, <1>3 DEF RegistryInv, StateTyped, Calls, RegisterCall
<1>5. VersionsStay /\ RowsStay /\ Registered' = Registered /\ \A n : RowsOf(n)' = RowsOf(n)
    BY <1>3 DEF VersionsStay, Version, RowsStay, RowsOf, Registered
<1>6. \A n, v, run : HeldBy(n, v, run)' <=> HeldBy(n, v, run)
    BY <1>3 DEF HeldBy, Version
<1>7. CallSound(w)'
    BY <1>1, <1>2, <1>4, <1>5, <1>6
       DEF CallSound, Versioned, Registering, Deploying, RegisterOps, DeployOps
<1>8. \A n \in Names : candidateAlias'[n] = candidateAlias[n] \/ candidateAlias'[n] \in Version(n)
    BY <1>1, <1>3 DEF HeldBy, RegistryInv, StateTyped
<1>9. \A r \in Registered' : HeldBy(row'[r].name, row'[r].version, row'[r].run)
    BY <1>3, <1>5 DEF RegistryInv
<1>10. RegistryInv'
    BY <1>4, <1>5, <1>7, <1>8, <1>9, TablesStaySound
<1> QED BY <1>2, <1>3, <1>10

-----------------------------------------------------------------------------
(* The commit of a registration: a row joins its name, and the locked rows  *)
(* lose the candidate flag and nothing else.                                *)
LEMMA RegisterWrites ==
    ASSUME RegistryInv, NEW w \in Workers, NEW id \in RowIds, RegisterCommit(w, id)
    PROVE  /\ call[w] \in RegisterCall /\ call[w].op = "locked"
           /\ HeldBy(call[w].name, call[w].version, call[w].run)
           /\ id \notin Registered /\ Registered' = Registered \cup {id}
           /\ row' \in [RowIds -> {NoModelRow} \cup ModelRow]
           /\ row'[id] = NewRow(call[w])
           /\ \A r \in Registered :
                 /\ row'[r].run = row[r].run /\ row'[r].name = row[r].name
                 /\ row'[r].version = row[r].version /\ row'[r].deployed = row[r].deployed
                 /\ row'[r].candidate <=> row[r].candidate /\ r \notin call[w].rows
           /\ call' = [call EXCEPT ![w] = Idle] /\ UNCHANGED <<versions, candidateAlias>>
<1> DEFINE c == call[w]
<1>1. c \in RegisterCall /\ c.op = "locked" /\ HeldBy(c.name, c.version, c.run)
      /\ c.rows \subseteq RowsOf(c.name)
    BY CallShape DEF RegisterCommit, RegistryInv, StateTyped, RegisterOps, CallSound, Versioned,
                     Registering
<1>2. id \notin Registered /\ row' = AfterRegister(c, id)
      /\ call' = [call EXCEPT ![w] = Idle] /\ UNCHANGED <<versions, candidateAlias>>
    BY DEF RegisterCommit
<1>3. NewRow(c) \in ModelRow
    BY <1>1 DEF NewRow, ModelRow, RegisterCall
<1>4. c.rows \subseteq Registered /\ \A r \in Registered : r \in RowIds /\ row[r] \in ModelRow
    BY <1>1, RowsAreRows DEF RegistryInv
<1> HIDE DEF c
<1>5. row'[id] = NewRow(c) /\ row' = [r \in RowIds |-> row'[r]]
    BY <1>2 DEF AfterRegister
<1>6. ASSUME NEW r \in Registered
      PROVE  /\ row'[r] \in ModelRow
             /\ row'[r].run = row[r].run /\ row'[r].name = row[r].name
             /\ row'[r].version = row[r].version /\ row'[r].deployed = row[r].deployed
             /\ row'[r].candidate <=> row[r].candidate /\ r \notin c.rows
  <2>1. row'[r] = IF r \in c.rows THEN [row[r] EXCEPT !.candidate = FALSE] ELSE row[r]
      BY <1>2, <1>4 DEF AfterRegister
  <2>2. row[r] \in ModelRow
      BY <1>4
  <2> QED BY <2>1, <2>2 DEF ModelRow
<1>7. ASSUME NEW r \in RowIds \ (Registered \cup {id}) PROVE row'[r] = NoModelRow
    BY <1>2, <1>4 DEF AfterRegister, Registered
<1>8. row' \in [RowIds -> {NoModelRow} \cup ModelRow]
    BY <1>3, <1>5, <1>6, <1>7
<1>9. Registered' = Registered \cup {id}
    BY <1>3, <1>4, <1>5, <1>6, <1>7, ModelRowIsNotNone DEF Registered
<1> QED BY <1>1, <1>2, <1>5, <1>6, <1>8, <1>9 DEF c

LEMMA RegisterKeeps ==
    ASSUME RegistryInv, NEW w \in Workers, NEW id \in RowIds, RegisterCommit(w, id)
    PROVE  RegistryInv'
<1>1. StateTyped' /\ call'[w] = Idle /\ \A x \in Workers \ {w} : call'[x] = call[x]
    BY RegisterWrites DEF RegistryInv, StateTyped, Calls
<1>2. VersionsStay /\ RowsStay
    BY RegisterWrites DEF VersionsStay, Version, RowsStay, RowsOf
<1>3. CallSound(w)'
    BY <1>1 DEF CallSound, Versioned, Registering, Deploying, Idle, RegisterOps, DeployOps
<1>4. ASSUME NEW r \in Registered' PROVE HeldBy(row'[r].name, row'[r].version, row'[r].run)
  <2>1. CASE r = id
    <3>1. /\ row'[r].name = call[w].name /\ row'[r].version = call[w].version
          /\ row'[r].run = call[w].run
      <4>1. row'[r] = NewRow(call[w])
          BY <2>1, RegisterWrites
      <4> QED BY <4>1 DEF NewRow
    <3> QED BY <3>1, RegisterWrites
  <2>2. CASE r # id
    <3>1. r \in Registered /\ HeldBy(row[r].name, row[r].version, row[r].run)
        BY <2>2, RegisterWrites DEF RegistryInv
    <3> QED BY <3>1, RegisterWrites
  <2> QED BY <2>1, <2>2
<1>5. \A n \in Names : candidateAlias'[n] = candidateAlias[n]
    BY RegisterWrites
<1> QED BY <1>1, <1>2, <1>3, <1>4, <1>5, TablesStaySound

(* The commit of a deployment flips the deployed flags of locked rows and   *)
(* of its own, and nothing else.                                            *)
LEMMA DeployWrites ==
    ASSUME RegistryInv, NEW w \in Workers, DeployCommit(w)
    PROVE  /\ call[w] \in DeployCall /\ call[w].op = "deploy_locked"
           /\ call[w].id \in RowsOf(call[w].name)
           /\ Registered' = Registered /\ row' \in [RowIds -> {NoModelRow} \cup ModelRow]
           /\ \A r \in Registered :
                 /\ row'[r].run = row[r].run /\ row'[r].name = row[r].name
                 /\ row'[r].version = row[r].version /\ row'[r].candidate = row[r].candidate
                 /\ row'[r].deployed <=> IF r = call[w].id THEN ~call[w].was \/ row[r].deployed
                                         ELSE row[r].deployed /\ r \notin call[w].rows
           /\ call' = [call EXCEPT ![w] = Idle] /\ UNCHANGED <<versions, candidateAlias>>
<1> DEFINE c == call[w]
<1>1. c \in DeployCall /\ c.op = "deploy_locked" /\ c.id \in RowsOf(c.name)
      /\ c.rows \subseteq RowsOf(c.name)
    BY CallShape DEF DeployCommit, RegistryInv, StateTyped, DeployOps, CallSound, Deploying
<1>2. row' = AfterDeploy(c)
      /\ call' = [call EXCEPT ![w] = Idle] /\ UNCHANGED <<versions, candidateAlias>>
    BY DEF DeployCommit
<1>3. /\ c.rows \subseteq Registered /\ c.id \in Registered
      /\ \A r \in Registered : r \in RowIds /\ row[r] \in ModelRow
    BY <1>1, RowsAreRows DEF RegistryInv
<1>4. c.was \in BOOLEAN
    BY <1>1 DEF DeployCall
<1> HIDE DEF c
<1>5. ASSUME NEW r \in Registered
      PROVE  /\ row'[r] \in ModelRow
             /\ row'[r].run = row[r].run /\ row'[r].name = row[r].name
             /\ row'[r].version = row[r].version /\ row'[r].candidate = row[r].candidate
             /\ row'[r].deployed <=> IF r = c.id THEN ~c.was \/ row[r].deployed
                                     ELSE row[r].deployed /\ r \notin c.rows
  <2>1. row'[r] = IF r = c.id THEN IF c.was THEN row[r] ELSE [row[r] EXCEPT !.deployed = TRUE]
                  ELSE IF r \in c.rows THEN [row[r] EXCEPT !.deployed = FALSE] ELSE row[r]
      BY <1>2, <1>3 DEF AfterDeploy
  <2>2. row[r] \in ModelRow
      BY <1>3
  <2> QED BY <1>4, <2>1, <2>2 DEF ModelRow
<1>6. ASSUME NEW r \in RowIds \ Registered PROVE row'[r] = NoModelRow
    BY <1>2, <1>3 DEF AfterDeploy, Registered
<1>7. row' \in [RowIds -> {NoModelRow} \cup ModelRow]
  <2>1. row' = [r \in RowIds |-> row'[r]]
      BY <1>2 DEF AfterDeploy
  <2> QED BY <1>5, <1>6, <2>1
<1>8. Registered' = Registered
    BY <1>3, <1>5, <1>6, ModelRowIsNotNone DEF Registered
<1> QED BY <1>1, <1>2, <1>5, <1>7, <1>8 DEF c

LEMMA DeployKeeps ==
    ASSUME RegistryInv, NEW w \in Workers, DeployCommit(w)
    PROVE  RegistryInv'
<1>1. StateTyped' /\ call'[w] = Idle /\ \A x \in Workers \ {w} : call'[x] = call[x]
    BY DeployWrites DEF RegistryInv, StateTyped, Calls
<1>2. VersionsStay /\ RowsStay
    BY DeployWrites DEF VersionsStay, Version, RowsStay, RowsOf
<1>3. CallSound(w)'
    BY <1>1 DEF CallSound, Versioned, Registering, Deploying, Idle, RegisterOps, DeployOps
<1>4. ASSUME NEW r \in Registered' PROVE HeldBy(row'[r].name, row'[r].version, row'[r].run)
  <2>1. r \in Registered /\ HeldBy(row[r].name, row[r].version, row[r].run)
      BY DeployWrites DEF RegistryInv
  <2> QED BY <2>1, DeployWrites
<1>5. \A n \in Names : candidateAlias'[n] = candidateAlias[n]
    BY DeployWrites
<1> QED BY <1>1, <1>2, <1>3, <1>4, <1>5, TablesStaySound

-----------------------------------------------------------------------------
(* A step that only moves the request.                                      *)
OnlyMoves(w) ==
    \/ \E run \in Runs, n \in Names : RegisterRead(w, run, n)
    \/ SearchVersion(w) \/ ScanName(w) \/ LockRows(w)
    \/ \E r \in RowIds : DeployRead(w, r)
    \/ RequestLost(w)

LEMMA MovesKeep ==
    ASSUME RegistryInv, NEW w \in Workers, OnlyMoves(w)
    PROVE  RegistryInv'
<1>1. \E q : MovesTo(w, q)
    BY ReadMoves, SearchMoves, ScanMoves, LockMoves, DeployReadMoves, LostMoves DEF OnlyMoves
<1>2. PICK q : MovesTo(w, q)
    BY <1>1
<1> QED BY <1>2, CallMoves DEF MovesTo

LEMMA RegistryStepKeeps ==
    ASSUME RegistryInv, NEW w \in Workers, RegistryStep(w)
    PROVE  RegistryInv'
<1>1. \/ OnlyMoves(w) \/ CreateVersion(w) \/ SetCandidate(w)
      \/ \E id \in RowIds : RegisterCommit(w, id)
      \/ DeployCommit(w)
    BY DEF RegistryStep, OnlyMoves
<1> QED BY <1>1, MovesKeep, CreateKeeps, AliasKeeps, RegisterKeeps, DeployKeeps

LEMMA RegistryStarts == RegistryInit => RegistryInv
<1> SUFFICES ASSUME RegistryInit PROVE RegistryInv
    OBVIOUS
<1>1. StateTyped
    BY DEF RegistryInit, StateTyped, Calls
<1>2. Registered = {}
    BY DEF RegistryInit, Registered
<1>3. \A w \in Workers : CallSound(w)
    BY DEF RegistryInit, CallSound, Versioned, Registering, Deploying, Idle, RegisterOps, DeployOps
<1> QED BY <1>1, <1>2, <1>3 DEF RegistryInit, RegistryInv

LEMMA RegistryStutters ==
    ASSUME RegistryInv, UNCHANGED registryVars
    PROVE  RegistryInv'
BY DEF registryVars, RegistryInv, StateTyped, CallSound, Versioned, Registering, Deploying,
       HeldBy, Version, RowsOf, Registered

(* The invariant of all reachable states, for any number of workers.        *)
THEOREM RegistryInvHolds == RegistrySpec => []RegistryInv
<1>1. RegistryInv /\ [RegistryNext]_registryVars => RegistryInv'
    BY RegistryStepKeeps, RegistryStutters DEF RegistryNext
<1> QED BY <1>1, RegistryStarts, PTL DEF RegistrySpec

(* mlops/registry.py register_run and db/models.py RegisteredModel: every   *)
(* variable has its type, and every version number that is stored, in a row *)
(* or under the alias, is one that MLflow has, the row's of the row's run;  *)
(* for any number of threads.                                               *)
THEOREM RegistryTypesHold == RegistrySpec => []RegistryTypeOK
<1>1. ASSUME RegistryInv PROVE RegistryTypeOK
    BY <1>1 DEF RegistryInv, StateTyped, RegistryTypeOK, ModelRow, Calls, HeldBy
<1> QED BY <1>1, RegistryInvHolds, PTL

-----------------------------------------------------------------------------
LEMMA OneWorker ==
    ASSUME OneAtATime, NEW w \in Workers
    PROVE  \A v \in Workers : v = w
BY DEF OneAtATime

(* A step that only moves the request, to one whose readings are true.      *)
LEMMA SoloMoves ==
    ASSUME OneAtATime, SoloInv, NEW w \in Workers, NEW q, MovesTo(w, q), StillTrue(q)
    PROVE  SoloInv'
<1>1. RegistryInv' /\ call' = [call EXCEPT ![w] = q] /\ UNCHANGED <<row, versions, candidateAlias>>
    BY CallMoves DEF MovesTo, SoloInv
<1>2. Registered' = Registered /\ \A n : RowsOf(n)' = RowsOf(n) /\ Candidates(n)' = Candidates(n)
    BY <1>1 DEF Registered, RowsOf, Candidates
<1>3. OneRowPerRun' /\ OneVersionPerRun' /\ \A n \in Names : NameAgrees(n)'
    BY <1>1, <1>2 DEF SoloInv, OneRowPerRun, OneVersionPerRun, Version, NameAgrees
<1>4. StillTrue(q)'
    BY <1>1, <1>2 DEF StillTrue, Version
<1>5. call'[w] = q
    BY <1>1 DEF SoloInv, RegistryInv, StateTyped
<1>6. \A v \in Workers : StillTrue(call[v])'
    BY <1>4, <1>5, OneWorker DEF StillTrue
<1> QED BY <1>1, <1>3, <1>6 DEF SoloInv

LEMMA SoloOnlyMoves ==
    ASSUME OneAtATime, SoloInv, NEW w \in Workers, OnlyMoves(w)
    PROVE  SoloInv'
<1>1. RegistryInv /\ StillTrue(call[w]) /\ call \in [Workers -> Calls] /\ CallSound(w)
    BY DEF SoloInv, RegistryInv, StateTyped
<1>2. ASSUME NEW run \in Runs, NEW n \in Names, RegisterRead(w, run, n) PROVE SoloInv'
  <2> DEFINE q == [op |-> "search", run |-> run, name |-> n, version |-> 0, rows |-> {}]
  <2>1. StillTrue(q)
      BY <1>2 DEF StillTrue, RegisterRead, AlreadyRegistered, DeployOps
  <2>2. MovesTo(w, q)
      BY <1>1, <1>2, ReadMoves
  <2> HIDE DEF q
  <2> QED BY <2>1, <2>2, SoloMoves
<1>3. CASE SearchVersion(w)
  <2>1. call[w] \in RegisterCall /\ call[w].op = "search"
      BY <1>1, <1>3, CallShape DEF SearchVersion, RegisterOps
  <2>2. CASE Matching(call[w].name, call[w].run) = {} /\ MovesTo(w, [call[w] EXCEPT !.op = "create"])
    <3> DEFINE q == [call[w] EXCEPT !.op = "create"]
    <3>1. q.op = "create" /\ q.run = call[w].run /\ q.name = call[w].name
        BY <2>1 DEF RegisterCall
    <3> HIDE DEF q
    <3>2. StillTrue(q)
        BY <1>1, <2>1, <2>2, <3>1 DEF StillTrue, Matching, Version, RegisterOps, DeployOps
    <3>3. MovesTo(w, q)
        BY <2>2 DEF q
    <3> QED BY <3>2, <3>3, SoloMoves
  <2>3. ASSUME NEW v, MovesTo(w, [call[w] EXCEPT !.op = "alias", !.version = v]) PROVE SoloInv'
    <3> DEFINE q == [call[w] EXCEPT !.op = "alias", !.version = v]
    <3>1. q.op = "alias" /\ q.run = call[w].run
        BY <2>1 DEF RegisterCall
    <3> HIDE DEF q
    <3>2. StillTrue(q)
        BY <1>1, <2>1, <3>1 DEF StillTrue, RegisterOps, DeployOps
    <3>3. MovesTo(w, q)
        BY <2>3 DEF q
    <3> QED BY <3>2, <3>3, SoloMoves
  <2> QED BY <1>1, <1>3, <2>2, <2>3, SearchMoves
<1>4. CASE ScanName(w)
  <2> DEFINE q == [call[w] EXCEPT !.op = IF @ = "scan" THEN "lock" ELSE "deploy_lock",
                                  !.rows = RowsOf(call[w].name)]
  <2>1. \/ call[w] \in RegisterCall /\ call[w].op = "scan"
        \/ call[w] \in DeployCall /\ call[w].op = "deploy"
      BY <1>1, <1>4, CallShape DEF ScanName, RegisterOps, DeployOps
  <2>2. /\ q.op = (IF call[w].op = "scan" THEN "lock" ELSE "deploy_lock")
        /\ q.rows = RowsOf(call[w].name) /\ q.name = call[w].name
        /\ call[w].op = "scan" => q.run = call[w].run /\ q.version = call[w].version
        /\ call[w].op = "deploy" => q.id = call[w].id /\ q.was = call[w].was
      BY <2>1 DEF RegisterCall, DeployCall
  <2>3. MovesTo(w, q)
      BY <1>1, <1>4, ScanMoves
  <2> HIDE DEF q
  <2>4. StillTrue(q)
      BY <1>1, <2>1, <2>2 DEF StillTrue, RegisterOps, DeployOps
  <2> QED BY <2>3, <2>4, SoloMoves
<1>5. CASE LockRows(w)
  <2> DEFINE q == [call[w] EXCEPT !.op = IF @ = "lock" THEN "locked" ELSE "deploy_locked"]
  <2>1. \/ call[w] \in RegisterCall /\ call[w].op = "lock"
        \/ call[w] \in DeployCall /\ call[w].op = "deploy_lock"
      BY <1>1, <1>5, CallShape DEF LockRows, RegisterOps, DeployOps
  <2>2. /\ q.op = (IF call[w].op = "lock" THEN "locked" ELSE "deploy_locked")
        /\ q.rows = call[w].rows /\ q.name = call[w].name
        /\ call[w].op = "lock" => q.run = call[w].run /\ q.version = call[w].version
        /\ call[w].op = "deploy_lock" => q.id = call[w].id /\ q.was = call[w].was
      BY <2>1 DEF RegisterCall, DeployCall
  <2>3. MovesTo(w, q)
      BY <1>1, <1>5, LockMoves
  <2> HIDE DEF q
  <2>4. StillTrue(q)
      BY <1>1, <2>1, <2>2 DEF StillTrue, RegisterOps, DeployOps
  <2> QED BY <2>3, <2>4, SoloMoves
<1>6. ASSUME NEW r \in RowIds, DeployRead(w, r) PROVE SoloInv'
  <2> DEFINE q == [op |-> "deploy", id |-> r, name |-> row[r].name,
                   was |-> row[r].deployed, rows |-> {}]
  <2>1. StillTrue(q)
      BY DEF StillTrue, RegisterOps
  <2>2. MovesTo(w, q)
      BY <1>1, <1>6, DeployReadMoves
  <2> HIDE DEF q
  <2> QED BY <2>1, <2>2, SoloMoves
<1>7. CASE RequestLost(w)
  <2>1. StillTrue(Idle)
      BY DEF StillTrue, Idle, RegisterOps, DeployOps
  <2> QED BY <1>7, <2>1, LostMoves, SoloMoves
<1> QED BY <1>2, <1>3, <1>4, <1>5, <1>6, <1>7 DEF OnlyMoves

(* A version that no row's run has is no row's version.                     *)
LEMMA VersionIsNoRows ==
    ASSUME RegistryInv, NEW w \in Workers, StillTrue(call[w]), call[w].op \in RegisterOps,
           HeldBy(call[w].name, call[w].version, call[w].run), NEW r \in RowsOf(call[w].name)
    PROVE  row[r].version # call[w].version
<1>1. r \in Registered /\ row[r].name = call[w].name
    BY RowsAreRows DEF RegistryInv
<1>2. row[r].run # call[w].run /\ HeldBy(row[r].name, row[r].version, row[r].run)
    BY <1>1 DEF StillTrue, RegistryInv
<1> QED BY <1>1, <1>2 DEF HeldBy

LEMMA SoloCreate ==
    ASSUME OneAtATime, SoloInv, NEW w \in Workers, CreateVersion(w)
    PROVE  SoloInv'
<1>1. PICK c, v, q :
          /\ c = call[w] /\ q \in RegisterCall /\ call' = [call EXCEPT ![w] = q]
          /\ q.op = "alias" /\ q.version = v /\ q.rows = c.rows
          /\ q.name = c.name /\ q.run = c.run
          /\ versions' \in [Names -> Seq(Runs)]
          /\ DOMAIN versions'[c.name] = Version(c.name) \cup {v}
          /\ v \in Nat \ Version(c.name) /\ versions'[c.name][v] = c.run
          /\ \A n \in Names \ {c.name} : versions'[n] = versions[n]
          /\ VersionsStay /\ UNCHANGED <<row, candidateAlias>>
    BY VersionAppended DEF SoloInv
<1>2. RegistryInv'
    BY CreateKeeps DEF SoloInv
<1>3. Registered' = Registered /\ \A n : RowsOf(n)' = RowsOf(n) /\ Candidates(n)' = Candidates(n)
    BY <1>1 DEF Registered, RowsOf, Candidates
<1>4. c.op = "create" /\ StillTrue(c)
    BY <1>1 DEF CreateVersion, SoloInv
<1>5. OneRowPerRun' /\ \A n \in Names : NameAgrees(n)'
    BY <1>1, <1>3 DEF SoloInv, OneRowPerRun, NameAgrees
<1>6. OneVersionPerRun'
  <2> SUFFICES ASSUME NEW n \in Names, NEW x \in DOMAIN versions'[n], NEW u \in DOMAIN versions'[n],
                      versions'[n][x] = versions'[n][u]
               PROVE  x = u
      BY DEF OneVersionPerRun, Version
  <2>1. CASE n # c.name
      BY <1>1, <2>1 DEF SoloInv, OneVersionPerRun, Version
  <2>2. CASE n = c.name
    <3>1. \A y \in Version(n) : versions'[n][y] = versions[n][y] /\ versions[n][y] # c.run
        BY <1>1, <1>4, <2>2 DEF VersionsStay, StillTrue
    <3>2. \A y, z \in Version(n) : versions[n][y] = versions[n][z] => y = z
        BY DEF SoloInv, OneVersionPerRun
    <3> QED BY <1>1, <2>2, <3>1, <3>2
  <2> QED BY <2>1, <2>2
<1>7. call'[w] = q
    BY <1>1 DEF SoloInv, RegistryInv, StateTyped
<1>8. StillTrue(q)'
    BY <1>1, <1>3, <1>4 DEF StillTrue, RegisterOps, DeployOps
<1>9. \A x \in Workers : StillTrue(call[x])'
    BY <1>7, <1>8, OneWorker DEF StillTrue
<1> QED BY <1>2, <1>5, <1>6, <1>9 DEF SoloInv

LEMMA SoloAlias ==
    ASSUME OneAtATime, SoloInv, NEW w \in Workers, SetCandidate(w)
    PROVE  SoloInv'
<1>1. PICK c : c = call[w]
    OBVIOUS
<1>2. PICK q \in RegisterCall :
          /\ q.op = "scan" /\ q.name = c.name /\ q.version = c.version /\ q.run = c.run
          /\ call' = [call EXCEPT ![w] = q]
    BY <1>1, AliasKeeps DEF SoloInv
<1>3. RegistryInv' /\ UNCHANGED <<row, versions>>
      /\ candidateAlias' = [candidateAlias EXCEPT ![c.name] = c.version]
    BY <1>1, AliasKeeps DEF SoloInv, SetCandidate
<1>4. Registered' = Registered /\ \A n : RowsOf(n)' = RowsOf(n) /\ Candidates(n)' = Candidates(n)
    BY <1>3 DEF Registered, RowsOf, Candidates
<1>5. /\ c \in RegisterCall /\ c.op = "alias" /\ StillTrue(c)
      /\ \A r \in RowsOf(c.name) : row[r].version # c.version
  <2>1. c.op = "alias" /\ c \in RegisterCall /\ HeldBy(c.name, c.version, c.run)
      BY <1>1, CallShape DEF SetCandidate, SoloInv, RegistryInv, StateTyped, CallSound, Versioned,
                             RegisterOps
  <2>2. StillTrue(c)
      BY <1>1 DEF SoloInv
  <2> QED BY <1>1, <2>1, <2>2, VersionIsNoRows DEF SoloInv, RegisterOps
<1>6. OneRowPerRun' /\ OneVersionPerRun'
    BY <1>3, <1>4 DEF SoloInv, OneRowPerRun, OneVersionPerRun, Version
<1>7. ASSUME NEW n \in Names PROVE NameAgrees(n)'
  <2>1. candidateAlias'[n] = IF n = c.name THEN c.version ELSE candidateAlias[n]
      BY <1>3 DEF SoloInv, RegistryInv, StateTyped
  <2>2. NameAgrees(n)
      BY DEF SoloInv
  <2> QED BY <1>3, <1>4, <1>5, <2>1, <2>2 DEF NameAgrees
<1>8. call'[w] = q
    BY <1>2 DEF SoloInv, RegistryInv, StateTyped
<1>9. candidateAlias'[c.name] = c.version
    BY <1>3, <1>5 DEF SoloInv, RegistryInv, StateTyped, RegisterCall
<1>10. StillTrue(q)'
    BY <1>2, <1>3, <1>4, <1>5, <1>9 DEF StillTrue, RegisterOps, DeployOps
<1>11. \A x \in Workers : StillTrue(call[x])'
    BY <1>8, <1>10, OneWorker DEF StillTrue
<1> QED BY <1>3, <1>6, <1>7, <1>11 DEF SoloInv

LEMMA SoloIdle ==
    ASSUME OneAtATime, NEW w \in Workers, call'[w] = Idle
    PROVE  \A x \in Workers : StillTrue(call[x])'
BY OneWorker DEF StillTrue, Idle, RegisterOps, DeployOps

LEMMA SoloRegister ==
    ASSUME OneAtATime, SoloInv, NEW w \in Workers, NEW id \in RowIds, RegisterCommit(w, id)
    PROVE  SoloInv'
<1>1. PICK c : c = call[w]
    OBVIOUS
<1>2. /\ c \in RegisterCall /\ c.op = "locked" /\ HeldBy(c.name, c.version, c.run)
      /\ id \notin Registered /\ Registered' = Registered \cup {id}
      /\ row'[id] = NewRow(c)
      /\ \A r \in Registered :
            /\ row'[r].run = row[r].run /\ row'[r].name = row[r].name
            /\ row'[r].version = row[r].version
            /\ row'[r].candidate <=> row[r].candidate /\ r \notin c.rows
      /\ call' = [call EXCEPT ![w] = Idle] /\ UNCHANGED <<versions, candidateAlias>>
    BY <1>1, RegisterWrites DEF SoloInv
<1>3. /\ row'[id].run = c.run /\ row'[id].name = c.name /\ row'[id].version = c.version
      /\ row'[id].candidate = TRUE
    BY <1>2 DEF NewRow
<1>4. /\ \A r \in Registered : row[r].run # c.run
      /\ candidateAlias[c.name] = c.version /\ c.rows = RowsOf(c.name)
      /\ \A r \in RowsOf(c.name) : row[r].version # c.version
  <2>1. StillTrue(c)
      BY <1>1 DEF SoloInv
  <2> QED BY <1>1, <1>2, <2>1, VersionIsNoRows DEF SoloInv, StillTrue, RegisterOps
<1>5. RegistryInv' /\ call'[w] = Idle
    BY <1>2, RegisterKeeps DEF SoloInv, RegistryInv, StateTyped
<1>6. OneRowPerRun' /\ OneVersionPerRun'
    BY <1>2, <1>3, <1>4 DEF SoloInv, OneRowPerRun, OneVersionPerRun, Version
<1>7. ASSUME NEW n \in Names PROVE NameAgrees(n)'
  <2>1. NameAgrees(n) /\ \A r \in Registered : (r \in RowsOf(n) <=> row[r].name = n)
      BY DEF SoloInv, RowsOf
  <2>2. CASE n = c.name
    <3>1. \A r \in RowsOf(n)' :
              \/ r = id
              \/ row'[r].version # c.version /\ ~row'[r].candidate
        BY <1>2, <1>4, <2>2 DEF RowsOf
    <3> QED BY <1>2, <1>3, <1>4, <2>2, <3>1 DEF NameAgrees, Candidates
  <2>3. CASE n # c.name
    <3>1. \A r \in RowsOf(n)' :
              /\ r \in RowsOf(n) /\ row'[r].version = row[r].version
              /\ row'[r].candidate <=> row[r].candidate
        BY <1>2, <1>3, <1>4, <2>3 DEF RowsOf
    <3>2. \A r \in RowsOf(n) : r \in RowsOf(n)'
        BY <1>2 DEF RowsOf
    <3> QED BY <1>2, <2>1, <3>1, <3>2 DEF NameAgrees, Candidates
  <2> QED BY <2>2, <2>3
<1> QED BY <1>5, <1>6, <1>7, SoloIdle DEF SoloInv

LEMMA SoloDeploy ==
    ASSUME OneAtATime, SoloInv, NEW w \in Workers, DeployCommit(w)
    PROVE  SoloInv'
<1>1. /\ Registered' = Registered
      /\ \A r \in Registered :
            /\ row'[r].run = row[r].run /\ row'[r].name = row[r].name
            /\ row'[r].version = row[r].version /\ row'[r].candidate = row[r].candidate
      /\ call' = [call EXCEPT ![w] = Idle] /\ UNCHANGED <<versions, candidateAlias>>
    BY DeployWrites DEF SoloInv
<1>2. RegistryInv' /\ call'[w] = Idle
    BY <1>1, DeployKeeps DEF SoloInv, RegistryInv, StateTyped
<1>3. OneRowPerRun' /\ OneVersionPerRun'
    BY <1>1 DEF SoloInv, OneRowPerRun, OneVersionPerRun, Version
<1>4. ASSUME NEW n \in Names PROVE NameAgrees(n)'
  <2>1. RowsOf(n)' = RowsOf(n) /\ Candidates(n)' = Candidates(n)
      BY <1>1 DEF RowsOf, Candidates
  <2> QED BY <1>1, <2>1 DEF SoloInv, NameAgrees, RowsOf
<1> QED BY <1>2, <1>3, <1>4, SoloIdle DEF SoloInv

-----------------------------------------------------------------------------
LEMMA SoloStepKeeps ==
    ASSUME OneAtATime, SoloInv, NEW w \in Workers, RegistryStep(w)
    PROVE  SoloInv'
<1>1. \/ OnlyMoves(w) \/ CreateVersion(w) \/ SetCandidate(w)
      \/ \E id \in RowIds : RegisterCommit(w, id)
      \/ DeployCommit(w)
    BY DEF RegistryStep, OnlyMoves
<1> QED BY <1>1, SoloOnlyMoves, SoloCreate, SoloAlias, SoloRegister, SoloDeploy

(* The invariant of all reachable states when requests follow each other.   *)
THEOREM SoloInvHolds == ASSUME OneAtATime PROVE RegistrySpec => []SoloInv
<1>1. RegistryInit => SoloInv
  <2> SUFFICES ASSUME RegistryInit PROVE SoloInv
      OBVIOUS
  <2>1. RegistryInv /\ Registered = {} /\ \A n \in Names : Version(n) = {}
      BY RegistryStarts DEF RegistryInit, Registered, Version
  <2>2. \A w \in Workers : StillTrue(call[w])
      BY DEF RegistryInit, StillTrue, Idle, RegisterOps, DeployOps
  <2> QED BY <2>1, <2>2 DEF SoloInv, OneRowPerRun, OneVersionPerRun, NameAgrees, Candidates, RowsOf
<1>2. SoloInv /\ [RegistryNext]_registryVars => SoloInv'
  <2> SUFFICES ASSUME SoloInv, [RegistryNext]_registryVars PROVE SoloInv'
      OBVIOUS
  <2>1. CASE RegistryNext
      BY <2>1, SoloStepKeeps DEF RegistryNext
  <2>2. CASE UNCHANGED registryVars
    <3>1. RegistryInv'
        BY <2>2, RegistryStutters DEF SoloInv
    <3> QED BY <2>2, <3>1 DEF registryVars, SoloInv, OneRowPerRun, OneVersionPerRun, NameAgrees,
                              Candidates, RowsOf, Registered, Version, StillTrue
  <2> QED BY <2>1, <2>2
<1> QED BY <1>1, <1>2, PTL DEF RegistrySpec

(* ModelRegistryService.register: when requests follow each other, wherever *)
(* any of them is cut off, a run is registered once, whatever name a later  *)
(* request gives it.                                                        *)
THEOREM OneRowHolds == ASSUME OneAtATime PROVE RegistrySpec => []OneRowPerRun
<1>1. SoloInv => OneRowPerRun
    BY DEF SoloInv
<1> QED BY <1>1, SoloInvHolds, PTL

(* register_run: a retry after a lost answer finds the MLflow version of    *)
(* the first try.                                                           *)
THEOREM OneVersionHolds == ASSUME OneAtATime PROVE RegistrySpec => []OneVersionPerRun
<1>1. SoloInv => OneVersionPerRun
    BY DEF SoloInv
<1> QED BY <1>1, SoloInvHolds, PTL

(* The candidate of a name in the database is MLflow's, unless MLflow's is  *)
(* one whose registration never reached the database; the proof shows it    *)
(* also while a request is under way.                                       *)
THEOREM CandidatesHold == ASSUME OneAtATime PROVE RegistrySpec => []CandidatesAgree
<1>1. SoloInv => CandidatesAgree
  <2> SUFFICES ASSUME SoloInv PROVE CandidatesAgree
      OBVIOUS
  <2>1. ASSUME NEW n \in Names PROVE Cardinality(Candidates(n)) <= 1
    <3>1. CASE Candidates(n) = {}
        BY <3>1, FS_EmptySet
    <3>2. CASE Candidates(n) # {}
      <4>1. PICK r : r \in Candidates(n)
          BY <3>2
      <4>2. Candidates(n) = {r}
          BY <4>1 DEF SoloInv, NameAgrees
      <4>3. Cardinality({r}) = 1
          BY FS_Singleton
      <4> QED BY <4>2, <4>3
    <3> QED BY <3>1, <3>2
  <2>2. ASSUME NEW n \in Names, NEW r \in Registered, row[r].name = n
        PROVE  \/ row[r].candidate <=> row[r].version = candidateAlias[n]
               \/ \A q \in RowsOf(n) : row[q].version # candidateAlias[n]
    <3>1. r \in RowsOf(n) /\ NameAgrees(n)
        BY <2>2 DEF SoloInv, RowsOf
    <3> QED BY <3>1 DEF NameAgrees
  <2> QED BY <2>1, <2>2 DEF CandidatesAgree
<1> QED BY <1>1, SoloInvHolds, PTL

(* What a deployment of a name leaves of it when nobody wrote in between.   *)
LEMMA DeploymentLeavesOne ==
    ASSUME OneAtATime, SoloInv, NEW w \in Workers, RegistryStep(w), NEW n \in Names
    PROVE  Deployed(n)' = Deployed(n) \/ \E r : Deployed(n)' = {r}
<1>1. CASE OnlyMoves(w) \/ CreateVersion(w) \/ SetCandidate(w)
  <2>1. row' = row
      BY <1>1 DEF OnlyMoves, RegisterRead, SearchVersion, Goto, ScanName, LockRows, DeployRead,
                  RequestLost, CreateVersion, SetCandidate
  <2> QED BY <2>1 DEF Deployed, RowsOf, Registered
<1>2. ASSUME NEW id \in RowIds, RegisterCommit(w, id) PROVE Deployed(n)' = Deployed(n)
  <2>1. /\ id \notin Registered /\ Registered' = Registered \cup {id}
        /\ row'[id] = NewRow(call[w])
        /\ \A r \in Registered :
              row'[r].name = row[r].name /\ row'[r].deployed = row[r].deployed
      BY <1>2, RegisterWrites DEF SoloInv
  <2>2. row'[id].deployed = FALSE
      BY <2>1 DEF NewRow
  <2> QED BY <2>1, <2>2 DEF Deployed, RowsOf
<1>3. CASE DeployCommit(w)
  <2>1. PICK c : c = call[w]
      OBVIOUS
  <2>2. /\ c.op = "deploy_locked" /\ c.id \in RowsOf(c.name) /\ Registered' = Registered
        /\ \A r \in Registered :
              /\ row'[r].name = row[r].name
              /\ row'[r].deployed <=> IF r = c.id THEN ~c.was \/ row[r].deployed
                                      ELSE row[r].deployed /\ r \notin c.rows
      BY <1>3, <2>1, DeployWrites DEF SoloInv
  <2>3. c.rows = RowsOf(c.name) /\ c.was = row[c.id].deployed
      BY <2>1, <2>2 DEF SoloInv, StillTrue, DeployOps
  <2>4. CASE n = c.name
      BY <2>2, <2>3, <2>4 DEF Deployed, RowsOf
  <2>5. CASE n # c.name
      BY <2>2, <2>3, <2>5 DEF Deployed, RowsOf
  <2> QED BY <2>4, <2>5
<1> QED BY <1>1, <1>2, <1>3 DEF RegistryStep, OnlyMoves

(* deploy_demo, "exactly one version per name is ever deployed": when       *)
(* requests follow each other, a name that has its one deployed version     *)
(* never comes to have none or two.                                         *)
THEOREM DeploymentHolds == ASSUME OneAtATime PROVE RegistrySpec => DeploymentStands
<1>1. ASSUME SoloInv, [RegistryNext]_registryVars, NEW n \in Names, Cardinality(Deployed(n)) = 1
      PROVE  Cardinality(Deployed(n)') = 1
  <2>1. Deployed(n)' = Deployed(n) \/ \E r : Deployed(n)' = {r}
    <3>1. CASE RegistryNext
        BY <1>1, <3>1, DeploymentLeavesOne DEF RegistryNext
    <3>2. CASE UNCHANGED registryVars
        BY <3>2 DEF registryVars, Deployed, RowsOf, Registered
    <3> QED BY <1>1, <3>1, <3>2
  <2> QED BY <1>1, <2>1, FS_Singleton
<1>2. SoloInv /\ [RegistryNext]_registryVars =>
          [\A n \in Names :
              Cardinality(Deployed(n)) = 1 => Cardinality(Deployed(n)') = 1]_registryVars
    BY <1>1
<1> QED BY <1>2, SoloInvHolds, PTL DEF RegistrySpec, DeploymentStands
=============================================================================
