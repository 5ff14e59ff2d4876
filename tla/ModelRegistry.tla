---------------------------- MODULE ModelRegistry ----------------------------
(* Registration and demo deployment of models (application/models.py,       *)
(* mlops/registry.py, db/model_repository.py).  A registration goes through *)
(* MLflow first and the database after; a deployment flips the rows of one  *)
(* name.  Requests run on API threads: each step below is one MLflow call,  *)
(* one SQL statement that waits or reads, or one commit.                    *)
EXTENDS Integers, FiniteSets, Sequences

CONSTANTS
    Workers,    \* API threads
    RowIds,     \* ids of registered_models rows; bounds the table
    Runs,       \* recommended runs of succeeded experiments, with a package
    Names,
    NoRun       \* the run of a row that does not exist

ASSUME NoRunIsNone == NoRun \notin Runs

VARIABLES
    row,            \* the registered_models table
    versions,       \* MLflow: the runs behind versions 1, 2, ... of each name
    candidateAlias, \* MLflow: the version under alias "candidate", 0 if none
    call            \* what the request on each worker has read so far

registryVars == <<row, versions, candidateAlias, call>>

Idle == [op |-> "idle"]

NoModelRow == [run |-> NoRun]

Registered == {r \in RowIds : row[r] # NoModelRow}

RowsOf(n) == {r \in Registered : row[r].name = n}

Deployed(n) == {r \in RowsOf(n) : row[r].deployed}

Candidates(n) == {r \in RowsOf(n) : row[r].candidate}

Goto(w, op) == call' = [call EXCEPT ![w].op = op]

-----------------------------------------------------------------------------
(* Mistake: only a row under the same name counts as registered.            *)
RegisteredUnderName(run, n) == \E r \in RowsOf(n) : row[r].run = run

(* find_by_model_run: a row under the same name answers the request, one    *)
(* under another name refuses it.                                           *)
AlreadyRegistered(run, n) == \E r \in Registered : row[r].run = run

RegisterRead(w, run, n) ==
    /\ call[w] = Idle
    /\ ~AlreadyRegistered(run, n)
    /\ call' = [call EXCEPT ![w] = [op |-> "search", run |-> run, name |-> n, version |-> 0,
                                    rows |-> {}]]
    /\ UNCHANGED <<row, versions, candidateAlias>>

(* Mistake: a retry registers the run again.                                *)
NoMatching(n, run) == {}

(* search_model_versions: the versions of the name that hold this run.      *)
Matching(n, run) == {v \in DOMAIN versions[n] : versions[n][v] = run}

(* register_run reuses the latest matching version ...                      *)
SearchVersion(w) ==
    LET c == call[w]
        found == Matching(c.name, c.run) IN
    /\ c.op = "search"
    /\ IF found = {}
         THEN Goto(w, "create")
         ELSE call' = [call EXCEPT
                  ![w].op = "alias",
                  ![w].version = CHOOSE v \in found : \A u \in found : u <= v]
    /\ UNCHANGED <<row, versions, candidateAlias>>

(* ... or creates the next one ...                                          *)
CreateVersion(w) ==
    LET c == call[w] IN
    /\ c.op = "create"
    /\ versions' = [versions EXCEPT ![c.name] = Append(@, c.run)]
    /\ call' = [call EXCEPT ![w].op = "alias", ![w].version = Len(versions[c.name]) + 1]
    /\ UNCHANGED <<row, candidateAlias>>

(* Mistake: only a new version gets the alias.                              *)
AliasNewest(w) ==
    LET c == call[w] IN
    /\ c.op = "alias"
    /\ candidateAlias' = IF c.version = Len(versions[c.name])
                           THEN [candidateAlias EXCEPT ![c.name] = c.version]
                           ELSE candidateAlias
    /\ Goto(w, "scan")
    /\ UNCHANGED <<row, versions>>

(* Mistake: the alias counts versions from one more than MLflow does.       *)
AliasNext(w) ==
    LET c == call[w] IN
    /\ c.op = "alias"
    /\ candidateAlias' = [candidateAlias EXCEPT ![c.name] = c.version + 1]
    /\ Goto(w, "scan")
    /\ UNCHANGED <<row, versions>>

(* ... and points the alias at it, both ways.                               *)
SetCandidate(w) ==
    LET c == call[w] IN
    /\ c.op = "alias"
    /\ candidateAlias' = [candidateAlias EXCEPT ![c.name] = c.version]
    /\ Goto(w, "scan")
    /\ UNCHANGED <<row, versions>>

-----------------------------------------------------------------------------
(* list_by_name under READ COMMITTED: the statement sees the rows that were *)
(* committed when it started ...                                            *)
ScanName(w) ==
    /\ call[w].op \in {"scan", "deploy"}
    /\ call' = [call EXCEPT ![w].op = IF @ = "scan" THEN "lock" ELSE "deploy_lock",
                            ![w].rows = RowsOf(call[w].name)]
    /\ UNCHANGED <<row, versions, candidateAlias>>

LockedRows(w) == IF call[w].op \in {"locked", "deploy_locked"} THEN call[w].rows ELSE {}

(* ... and waits until it holds the lock on each of them (FOR UPDATE).      *)
LockRows(w) ==
    /\ call[w].op \in {"lock", "deploy_lock"}
    /\ \A v \in Workers : LockedRows(v) \cap call[w].rows = {}
    /\ Goto(w, IF call[w].op = "lock" THEN "locked" ELSE "deploy_locked")
    /\ UNCHANGED <<row, versions, candidateAlias>>

NewRow(c) == [run |-> c.run, name |-> c.name, version |-> c.version,
              candidate |-> TRUE, deployed |-> FALSE]

(* Mistake: older versions keep their candidate alias.                      *)
OlderRowsKept(c, id) == [row EXCEPT ![id] = NewRow(c)]

(* The locked rows lose the candidate alias to the new one.                 *)
AfterRegister(c, id) ==
    [r \in RowIds |->
        IF r = id THEN NewRow(c)
        ELSE IF r \in c.rows THEN [row[r] EXCEPT !.candidate = FALSE] ELSE row[r]]

RegisterCommit(w, id) ==
    /\ call[w].op = "locked"
    /\ id \notin Registered
    /\ row' = AfterRegister(call[w], id)
    /\ call' = [call EXCEPT ![w] = Idle]
    /\ UNCHANGED <<versions, candidateAlias>>

(* deploy_demo reads its row without a lock, as session.get does, and the   *)
(* row stays in the identity map of the session: the later locking query    *)
(* does not refresh it.                                                     *)
DeployRead(w, r) ==
    /\ call[w] = Idle
    /\ r \in Registered
    /\ call' = [call EXCEPT ![w] = [op |-> "deploy", id |-> r, name |-> row[r].name,
                                    was |-> row[r].deployed, rows |-> {}]]
    /\ UNCHANGED <<row, versions, candidateAlias>>

(* Mistake: the other versions are not demoted.                             *)
SiblingsKept(c) ==
    [r \in RowIds |->
        IF r = c.id /\ ~c.was THEN [row[r] EXCEPT !.deployed = TRUE] ELSE row[r]]

(* The unit of work updates the row only if deployed differs from what was  *)
(* read; the locked siblings are demoted.                                   *)
AfterDeploy(c) ==
    [r \in RowIds |->
        IF r = c.id THEN IF c.was THEN row[r] ELSE [row[r] EXCEPT !.deployed = TRUE]
        ELSE IF r \in c.rows THEN [row[r] EXCEPT !.deployed = FALSE] ELSE row[r]]

DeployCommit(w) ==
    /\ call[w].op = "deploy_locked"
    /\ row' = AfterDeploy(call[w])
    /\ call' = [call EXCEPT ![w] = Idle]
    /\ UNCHANGED <<versions, candidateAlias>>

(* MLflow or a session fails, or the process dies, between any two steps;   *)
(* what MLflow has done stays done.                                         *)
RequestLost(w) ==
    /\ call[w] # Idle
    /\ call' = [call EXCEPT ![w] = Idle]
    /\ UNCHANGED <<row, versions, candidateAlias>>

-----------------------------------------------------------------------------
RegistryInit ==
    /\ row = [r \in RowIds |-> NoModelRow]
    /\ versions = [n \in Names |-> <<>>]
    /\ candidateAlias = [n \in Names |-> 0]
    /\ call = [w \in Workers |-> Idle]

RegistryStep(w) ==
    \/ \E run \in Runs, n \in Names : RegisterRead(w, run, n)
    \/ SearchVersion(w)
    \/ CreateVersion(w)
    \/ SetCandidate(w)
    \/ ScanName(w)
    \/ LockRows(w)
    \/ \E id \in RowIds : RegisterCommit(w, id)
    \/ \E r \in RowIds : DeployRead(w, r)
    \/ DeployCommit(w)
    \/ RequestLost(w)

RegistryNext == \E w \in Workers : RegistryStep(w)

RegistrySpec == RegistryInit /\ [][RegistryNext]_registryVars

-----------------------------------------------------------------------------
Version(n) == DOMAIN versions[n]

RegisterCall == [op: {"search", "create", "alias", "scan", "lock", "locked"}, run: Runs,
                 name: Names, version: Nat, rows: SUBSET RowIds]

DeployCall == [op: {"deploy", "deploy_lock", "deploy_locked"}, id: RowIds, name: Names,
               was: BOOLEAN, rows: SUBSET RowIds]

(* Every variable has its type, and every version number that is stored is  *)
(* one that MLflow has, of the run it is stored for.                        *)
RegistryTypeOK ==
    /\ row \in [RowIds -> {NoModelRow} \cup
                   [run: Runs, name: Names, version: Nat, candidate: BOOLEAN, deployed: BOOLEAN]]
    /\ versions \in [Names -> Seq(Runs)]
    /\ \A n \in Names : candidateAlias[n] \in Version(n) \cup {0}
    /\ \A r \in Registered : row[r].version \in Version(row[r].name)
                             /\ versions[row[r].name][row[r].version] = row[r].run
    /\ call \in [Workers -> {Idle} \cup RegisterCall \cup DeployCall]

(* ModelRegistryService.register: a run is registered once, whatever name   *)
(* a later request gives it and wherever an earlier request was cut off.    *)
OneRowPerRun == \A r, q \in Registered : row[r].run = row[q].run => r = q

(* A retry after a lost answer finds the MLflow version of the first try.   *)
OneVersionPerRun == \A n \in Names : \A v, u \in Version(n) :
    versions[n][v] = versions[n][u] => v = u

(* MLflow has one candidate per name, and so has the database; with nothing *)
(* under way they are the same, unless MLflow's is one whose registration   *)
(* never reached the database.                                              *)
CandidatesAgree ==
    /\ \A n \in Names : Cardinality(Candidates(n)) <= 1
    /\ (\A w \in Workers : call[w] = Idle) =>
          \A n \in Names, r \in Registered :
             row[r].name = n =>
                 (row[r].candidate <=> row[r].version = candidateAlias[n])
                 \/ \A q \in RowsOf(n) : row[q].version # candidateAlias[n]

(* deploy_demo: "exactly one version per name is ever deployed".  A name    *)
(* that has its one deployed version never comes to have none or two.       *)
DeploymentStands ==
    [][\A n \in Names :
          Cardinality(Deployed(n)) = 1 => Cardinality(Deployed(n)') = 1]_registryVars

(* The half of it a user would see first: a name that serves a model goes   *)
(* on serving one, whoever deploys what at the same time.                   *)
NameStaysDeployed ==
    [][\A n \in Names : Deployed(n) # {} => Deployed(n)' # {}]_registryVars
=============================================================================
