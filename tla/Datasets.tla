------------------------------ MODULE Datasets ------------------------------
(* Datasets (application/datasets.py, db/dataset_repository.py): a file is  *)
(* uploaded once, stored before its row is inserted, and then profiled and  *)
(* given a task by requests that read the row, compute, and merge all of it *)
(* back.  A column of a row is told apart by the target it was computed for.*)
EXTENDS Naturals, FiniteSets

CONSTANTS
    Workers,        \* threads and processes that serve requests
    Files,          \* contents of files that pass ingest_bytes
    DatasetIds,
    Columns,        \* columns a file can have its target in
    NoColumn,       \* no target: quality is assessed without one
    Unset,          \* never computed
    NoFile

ASSUME NoColumnIsNone == NoColumn \notin Columns /\ Unset \notin Columns \cup {NoColumn}
ASSUME NoFileIsNone == NoFile \notin Files

VARIABLES
    dataset,    \* the datasets table
    storage,    \* the file stored under the name of a dataset
    orphan,     \* datasets that never came to be and whose file was left
    crossed,    \* datasets whose row was written inside another's merge
    request     \* what a worker's request holds so far

datasetVars == <<dataset, storage, orphan, crossed, request>>

NoDataset == [status |-> "none"]

NoRequest == [at |-> "none"]

RowFor(f) == {d \in DatasetIds : dataset[d] # NoDataset /\ dataset[d].file = f}

Taken == {d \in DatasetIds : \/ dataset[d] # NoDataset
                             \/ storage[d] # NoFile
                             \/ d \in orphan}

EndRequest(w) == request' = [request EXCEPT ![w] = NoRequest]

-----------------------------------------------------------------------------
(* upload parses the file and finds no dataset with its hash ...            *)
UploadCheck(w, f) ==
    /\ request[w] = NoRequest
    /\ RowFor(f) = {}
    /\ request' = [request EXCEPT ![w] = [at |-> "checked", file |-> f]]
    /\ UNCHANGED <<dataset, storage, orphan, crossed>>

(* ... stores the bytes under a new id, by a temporary file and os.replace, *)
(* so that a write that fails leaves nothing ...                            *)
UploadWrite(w) ==
    /\ request[w].at = "checked"
    /\ \E d \in DatasetIds \ Taken :
          /\ storage' = [storage EXCEPT ![d] = request[w].file]
          /\ request' = [request EXCEPT ![w] = [at |-> "stored", file |-> request[w].file,
                                                id |-> d]]
    /\ UNCHANGED <<dataset, orphan, crossed>>

NewDataset(f) ==
    [file |-> f, status |-> "uploaded", target |-> NoColumn, task |-> NoColumn, score |-> Unset,
     json |-> [profiled |-> FALSE, task |-> NoColumn, leakage |-> NoColumn, quality |-> Unset]]

(* ... and inserts row and audit event; file_hash is unique.                *)
UploadInsert(w) ==
    /\ request[w].at = "stored"
    /\ RowFor(request[w].file) = {}
    /\ dataset' = [dataset EXCEPT ![request[w].id] = NewDataset(request[w].file)]
    /\ EndRequest(w)
    /\ UNCHANGED <<storage, orphan, crossed>>

(* _remove_storage removes the file, or fails to and says nothing.          *)
RemoveStorage(d) ==
    \/ /\ storage' = [storage EXCEPT ![d] = NoFile]
       /\ UNCHANGED orphan
    \/ /\ orphan' = orphan \cup {d}
       /\ UNCHANGED storage

(* Mistake: the file that is removed is that of the dataset that was found. *)
RemoveTheOther(w) ==
    /\ request[w].at = "stored"
    /\ \E d \in RowFor(request[w].file) : RemoveStorage(d)
    /\ EndRequest(w)
    /\ UNCHANGED <<dataset, crossed>>

(* Another upload of the same file was first: its own file is removed, and  *)
(* the answer is DuplicateDatasetError with the dataset that is there.      *)
UploadDuplicate(w) ==
    /\ request[w].at = "stored"
    /\ RowFor(request[w].file) # {}
    /\ RemoveStorage(request[w].id)
    /\ EndRequest(w)
    /\ UNCHANGED <<dataset, crossed>>

(* Any other failure of the transaction removes the file as well.           *)
UploadFails(w) ==
    /\ request[w].at = "stored"
    /\ RemoveStorage(request[w].id)
    /\ EndRequest(w)
    /\ UNCHANGED <<dataset, crossed>>

-----------------------------------------------------------------------------
(* Mistake: the report is replaced instead of updated.                      *)
ProfiledAnew(old) ==
    [old EXCEPT !.status = "profiled", !.score = NoColumn,
                !.json = [NewDataset(old.file).json EXCEPT !.profiled = TRUE,
                                                           !.quality = NoColumn]]

(* profile: schema, profile and quality, the last without a target; what    *)
(* else the report holds stays.                                             *)
Profiled(old) ==
    [old EXCEPT !.status = "profiled", !.score = NoColumn,
                !.json = [@ EXCEPT !.profiled = TRUE, !.quality = NoColumn]]

(* recommend_task: task, leakage report and quality for a target.           *)
Recommended(old, t) ==
    [old EXCEPT !.status = "task_recommended", !.target = t, !.task = t, !.score = t,
                !.json = [@ EXCEPT !.task = t, !.leakage = t, !.quality = t]]

(* Both read the row in a session of its own, read the file, compute, and   *)
(* change the copy they hold.  A missing file is refused (StorageError).    *)
EditRead(w, d, copy) ==
    /\ request[w] = NoRequest
    /\ dataset[d] # NoDataset
    /\ storage[d] # NoFile
    /\ request' = [request EXCEPT ![w] = [at |-> "computed", id |-> d, copy |-> copy]]
    /\ UNCHANGED <<dataset, storage, orphan, crossed>>

ProfileRead(w, d) == EditRead(w, d, Profiled(dataset[d]))

RecommendRead(w, d, t) == EditRead(w, d, Recommended(dataset[d], t))

(* update: session.merge loads the row again ...                            *)
MergeLoad(w) ==
    /\ request[w].at = "computed"
    /\ request' = [request EXCEPT ![w] = [at |-> "merging", id |-> @.id, copy |-> @.copy,
                                          loaded |-> dataset[@.id]]]
    /\ UNCHANGED <<dataset, storage, orphan, crossed>>

(* ... and the flush writes the columns in which the copy differs from what *)
(* was loaded, over whatever is stored by then.                             *)
Flushed(stored, loaded, copy) ==
    [c \in DOMAIN stored |-> IF copy[c] # loaded[c] THEN copy[c] ELSE stored[c]]

MergeCommit(w) ==
    LET r == request[w] IN
    /\ r.at = "merging"
    /\ dataset' = [dataset EXCEPT ![r.id] = Flushed(@, r.loaded, r.copy)]
    /\ crossed' = crossed \cup
          {d \in {r.id} : \E v \in Workers \ {w} : request[v].at = "merging" /\ request[v].id = d}
    /\ EndRequest(w)
    /\ UNCHANGED <<storage, orphan>>

(* A request that fails or is cut off: a stored file without a row stays.   *)
RequestDies(w) ==
    /\ request[w] # NoRequest
    /\ orphan' = orphan \cup {d \in DatasetIds : request[w].at = "stored" /\ request[w].id = d}
    /\ EndRequest(w)
    /\ UNCHANGED <<dataset, storage, crossed>>

-----------------------------------------------------------------------------
DatasetInit ==
    /\ dataset = [d \in DatasetIds |-> NoDataset]
    /\ storage = [d \in DatasetIds |-> NoFile]
    /\ orphan = {}
    /\ crossed = {}
    /\ request = [w \in Workers |-> NoRequest]

DatasetStep(w) ==
    \/ \E f \in Files : UploadCheck(w, f)
    \/ UploadWrite(w) \/ UploadInsert(w) \/ UploadDuplicate(w) \/ UploadFails(w)
    \/ \E d \in DatasetIds : ProfileRead(w, d)
    \/ \E d \in DatasetIds, t \in Columns : RecommendRead(w, d, t)
    \/ MergeLoad(w) \/ MergeCommit(w)
    \/ RequestDies(w)

DatasetNext == \E w \in Workers : DatasetStep(w)

DatasetSpec == DatasetInit /\ [][DatasetNext]_datasetVars

-----------------------------------------------------------------------------
Report == [profiled: BOOLEAN, task: Columns \cup {NoColumn}, leakage: Columns \cup {NoColumn},
           quality: Columns \cup {NoColumn, Unset}]

DatasetRow == [file: Files, status: {"uploaded", "profiled", "task_recommended"},
               target: Columns \cup {NoColumn}, task: Columns \cup {NoColumn},
               score: Columns \cup {NoColumn, Unset}, json: Report]

(* Every variable has its type; a request that merges holds two whole rows. *)
DatasetTypeOK ==
    /\ dataset \in [DatasetIds -> {NoDataset} \cup DatasetRow]
    /\ storage \in [DatasetIds -> Files \cup {NoFile}]
    /\ orphan \in SUBSET DatasetIds
    /\ crossed \in SUBSET DatasetIds
    /\ \A w \in Workers :
          request[w] \in {NoRequest}
             \cup [at: {"checked"}, file: Files]
             \cup [at: {"stored"}, file: Files, id: DatasetIds]
             \cup [at: {"computed"}, id: DatasetIds, copy: DatasetRow]
             \cup [at: {"merging"}, id: DatasetIds, copy: DatasetRow, loaded: DatasetRow]

(* upload: whatever uploads of one file do to each other, a file has one    *)
(* dataset, a dataset has its file, and a file that no row names is that of *)
(* an upload under way or of one that was cut off.                          *)
RowsHaveTheirFiles ==
    /\ \A f \in Files : Cardinality(RowFor(f)) <= 1
    /\ \A d \in DatasetIds : dataset[d] # NoDataset => storage[d] = dataset[d].file
    /\ \A d \in DatasetIds : storage[d] # NoFile /\ dataset[d] = NoDataset =>
          \/ d \in orphan
          \/ \E w \in Workers : request[w].at = "stored" /\ request[w].id = d

(* profile and recommend_task write a row back seconds after they read it.  *)
(* The later one may undo the earlier, but as long as neither writes inside *)
(* the merge of the other the row tells one story: its target, its task and *)
(* its leakage report are of one target, its score is that of its quality   *)
(* report, and its status says which of the two was last.                   *)
RowTellsOneStory == \A d \in DatasetIds :
    LET r == dataset[d] IN
    r # NoDataset /\ d \notin crossed =>
        /\ r.target = r.task /\ r.task = r.json.task /\ r.task = r.json.leakage
        /\ r.score = r.json.quality
        /\ r.status = "uploaded" => r = NewDataset(r.file)
        /\ r.status = "profiled" => r.json.profiled /\ r.score = NoColumn
        /\ r.status = "task_recommended" => r.target \in Columns /\ r.score = r.target
=============================================================================
