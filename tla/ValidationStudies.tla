------------------------- MODULE ValidationStudies -------------------------
(***************************************************************************)
(* Validation studies, their datasets and their measurements               *)
(* (src/backend/production_validation/{service,repository,enums}.py).      *)
(* Every handler reads the study or the dataset on one connection, checks  *)
(* it, and writes on another.  Studies and datasets are identified by      *)
(* their codes, measurements by position: none of them is ever deleted.    *)
(***************************************************************************)
EXTENDS Requests

CONSTANTS
  Studies,      \* study codes
  DatasetCodes, \* dataset codes within a study
  CsvFiles,     \* files: for each row its sequence number, 0 for none given
  Notes,        \* what the free text of a study or a dataset may be changed to
  MaxRecords    \* bound of the model: this many measurements, and no more

ASSUME StudiesAssumption ==
  /\ None \notin CsvFiles \cup Notes
  /\ MaxRecords \in Nat
  /\ \A f \in CsvFiles : f \in Seq(Nat)

VARIABLES
  studies,      \* validation_studies
  datasets,     \* measurement_datasets
  measurements  \* measurement_records, in order of id

studyTables == <<studies, datasets, measurements>>

studyVars == <<studies, datasets, measurements, calls>>

StudyTransitions ==
  [absent          |-> {},
   draft           |-> {"data_collection", "archived"},
   data_collection |-> {"completed", "archived"},
   completed       |-> {"under_review", "archived"},
   under_review    |-> {"approved", "rejected", "archived"},
   approved        |-> {"archived"},
   rejected        |-> {"data_collection", "archived"},
   archived        |-> {}]

StudyStatuses == DOMAIN StudyTransitions

Datasets == Studies \X DatasetCodes

StudiesInit ==
  /\ studies = [s \in Studies |->
       [status |-> "absent", creator |-> None, approver |-> None, notes |-> None]]
  /\ datasets = [d \in Datasets |->
       [state |-> "absent", checksum |-> None, version |-> 0, notes |-> None]]
  /\ measurements = <<>>

RecordsOf(d) == {i \in DOMAIN measurements : measurements[i].dataset = d}

Numbers(d) == {measurements[i].no : i \in RecordsOf(d)}

\* SELECT COALESCE(MAX(sequence_number),0)+1
NextNumber(used) == 1 + Max({0} \cup used)

----------------------------------------------------------------------------
(* create_study: the study and its specification snapshot, one transaction *)

CheckStudyCode(t) ==
  /\ IsIdle(t)
  /\ \E s \in Studies, u \in Users :
       /\ studies[s].status = "absent"
       /\ Goto(t, [at |-> "study_create", study |-> s, user |-> u])
  /\ UNCHANGED studyTables

\* study_code is UNIQUE: the second of two rivals fails.
InsertStudy(t) ==
  /\ At(t, "study_create")
  /\ LET s == calls[t].study IN
       studies' = IF studies[s].status = "absent"
                    THEN [studies EXCEPT ![s].status = "draft",
                                         ![s].creator = calls[t].user]
                    ELSE studies
  /\ Finish(t)
  /\ UNCHANGED <<datasets, measurements>>

----------------------------------------------------------------------------
(* complete, submit, approve, reject and archive *)

\* Only approving asks who is calling: not the author.
ReadStudy(t) ==
  /\ IsIdle(t)
  /\ \E s \in Studies, new \in StudyStatuses, u \in Users \cup {None} :
       /\ new \in StudyTransitions[studies[s].status] \ {"data_collection"}
       /\ IF new = "approved" THEN u \notin {None, studies[s].creator} ELSE u = None
       /\ Goto(t, [at |-> IF new = "completed" THEN "study_list" ELSE "study_write",
                   study |-> s, new |-> new, user |-> u, left |-> {}, valid |-> FALSE])
  /\ UNCHANGED studyTables

\* complete_study lists the datasets, then counts them one by one.
ListDatasets(t) ==
  /\ At(t, "study_list")
  /\ Goto(t, [calls[t] EXCEPT !.at = "study_count",
                !.left = {d \in Datasets : /\ d[1] = calls[t].study
                                           /\ datasets[d].state # "absent"}])
  /\ UNCHANGED studyTables

CountDataset(t) ==
  /\ At(t, "study_count")
  /\ \E d \in calls[t].left :
       Goto(t, [calls[t] EXCEPT !.left = @ \ {d},
                  !.valid = @ \/ \E i \in RecordsOf(d) : measurements[i].valid])
  /\ UNCHANGED studyTables

\* Mutant of WriteStudy: a study is completed without a valid measurement.
WriteStudyUnmeasured(t) ==
  /\ LET call == calls[t] IN
       /\ \/ call.at = "study_write"
          \/ call.at = "study_count" /\ call.left = {}
       /\ studies' = [studies EXCEPT
            ![call.study].status = call.new,
            ![call.study].approver = IF call.new = "approved" THEN call.user ELSE @]
  /\ Finish(t)
  /\ UNCHANGED <<datasets, measurements>>

WriteStudy(t) ==
  /\ LET call == calls[t] IN
       /\ \/ call.at = "study_write"
          \/ call.at = "study_count" /\ call.left = {} /\ call.valid
       /\ studies' = [studies EXCEPT
            ![call.study].status = call.new,
            ![call.study].approver = IF call.new = "approved" THEN call.user ELSE @]
  /\ Finish(t)
  /\ UNCHANGED <<datasets, measurements>>

(* patch_study *)

ReadForPatch(t) ==
  /\ IsIdle(t)
  /\ \E s \in Studies, n \in Notes :
       /\ studies[s].status \notin {"absent", "approved"}
       /\ Goto(t, [at |-> "study_patch", study |-> s, notes |-> n])
  /\ UNCHANGED studyTables

PatchStudy(t) ==
  /\ At(t, "study_patch")
  /\ studies' = [studies EXCEPT ![calls[t].study].notes = calls[t].notes]
  /\ Finish(t)
  /\ UNCHANGED <<datasets, measurements>>

----------------------------------------------------------------------------
(* create_dataset, patch_dataset, lock_dataset *)

ReadForDataset(t) ==
  /\ IsIdle(t)
  /\ \E d \in Datasets :
       /\ studies[d[1]].status \notin {"absent", "approved"}
       /\ Goto(t, [at |-> "set_check", dataset |-> d,
                   draft |-> studies[d[1]].status = "draft"])
  /\ UNCHANGED studyTables

CheckDatasetCode(t) ==
  /\ At(t, "set_check")
  /\ IF datasets[calls[t].dataset].state = "absent"
       THEN Continue(t, "set_create")
       ELSE Finish(t)
  /\ UNCHANGED studyTables

\* UNIQUE(validation_study_id, dataset_code).  A study that was a draft when
\* it was read starts collecting data, whatever it has become since.
InsertDataset(t) ==
  /\ At(t, "set_create")
  /\ LET d == calls[t].dataset IN
       IF datasets[d].state = "absent"
         THEN /\ datasets' = [datasets EXCEPT ![d].state = "open", ![d].version = 1]
              /\ studies' = IF calls[t].draft
                              THEN [studies EXCEPT ![d[1]].status = "data_collection"]
                              ELSE studies
         ELSE UNCHANGED <<studies, datasets>>
  /\ Finish(t)
  /\ UNCHANGED measurements

\* get_dataset of every operation on an unlocked dataset; an import compares
\* the file with the last one imported.
ReadDataset(t) ==
  /\ IsIdle(t)
  /\ \E d \in Datasets :
       /\ datasets[d].state = "open"
       /\ \/ Goto(t, [at |-> "set_lock", dataset |-> d])
          \/ \E n \in Notes : Goto(t, [at |-> "set_patch", dataset |-> d, notes |-> n])
          \/ Goto(t, [at |-> "record_study", dataset |-> d, no |-> 0, corrects |-> 0])
          \/ \E f \in CsvFiles \ {datasets[d].checksum} :
               Goto(t, [at |-> "import_study", dataset |-> d, file |-> f, no |-> 0])
          \/ \E i \in RecordsOf(d) :
               Goto(t, [at |-> "invalid_study", dataset |-> d, row |-> i])
  /\ UNCHANGED studyTables

LockDataset(t) ==
  /\ At(t, "set_lock")
  /\ datasets' = [datasets EXCEPT ![calls[t].dataset].state = "locked"]
  /\ Finish(t)
  /\ UNCHANGED <<studies, measurements>>

PatchDataset(t) ==
  /\ At(t, "set_patch")
  /\ datasets' = [datasets EXCEPT ![calls[t].dataset].notes = calls[t].notes]
  /\ Finish(t)
  /\ UNCHANGED <<studies, measurements>>

----------------------------------------------------------------------------
(* create_record, import_csv_records, invalidate_record *)

\* _assert_study_editable, on a connection of its own.
StudyEditable(t, step, next) ==
  /\ At(t, step)
  /\ IF studies[calls[t].dataset[1]].status # "approved"
       THEN Continue(t, next)
       ELSE Finish(t)
  /\ UNCHANGED studyTables

AssertStudyEditable(t) ==
  \/ StudyEditable(t, "record_study", "record_number")
  \/ StudyEditable(t, "import_study", "import_number")
  \/ StudyEditable(t, "invalid_study", "invalid_write")

\* The next number, and the record of this dataset that is being corrected.
NumberRecord(t) ==
  /\ At(t, "record_number")
  /\ \E i \in {0} \cup RecordsOf(calls[t].dataset) :
       Goto(t, [calls[t] EXCEPT !.at = "record_insert", !.corrects = i,
                  !.no = NextNumber(Numbers(calls[t].dataset))])
  /\ UNCHANGED studyTables

RecordRow(d, no, corrects) ==
  [dataset |-> d, no |-> no, valid |-> TRUE, corrects |-> corrects]

Superseded(i) == [measurements EXCEPT ![i].valid = FALSE]

\* The record and the invalidation of the one it corrects, one transaction,
\* unless UNIQUE(dataset_id, sequence_number) refuses the number.
InsertRecord(t) ==
  /\ At(t, "record_insert")
  /\ Len(measurements) < MaxRecords
  /\ LET call == calls[t] IN
       measurements' =
         IF call.no \in Numbers(call.dataset) THEN measurements
         ELSE Append(IF call.corrects = 0 THEN measurements ELSE Superseded(call.corrects),
                     RecordRow(call.dataset, call.no, call.corrects))
  /\ Finish(t)
  /\ UNCHANGED <<studies, datasets>>

InvalidateRecord(t) ==
  /\ At(t, "invalid_write")
  /\ measurements' = Superseded(calls[t].row)
  /\ Finish(t)
  /\ UNCHANGED <<studies, datasets>>

\* The number of the first row is read before the transaction begins.
NumberImport(t) ==
  /\ At(t, "import_number")
  /\ LET call == calls[t]
         used == Numbers(call.dataset)
         no == IF call.file = <<>> THEN 0
               ELSE IF call.file[1] # 0 THEN call.file[1] ELSE NextNumber(used)
     IN  IF no \in used
           THEN Finish(t)
           ELSE Goto(t, [call EXCEPT !.at = "import_insert", !.no = no])
  /\ UNCHANGED studyTables

\* The numbers of a file's rows: the first as it was read, each later one as
\* given, or one more than all numbers so far.
RowNumbers(file, first, used) ==
  LET no[i \in DOMAIN file] ==
        IF i = 1 THEN first
        ELSE IF file[i] # 0 THEN file[i]
        ELSE NextNumber(used \cup {no[j] : j \in 1..(i - 1)})
  IN  no

\* Every row of the file and the dataset's checksum and version, or nothing.
ImportRows(t) ==
  /\ At(t, "import_insert")
  /\ LET call == calls[t]
         d == call.dataset
         no == RowNumbers(call.file, call.no, Numbers(d))
     IN  IF \E i \in DOMAIN no :
              no[i] \in Numbers(d) \cup {no[j] : j \in 1..(i - 1)}
           THEN UNCHANGED <<datasets, measurements>>
           ELSE /\ Len(measurements) + Len(call.file) <= MaxRecords
                /\ measurements' =
                     measurements \o [i \in DOMAIN no |-> RecordRow(d, no[i], 0)]
                /\ datasets' = [datasets EXCEPT ![d].checksum = call.file,
                                                ![d].version = @ + 1]
  /\ Finish(t)
  /\ UNCHANGED studies

StudyStep(t) ==
  \/ CheckStudyCode(t) \/ InsertStudy(t) \/ ReadStudy(t) \/ ListDatasets(t)
  \/ CountDataset(t) \/ WriteStudy(t) \/ ReadForPatch(t) \/ PatchStudy(t)
  \/ ReadForDataset(t) \/ CheckDatasetCode(t) \/ InsertDataset(t)
  \/ ReadDataset(t) \/ LockDataset(t) \/ PatchDataset(t)
  \/ AssertStudyEditable(t) \/ NumberRecord(t) \/ InsertRecord(t)
  \/ InvalidateRecord(t) \/ NumberImport(t) \/ ImportRows(t)

StudiesNext ==
  \E t \in Threads :
    \/ StudyStep(t)
    \/ Leave(t) /\ UNCHANGED studyTables

StudiesSpec == InitCalls /\ StudiesInit /\ [][StudiesNext]_studyVars

----------------------------------------------------------------------------
(* What is promised. *)

StudyRows ==
  [status : StudyStatuses, creator : Users \cup {None},
   approver : Users \cup {None}, notes : Notes \cup {None}]

DatasetRows ==
  [state : {"absent", "open", "locked"}, checksum : CsvFiles \cup {None},
   version : Nat, notes : Notes \cup {None}]

MeasurementIds == DOMAIN measurements

StudyCalls ==
  {Idle}
  \cup [at : {"study_create"}, study : Studies, user : Users]
  \cup [at : {"study_list", "study_count", "study_write"}, study : Studies,
        new : StudyStatuses, user : Users \cup {None}, left : SUBSET Datasets,
        valid : BOOLEAN]
  \cup [at : {"study_patch"}, study : Studies, notes : Notes]
  \cup [at : {"set_check", "set_create"}, dataset : Datasets, draft : BOOLEAN]
  \cup [at : {"set_lock"}, dataset : Datasets]
  \cup [at : {"set_patch"}, dataset : Datasets, notes : Notes]
  \cup [at : {"record_study", "record_number", "record_insert"},
        dataset : Datasets, no : Nat, corrects : {0} \cup MeasurementIds]
  \cup [at : {"import_study", "import_number", "import_insert"},
        dataset : Datasets, file : CsvFiles, no : Nat]
  \cup [at : {"invalid_study", "invalid_write"}, dataset : Datasets, row : MeasurementIds]

\* The rows of the three tables and what each request has read of them.
StudiesTypeOK ==
  /\ studies \in [Studies -> StudyRows]
  /\ datasets \in [Datasets -> DatasetRows]
  /\ measurements \in Seq([dataset : Datasets, no : Nat, valid : BOOLEAN, corrects : Nat])
  /\ Len(measurements) <= MaxRecords
  /\ calls \in [Threads -> StudyCalls]

Measured(s) == \E i \in MeasurementIds : measurements[i].dataset[1] = s

\* A study under review, approved or rejected has measurements, though the
\* count that complete_study makes is spread over several reads and later
\* steps trust a status that others may have changed meanwhile.
ReviewedMeasured ==
  \A s \in Studies :
    studies[s].status \in {"completed", "under_review", "approved", "rejected"} => Measured(s)

\* An approved study was approved by somebody other than its author.
ApprovedByAnother ==
  \A s \in Studies :
    /\ studies[s].status = "approved" => studies[s].approver # None
    /\ studies[s].approver # None => studies[s].approver # studies[s].creator

\* A corrected measurement never counts again, and its correction belongs to
\* the same dataset (create_record writes both in one transaction).
CorrectedInvalid ==
  \A i \in MeasurementIds : LET k == measurements[i].corrects IN k # 0 =>
    /\ k \in 1..(i - 1)
    /\ ~measurements[k].valid
    /\ measurements[k].dataset = measurements[i].dataset

\* Within a dataset no two measurements share a sequence number, through
\* concurrent entries and imports alike.
NumbersUnique ==
  \A i, k \in MeasurementIds :
    /\ measurements[i].dataset = measurements[k].dataset
    /\ measurements[i].no = measurements[k].no
    => i = k

\* A study is reviewed on measurements and approved by another than its author,
\* and corrections and numbers stay straight, although every handler checks on
\* one connection and writes on another (production_validation/service.py).
StudiesSound ==
  ReviewedMeasured /\ ApprovedByAnother /\ CorrectedInvalid /\ NumbersUnique
=============================================================================
