---------------------------- MODULE DataReleases ----------------------------
(***************************************************************************)
(* Data packages, the versions their approval creates, golden cases and    *)
(* release certificates (src/backend/app.py, /api/admin/...).  Rows are    *)
(* never deleted, and of a package only its status changes, of a version   *)
(* only whether it is active: reading anything else of them is no step of  *)
(* its own.                                                                *)
(***************************************************************************)
EXTENDS Requests

CONSTANTS
  Required,         \* the data sets a production release must cover
  Uploads,          \* what administrators may upload: data set, content, confidence
  ValidContents,    \* contents that parse and pass validate_package_records
  MaxPackages,      \* bounds of the model: never more rows than these
  MaxVersions,
  MaxGolden,
  MaxCertificates

ASSUME ReleasesAssumption ==
  /\ \A x \in Uploads : /\ DOMAIN x = {"dataset", "content", "confidence"}
                        /\ x.dataset \in Required
                        /\ x.confidence \in 1..4
  /\ {MaxPackages, MaxVersions, MaxGolden, MaxCertificates} \subseteq Nat

VARIABLES
  packages,         \* data_packages, in order of id
  versions,         \* data_versions, in order of id
  golden,           \* golden_cases: whether each one passed
  certificates      \* release_certificates

releaseTables == <<packages, versions, golden, certificates>>

releaseVars == <<packages, versions, golden, certificates, calls>>

\* draft, review and rejected are one status here: no handler tells them apart.
PackageStatuses == {"open", "approved"}

ReleasesInit ==
  /\ packages = <<>>
  /\ versions = <<>>
  /\ golden = <<>>
  /\ certificates = <<>>

VersionsOf(d) == {v \in DOMAIN versions : packages[versions[v].package].dataset = d}

ActiveVersions == {v \in DOMAIN versions : versions[v].active}

DatasetOf(v) == packages[versions[v].package].dataset

----------------------------------------------------------------------------
(* create_data_package: nothing but this check keeps equal contents apart. *)

CheckContent(t) ==
  /\ IsIdle(t)
  /\ \E x \in Uploads :
       /\ \A p \in DOMAIN packages : packages[p].content # x.content
       /\ Goto(t, [at |-> "package_insert", upload |-> x])
  /\ UNCHANGED releaseTables

InsertPackage(t) ==
  /\ At(t, "package_insert")
  /\ Len(packages) < MaxPackages
  /\ LET x == calls[t].upload IN
       packages' = Append(packages,
         [dataset |-> x.dataset, content |-> x.content,
          confidence |-> x.confidence, status |-> "open"])
  /\ Finish(t)
  /\ UNCHANGED <<versions, golden, certificates>>

(* set_data_package_status: any status may follow any other.  Each approval *)
(* numbers a new version by the count of its data set's versions; the       *)
(* status is updated first, so the count is already inside the transaction. *)

\* Mutant of VersionNo: only the active versions are counted.
ActiveVersionNo(d) ==
  Cardinality({v \in VersionsOf(d) : versions[v].active}) + 1

VersionNo(d) == Cardinality(VersionsOf(d)) + 1

\* INSERT OR IGNORE under UNIQUE(dataset,version_no).
AddVersion(p) ==
  LET d == packages[p].dataset IN
    versions' =
      IF \E v \in VersionsOf(d) : versions[v].no = VersionNo(d)
        THEN versions
        ELSE Append(versions, [package |-> p, no |-> VersionNo(d), active |-> FALSE])

SetPackageStatus(t) ==
  /\ IsIdle(t)
  /\ \E p \in DOMAIN packages, s \in PackageStatuses :
       /\ s = "approved" => packages[p].confidence = 4 /\ Len(versions) < MaxVersions
       /\ packages' = [packages EXCEPT ![p].status = s]
       /\ IF s = "approved" THEN AddVersion(p) ELSE UNCHANGED versions
  /\ UNCHANGED <<golden, certificates, calls>>

----------------------------------------------------------------------------
(* activate_version and rollback_version *)

\* Every version of the data set off, then this one on, in one transaction.
OnlyActive(v) ==
  versions' = [w \in DOMAIN versions |->
    [versions[w] EXCEPT
       !.active = IF DatasetOf(w) = DatasetOf(v) THEN w = v ELSE @]]

\* The package may lose its approval before the version is made active.
CheckApproved(t) ==
  /\ IsIdle(t)
  /\ \E v \in DOMAIN versions :
       /\ packages[versions[v].package].status = "approved"
       /\ Goto(t, [at |-> "version_activate", version |-> v])
  /\ UNCHANGED releaseTables

ActivateVersion(t) ==
  /\ At(t, "version_activate")
  /\ OnlyActive(calls[t].version)
  /\ Finish(t)
  /\ UNCHANGED <<packages, golden, certificates>>

\* The newest version of the data set before v, whatever became of its package.
RollbackVersion(t) ==
  /\ IsIdle(t)
  /\ \E v \in DOMAIN versions :
       LET earlier == {w \in VersionsOf(DatasetOf(v)) :
                         w < v /\ packages[versions[w].package].confidence = 4}
       IN  earlier # {} /\ OnlyActive(Max(earlier))
  /\ UNCHANGED <<packages, golden, certificates, calls>>

CreateGoldenCase(t) ==
  /\ IsIdle(t)
  /\ Len(golden) < MaxGolden
  /\ \E passed \in BOOLEAN : golden' = Append(golden, passed)
  /\ UNCHANGED <<packages, versions, certificates, calls>>

----------------------------------------------------------------------------
(* create_release_certificate: three reads and a write, each on its own *)

ReadActive(t) ==
  /\ IsIdle(t)
  /\ Goto(t, [at |-> "cert_packages", active |-> ActiveVersions])
  /\ UNCHANGED releaseTables

\* The quality gate: every package there is, whatever its status, validates.
ReadPackages(t) ==
  /\ At(t, "cert_packages")
  /\ Goto(t, [at |-> "cert_golden", active |-> calls[t].active,
              quality |-> \A p \in DOMAIN packages : packages[p].content \in ValidContents])
  /\ UNCHANGED releaseTables

PassedCases == {g \in DOMAIN golden : golden[g]}

ReadGolden(t) ==
  /\ At(t, "cert_golden")
  /\ LET call == calls[t] IN
       Goto(t, [at |-> "cert_insert", active |-> call.active, quality |-> call.quality,
                total |-> Len(golden), passed |-> Cardinality(PassedCases)])
  /\ UNCHANGED releaseTables

Covered(vs) == {DatasetOf(v) : v \in vs}

IssueCertificate(t) ==
  /\ At(t, "cert_insert")
  /\ Len(certificates) < MaxCertificates
  /\ LET call == calls[t] IN
       certificates' = Append(certificates,
         [signature |-> call.active, total |-> call.total,
          ready |-> /\ call.quality
                    /\ Required \subseteq Covered(call.active)
                    /\ call.total > 0
                    /\ call.passed = call.total])
  /\ Finish(t)
  /\ UNCHANGED <<packages, versions, golden>>

ReleaseStep(t) ==
  \/ CheckContent(t) \/ InsertPackage(t) \/ SetPackageStatus(t)
  \/ CheckApproved(t) \/ ActivateVersion(t) \/ RollbackVersion(t)
  \/ CreateGoldenCase(t) \/ ReadActive(t) \/ ReadPackages(t)
  \/ ReadGolden(t) \/ IssueCertificate(t)

ReleasesNext ==
  \E t \in Threads :
    \/ ReleaseStep(t)
    \/ Leave(t) /\ UNCHANGED releaseTables

ReleasesSpec == InitCalls /\ ReleasesInit /\ [][ReleasesNext]_releaseVars

----------------------------------------------------------------------------
(* What is promised. *)

Contents == {x.content : x \in Uploads}

PackageRows ==
  [dataset : Required, content : Contents, confidence : 1..4, status : PackageStatuses]

VersionRows == [package : DOMAIN packages, no : Nat, active : BOOLEAN]

CertificateRows == [signature : SUBSET DOMAIN versions, total : Nat, ready : BOOLEAN]

ReleaseCalls ==
  {Idle}
  \cup [at : {"package_insert"}, upload : Uploads]
  \cup [at : {"version_activate"}, version : DOMAIN versions]
  \cup [at : {"cert_packages"}, active : SUBSET DOMAIN versions]
  \cup [at : {"cert_golden"}, active : SUBSET DOMAIN versions, quality : BOOLEAN]
  \cup [at : {"cert_insert"}, active : SUBSET DOMAIN versions, quality : BOOLEAN,
        total : Nat, passed : Nat]

\* The rows of the four tables and what each request has read of them.
ReleasesTypeOK ==
  /\ packages \in Seq(PackageRows)
  /\ versions \in Seq(VersionRows)
  /\ golden \in Seq(BOOLEAN)
  /\ certificates \in Seq(CertificateRows)
  /\ calls \in [Threads -> ReleaseCalls]

\* A package that is approved has a version: no approval's version is ever
\* dropped by INSERT OR IGNORE, because a data set's versions are numbered
\* without gaps (set_data_package_status).
ApprovedHaveVersions ==
  /\ \A p \in DOMAIN packages : packages[p].status = "approved" =>
       \E v \in DOMAIN versions : versions[v].package = p
  /\ \A d \in Required :
       {versions[v].no : v \in VersionsOf(d)} = 1..Cardinality(VersionsOf(d))

\* A data set never has two active versions, and only packages of the highest
\* confidence are ever active.
OneActivePerDataset ==
  /\ \A v, w \in ActiveVersions : DatasetOf(v) = DatasetOf(w) => v = w
  /\ \A v \in ActiveVersions : packages[versions[v].package].confidence = 4

\* A certificate that says "ready for production" names exactly one version of
\* every required data set, the content of each of them validates, and every
\* golden case that was there when it counted had passed, although versions,
\* packages and cases are read one after the other while all of them change.
CertificatesSound ==
  \A c \in DOMAIN certificates : certificates[c].ready =>
    LET names == certificates[c].signature IN
      /\ \A d \in Required : Cardinality({v \in names : DatasetOf(v) = d}) = 1
      /\ \A v \in names : packages[versions[v].package].content \in ValidContents
      /\ certificates[c].total > 0
      /\ \A g \in 1..certificates[c].total : golden[g]

\* Approvals, activations, roll-backs and certificates of data packages
\* (app.py, /api/admin/data-packages, data-versions, release-certificates).
ReleasesSound == ApprovedHaveVersions /\ OneActivePerDataset /\ CertificatesSound
=============================================================================
