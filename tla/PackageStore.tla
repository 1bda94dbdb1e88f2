---------------------------- MODULE PackageStore ----------------------------
(***************************************************************************)
(* The package store of the server (server/models/packages.py and          *)
(* server/handlers/packages.py) and its readers, the package installers of *)
(* the workers (client/package_installer.py).                              *)
(*                                                                         *)
(* A package and its PackageFiles are one entity group: a transaction or a *)
(* query on it is one step.  The files' contents are blobs, outside of any *)
(* transaction: they are stored before PackagesCreateHandler.post runs,    *)
(* and deleted by a call that DeletePackageByNameAndVersion issues within  *)
(* its transaction and does not wait for.                                  *)
(*                                                                         *)
(* A package has at least one file with a blob; its files on the web       *)
(* ("urlfiles") are left out, and so is the order of the files.            *)
(***************************************************************************)
EXTENDS FiniteSets

CONSTANTS
  Packages,   \* package keys, name and version
  NoPackage,  \* no package key
  Blobs,      \* blob keys, never used twice
  Uploads,    \* slots for /packages/create requests served concurrently
  Deletions,  \* slots for package deletions served concurrently
  Installs    \* slots for package installations by workers

ASSUME NoPackageAssumption == NoPackage \notin Packages

VARIABLES
  exists,    \* packages whose Package entity exists
  files,     \* package -> blobs its PackageFile entities refer to
  blob,      \* Blobs -> whether the blobstore has it
  dying,     \* blobs of a delete_async that has not been carried out
  upload,    \* Uploads -> request being served
  deletion,  \* Deletions -> transaction being run
  install,   \* Installs -> DownloadAndInstallPackage call
  created,   \* history: <<package, blobs>> of each creation
  orphaned,  \* history: blobs whose delete_async outlived its transaction
  leaked,    \* history: blobs that were left to nobody
  unsure     \* history: blobs of a creation that was committed but reported
             \* as a conflict

vars == <<exists, files, blob, dying, upload, deletion, install, created,
          orphaned, leaked, unsure>>

(* "named": what a creation committed for this request, and reported as a  *)
(* conflict, has given to the package.                                     *)
Request(pc, pkg, blobs) ==
  [pc |-> pc, pkg |-> pkg, blobs |-> blobs, named |-> {}]
NoRequest == Request("idle", NoPackage, {})

(* "stale": another transaction on the package has committed meanwhile.    *)
Transaction(pc, pkg, blobs) ==
  [pc |-> pc, pkg |-> pkg, blobs |-> blobs, stale |-> FALSE]
NoTransaction == Transaction("idle", NoPackage, {})

(* "todo": files still to be downloaded; "got": those that have been.      *)
Install(pc, pkg, todo) == [pc |-> pc, pkg |-> pkg, todo |-> todo, got |-> {}]
NoInstall == Install("idle", NoPackage, {})

Init ==
  /\ exists = {}
  /\ files = [pkg \in Packages |-> {}]
  /\ blob = [b \in Blobs |-> "none"]
  /\ dying = {}
  /\ upload = [u \in Uploads |-> NoRequest]
  /\ deletion = [d \in Deletions |-> NoTransaction]
  /\ install = [i \in Installs |-> NoInstall]
  /\ created = {}
  /\ orphaned = {}
  /\ leaked = {}
  /\ unsure = {}

Gone(S) == [b \in Blobs |-> IF b \in S THEN "gone" ELSE blob[b]]

(* What a commit on pkg does to the other deletions of it. *)
Outdated(pkg) ==
  [d \in Deletions |->
     IF deletion[d].pkg = pkg THEN [deletion[d] EXCEPT !.stale = TRUE]
     ELSE deletion[d]]

-----------------------------------------------------------------------------
(* Creating a package.                                                     *)

(* The blobstore stores the files of the form, then calls post.            *)
StoreBlobs(u, pkg, S) ==
  /\ upload[u].pc = "idle"
  /\ S # {} /\ \A b \in S : blob[b] = "none"
  /\ blob' = [b \in Blobs |-> IF b \in S THEN "stored" ELSE blob[b]]
  /\ upload' = [upload EXCEPT ![u] = Request("post", pkg, S)]
  /\ UNCHANGED <<exists, files, dying, deletion, install, created, orphaned,
                 leaked, unsure>>

(* The manifest is missing, is not JSON, names a file that the form does   *)
(* not have, or lacks the package's name or version.                       *)
RejectManifest(u) ==
  /\ upload[u].pc = "post"
  /\ upload' = [upload EXCEPT ![u].pc = "discard"]
  /\ UNCHANGED <<exists, files, blob, dying, deletion, install, created,
                 orphaned, leaked, unsure>>

(* An exception that post does not catch: the manifest has no list of      *)
(* files, a url file lacks a field, the transaction fails.                 *)
PostFails(u) ==
  /\ upload[u].pc \in {"post", "retry"}
  /\ leaked' = leaked \union (upload[u].blobs \ upload[u].named)
  /\ upload' = [upload EXCEPT ![u] = NoRequest]
  /\ UNCHANGED <<exists, files, blob, dying, deletion, install, created,
                 orphaned, unsure>>

MayCreate(u) == upload[u].pkg \notin exists

(* "named": the blobs that the manifest names.  The others stay behind.    *)
Created(u, named) ==
  LET pkg == upload[u].pkg
  IN  /\ \/ upload[u].pc = "post"
         \/ upload[u].pc = "retry" /\ named = upload[u].named
      /\ named # {} /\ named \subseteq upload[u].blobs
      /\ MayCreate(u)
      /\ exists' = exists \union {pkg}
      /\ files' = [files EXCEPT ![pkg] = @ \union named]
      /\ created' = created \union {<<pkg, named>>}
      /\ deletion' = Outdated(pkg)
      /\ UNCHANGED <<blob, dying, install, orphaned>>

CreatePackage(u, named) ==
  /\ Created(u, named)
  /\ leaked' = leaked \union (upload[u].blobs \ named)
  /\ upload' = [upload EXCEPT ![u] = NoRequest]
  /\ UNCHANGED unsure

(* The commit goes through and is reported as a conflict: the transaction  *)
(* is to run again.                                                        *)
CreationInDoubt(u, named) ==
  /\ Created(u, named)
  /\ unsure' = unsure \union named
  /\ upload' = [upload EXCEPT ![u].pc = "retry", ![u].named = named]
  /\ UNCHANGED leaked

(* The package exists: another request created it, or this one did in a    *)
(* try of the transaction that was in doubt.                               *)
DuplicatePackageError(u) ==
  /\ upload[u].pc \in {"post", "retry"}
  /\ ~MayCreate(u)
  /\ upload' = [upload EXCEPT ![u].pc = "discard"]
  /\ UNCHANGED <<exists, files, blob, dying, deletion, install, created,
                 orphaned, leaked, unsure>>

(* Mutants: the blobs stay; those of the existing package go.              *)
DiscardedNone(u) == {}
DiscardedFiles(u) == upload[u].blobs \union files[upload[u].pkg]

Discarded(u) == upload[u].blobs

DeleteAllBlobs(u) ==
  /\ upload[u].pc = "discard"
  /\ blob' = Gone(Discarded(u))
  /\ upload' = [upload EXCEPT ![u] = NoRequest]
  /\ UNCHANGED <<exists, files, dying, deletion, install, created, orphaned,
                 leaked, unsure>>

-----------------------------------------------------------------------------
(* Deleting a package.                                                     *)

(* The first try of the transaction, or another one after a conflict.      *)
ReadPackageFiles(d, pkg) ==
  /\ \/ deletion[d].pc = "idle"
     \/ deletion[d].pc = "commit" /\ deletion[d].stale /\ deletion[d].pkg = pkg
  /\ deletion' = [deletion EXCEPT ![d] = Transaction("read", pkg, files[pkg])]
  /\ UNCHANGED <<exists, files, blob, dying, upload, install, created, orphaned,
                 leaked, unsure>>

DeleteAsync(d) ==
  /\ deletion[d].pc = "read"
  /\ dying' = dying \union {b \in deletion[d].blobs : blob[b] = "stored"}
  /\ deletion' = [deletion EXCEPT ![d].pc = "commit"]
  /\ UNCHANGED <<exists, files, blob, upload, install, created, orphaned, leaked, unsure>>

CommitDelete(d) ==
  LET pkg == deletion[d].pkg
  IN  /\ deletion[d].pc = "commit"
      /\ ~deletion[d].stale
      /\ exists' = exists \ {pkg}
      /\ files' = [files EXCEPT ![pkg] = {}]
      /\ deletion' = [Outdated(pkg) EXCEPT ![d] = NoTransaction]
      /\ UNCHANGED <<blob, dying, upload, install, created, orphaned, leaked, unsure>>

(* The transaction raises: too many conflicts, or the datastore fails.     *)
DeleteFails(d) ==
  /\ deletion[d].pc \in {"read", "commit"}
  /\ orphaned' = IF deletion[d].pc = "commit"
                 THEN orphaned \union deletion[d].blobs ELSE orphaned
  /\ deletion' = [deletion EXCEPT ![d] = NoTransaction]
  /\ UNCHANGED <<exists, files, blob, dying, upload, install, created, leaked, unsure>>

BlobDeleted(b) ==
  /\ b \in dying
  /\ blob' = Gone({b})
  /\ dying' = dying \ {b}
  /\ UNCHANGED <<exists, files, upload, deletion, install, created, orphaned,
                 leaked, unsure>>

DeleteAsyncFails(b) ==
  /\ b \in dying
  /\ dying' = dying \ {b}
  /\ leaked' = leaked \union {b}
  /\ UNCHANGED <<exists, files, blob, upload, deletion, install, created,
                 orphaned, unsure>>

-----------------------------------------------------------------------------
(* Installing a package: PackagesHandler.get, then one download per file.  *)

GetPackage(i, pkg) ==
  /\ install[i].pc = "idle"
  /\ pkg \in exists
  /\ install' = [install EXCEPT ![i] = Install("found", pkg, {})]
  /\ UNCHANGED <<exists, files, blob, dying, upload, deletion, created,
                 orphaned, leaked, unsure>>

GetPackageFiles(i) ==
  /\ install[i].pc = "found"
  /\ install' = [install EXCEPT
                   ![i] = Install("download", @.pkg, files[@.pkg])]
  /\ UNCHANGED <<exists, files, blob, dying, upload, deletion, created,
                 orphaned, leaked, unsure>>

(* Mutant: a file that is not there is passed over.                        *)
AfterDownloadLenient(i, b) ==
  [install[i] EXCEPT !.todo = @ \ {b},
                     !.got = IF blob[b] = "stored" THEN @ \union {b} ELSE @]

(* PackageFileDownloadHandler answers by 404 when the blob is gone.        *)
AfterDownload(i, b) ==
  IF blob[b] = "stored"
  THEN [install[i] EXCEPT !.todo = @ \ {b}, !.got = @ \union {b}]
  ELSE NoInstall

DownloadAndInstallFile(i, b) ==
  /\ install[i].pc = "download"
  /\ b \in install[i].todo
  /\ install' = [install EXCEPT ![i] = AfterDownload(i, b)]
  /\ UNCHANGED <<exists, files, blob, dying, upload, deletion, created,
                 orphaned, leaked, unsure>>

Installed(i) == install[i].pc = "download" /\ install[i].todo = {}

(* The call returns, or it raises as a request fails. *)
EndInstall(i) ==
  /\ install[i].pc # "idle"
  /\ install' = [install EXCEPT ![i] = NoInstall]
  /\ UNCHANGED <<exists, files, blob, dying, upload, deletion, created,
                 orphaned, leaked, unsure>>

-----------------------------------------------------------------------------
Next ==
  \/ \E u \in Uploads, pkg \in Packages, S \in SUBSET Blobs :
       StoreBlobs(u, pkg, S)
  \/ \E u \in Uploads : RejectManifest(u)
  \/ \E u \in Uploads : PostFails(u)
  \/ \E u \in Uploads, named \in SUBSET Blobs : CreatePackage(u, named)
  \/ \E u \in Uploads, named \in SUBSET Blobs : CreationInDoubt(u, named)
  \/ \E u \in Uploads : DuplicatePackageError(u)
  \/ \E u \in Uploads : DeleteAllBlobs(u)
  \/ \E d \in Deletions, pkg \in Packages : ReadPackageFiles(d, pkg)
  \/ \E d \in Deletions : DeleteAsync(d)
  \/ \E d \in Deletions : CommitDelete(d)
  \/ \E d \in Deletions : DeleteFails(d)
  \/ \E b \in Blobs : BlobDeleted(b)
  \/ \E b \in Blobs : DeleteAsyncFails(b)
  \/ \E i \in Installs, pkg \in Packages : GetPackage(i, pkg)
  \/ \E i \in Installs : GetPackageFiles(i)
  \/ \E i \in Installs, b \in Blobs : DownloadAndInstallFile(i, b)
  \/ \E i \in Installs : EndInstall(i)

Spec == Init /\ [][Next]_vars

-----------------------------------------------------------------------------
(* Properties.                                                             *)

(* Entities, blobs and requests are well formed, and an installation does  *)
(* not have a file that it is still to download.                           *)
StoreTypeOK ==
  /\ exists \subseteq Packages
  /\ files \in [Packages -> SUBSET Blobs]
  /\ blob \in [Blobs -> {"none", "stored", "gone"}]
  /\ dying \subseteq Blobs
  /\ upload \in [Uploads -> [pc : {"idle", "post", "retry", "discard"},
                             pkg : Packages \union {NoPackage},
                             blobs : SUBSET Blobs, named : SUBSET Blobs]]
  /\ deletion \in [Deletions -> [pc : {"idle", "read", "commit"},
                                 pkg : Packages \union {NoPackage},
                                 blobs : SUBSET Blobs, stale : BOOLEAN]]
  /\ install \in [Installs -> [pc : {"idle", "found", "download"},
                               pkg : Packages \union {NoPackage},
                               todo : SUBSET Blobs, got : SUBSET Blobs]]
  /\ \A i \in Installs : install[i].todo \cap install[i].got = {}
  /\ created \subseteq Packages \X SUBSET Blobs
  /\ orphaned \subseteq Blobs
  /\ leaked \subseteq Blobs
  /\ unsure \subseteq Blobs

(* A package has the files of one creation, whatever creations and         *)
(* deletions of it were tried at the same time; no package, no files.      *)
FilesOfOneUpload ==
  \A pkg \in Packages :
    IF pkg \in exists THEN <<pkg, files[pkg]>> \in created ELSE files[pkg] = {}

(* The files of a package can be downloaded until a deletion of it is      *)
(* under way: neither a duplicate upload nor a deletion of an earlier      *)
(* package of that name and version takes their blobs.  The exceptions are *)
(* a deletion whose transaction raised, and a creation that was committed  *)
(* but reported as a conflict: its request finds its own package, takes it *)
(* for a duplicate and deletes the blobs of it.                            *)
FilesHaveBlobs ==
  \A pkg \in Packages : \A b \in files[pkg] :
    \/ blob[b] = "stored"
    \/ b \in orphaned \union unsure
    \/ \E d \in Deletions : /\ deletion[d].pc = "commit"
                            /\ b \in deletion[d].blobs

(* A stored blob belongs to a request, to a package or to a delete_async,  *)
(* unless it was lost on one of the paths known for it: an exception that  *)
(* post does not catch, a file that the manifest does not name, a          *)
(* delete_async that fails.                                                *)
BlobsAccountedFor ==
  \A b \in Blobs :
    blob[b] = "stored" =>
      \/ b \in leaked \union dying
      \/ \E pkg \in Packages : b \in files[pkg]
      \/ \E u \in Uploads : b \in upload[u].blobs \ upload[u].named

(* An installation that ends well has all files of a package as it was     *)
(* created, or none at all.                                                *)
InstallIsWholeOrEmpty ==
  \A i \in Installs :
    Installed(i) => \/ install[i].got = {}
                    \/ <<install[i].pkg, install[i].got>> \in created

(* Blobs of a request are stored and in nobody else's hands, but for those *)
(* that its creation in doubt gave to its package; blobs that are not      *)
(* stored yet are in nobody's.                                             *)
InHands(b) ==
  \/ b \in dying
  \/ \E pkg \in Packages : b \in files[pkg]
  \/ \E d \in Deletions : b \in deletion[d].blobs
UploadedAlone ==
  \A u \in Uploads :
    /\ \A b \in upload[u].blobs \ upload[u].named :
         blob[b] = "stored" /\ ~InHands(b)
    /\ \A v \in Uploads :
         v # u => upload[u].blobs \cap upload[v].blobs = {}
NamedByUpload ==
  \A u \in Uploads :
    /\ upload[u].named \subseteq upload[u].blobs \cap unsure
    /\ upload[u].pc = "post" => upload[u].named = {}
    /\ \A pkg \in Packages :
         pkg # upload[u].pkg => upload[u].named \cap files[pkg] = {}
NoneIsNew ==
  \A b \in Blobs :
    blob[b] = "none" => ~InHands(b) /\ \A u \in Uploads : b \notin upload[u].blobs

(* Requests that run have a package, and no two packages share a file.     *)
OfAPackage ==
  /\ \A u \in Uploads : IF upload[u].pc = "idle" THEN upload[u] = NoRequest
                                                  ELSE upload[u].pkg \in Packages
  /\ \A d \in Deletions : IF deletion[d].pc = "idle" THEN deletion[d] = NoTransaction
                                                      ELSE deletion[d].pkg \in Packages
  /\ \A i \in Installs : install[i].pc # "idle" => install[i].pkg \in Packages
FilesApart ==
  \A p, q \in Packages : p # q => files[p] \cap files[q] = {}

(* What a deletion has read is what the package has, or it is outdated and *)
(* no package has any of it, but from a creation in doubt.                 *)
ReadIsPresent ==
  \A d \in Deletions :
    deletion[d].pc # "idle" =>
      IF deletion[d].stale
      THEN \A pkg \in Packages : deletion[d].blobs \cap files[pkg] \subseteq unsure
      ELSE deletion[d].blobs = files[deletion[d].pkg]

(* A file is not about to vanish, but for a deletion that is to commit, or *)
(* one that raised or a creation in doubt; and what is to commit has seen  *)
(* to its blobs.                                                           *)
FilesStay ==
  \A pkg \in Packages : \A b \in files[pkg] :
    \/ blob[b] = "stored" /\ b \notin dying
    \/ b \in orphaned \union unsure
    \/ \E d \in Deletions : deletion[d].pc = "commit" /\ b \in deletion[d].blobs
CommitSeesToBlobs ==
  \A d \in Deletions : \A b \in deletion[d].blobs :
    deletion[d].pc = "commit" /\ blob[b] = "stored" => b \in dying \union leaked

(* What an installation has and lacks is what one creation had, or nothing. *)
InstallsOneCreation ==
  \A i \in Installs :
    install[i].pc = "download" =>
      \/ install[i].todo \union install[i].got = {}
      \/ <<install[i].pkg, install[i].todo \union install[i].got>> \in created

(* The inductive invariant of the proofs.                                  *)
StoreInv ==
  /\ StoreTypeOK
  /\ UploadedAlone /\ NamedByUpload /\ NoneIsNew /\ OfAPackage /\ FilesApart
  /\ FilesOfOneUpload /\ ReadIsPresent /\ FilesStay
  /\ CommitSeesToBlobs /\ BlobsAccountedFor
  /\ InstallsOneCreation
=============================================================================
