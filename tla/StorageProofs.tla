---------------------------- MODULE StorageProofs ----------------------------
(***************************************************************************)
(* The invariants of what is stored: of PackageStore, for any packages,    *)
(* blobs and numbers of concurrent requests; and of RecordFiles, for any   *)
(* sizes of blocks and buffers, any records, pools and mishaps.            *)
(*                                                                         *)
(* What the proofs about packages turn on: the blobs of a request are in   *)
(* nobody else's hands (UploadedAlone), but for those that a creation in   *)
(* doubt gave to its own package (NamedByUpload), so that no package       *)
(* misses what a request discards; and a deletion that may still commit    *)
(* has read the files that its package has (ReadIsPresent), so that        *)
(* whatever it takes from the blobstore goes with the package.             *)
(*                                                                         *)
(* What those about records turn on: the file is a sequence of pieces,     *)
(* each a fragment of a record, that follow each other as the fragments of *)
(* the records do (Layout), with nothing between them that a reader takes  *)
(* for a fragment (Gaps); and the reader stands where a piece or a block   *)
(* ends, keeps the part of a record before that place, and has returned    *)
(* the records that ended before it (Seen).                                *)
(***************************************************************************)
EXTENDS PackageStore, RecordFiles, SetFacts, SequenceTheorems, TLAPS

-----------------------------------------------------------------------------
(* PackageStore.                                                           *)

(* The invariant holds at first. *)
LEMMA StoreInvInit == Init => StoreInv
<1> SUFFICES ASSUME Init PROVE StoreInv
  OBVIOUS
<1>1. StoreTypeOK
  BY DEF Init, StoreTypeOK, NoRequest, NoTransaction, NoInstall, Request,
         Transaction, Install
<1>2. /\ UploadedAlone /\ NamedByUpload /\ NoneIsNew /\ BlobsAccountedFor
      /\ CommitSeesToBlobs
  BY DEF Init, UploadedAlone, NamedByUpload, NoneIsNew, InHands, NoRequest, NoTransaction,
         Request, Transaction, BlobsAccountedFor, CommitSeesToBlobs
<1>3. OfAPackage /\ FilesApart /\ FilesOfOneUpload
  BY DEF Init, OfAPackage, FilesApart, FilesOfOneUpload, NoRequest,
         NoTransaction, NoInstall, Request, Transaction, Install
<1>4. ReadIsPresent /\ FilesStay /\ InstallsOneCreation
  BY DEF Init, ReadIsPresent, FilesStay, InstallsOneCreation, NoTransaction,
         NoInstall, Transaction, Install
<1> QED
  BY <1>1, <1>2, <1>3, <1>4 DEF StoreInv

(* What a commit on a package does to the deletions of it. *)
TransactionRecords == [pc : {"idle", "read", "commit"},
                       pkg : Packages \union {NoPackage},
                       blobs : SUBSET Blobs, stale : BOOLEAN]

LEMMA StaleRecord ==
  ASSUME NEW t \in TransactionRecords
  PROVE  /\ [t EXCEPT !.stale = TRUE] \in TransactionRecords
         /\ [t EXCEPT !.stale = TRUE].pc = t.pc
         /\ [t EXCEPT !.stale = TRUE].pkg = t.pkg
         /\ [t EXCEPT !.stale = TRUE].blobs = t.blobs
         /\ [t EXCEPT !.stale = TRUE].stale = TRUE
BY DEF TransactionRecords

LEMMA OutdatedDeletions ==
  ASSUME deletion \in [Deletions -> TransactionRecords], NEW pkg
  PROVE  /\ Outdated(pkg) \in [Deletions -> TransactionRecords]
         /\ \A d \in Deletions :
              /\ deletion[d].pkg # pkg => Outdated(pkg)[d] = deletion[d]
              /\ Outdated(pkg)[d].pc = deletion[d].pc
              /\ Outdated(pkg)[d].pkg = deletion[d].pkg
              /\ Outdated(pkg)[d].blobs = deletion[d].blobs
              /\ Outdated(pkg)[d].stale <=> (deletion[d].stale \/ deletion[d].pkg = pkg)
<1>1. ASSUME NEW d \in Deletions
      PROVE  /\ Outdated(pkg)[d] \in TransactionRecords
             /\ deletion[d].pkg # pkg => Outdated(pkg)[d] = deletion[d]
             /\ Outdated(pkg)[d].pc = deletion[d].pc
             /\ Outdated(pkg)[d].pkg = deletion[d].pkg
             /\ Outdated(pkg)[d].blobs = deletion[d].blobs
             /\ Outdated(pkg)[d].stale <=> (deletion[d].stale \/ deletion[d].pkg = pkg)
  <2> DEFINE t == deletion[d]
  <2>1. t \in TransactionRecords
    OBVIOUS
  <2>2. t.stale \in BOOLEAN
    BY <2>1 DEF TransactionRecords
  <2>3. Outdated(pkg)[d] = IF t.pkg = pkg THEN [t EXCEPT !.stale = TRUE] ELSE t
    BY DEF Outdated
  <2> HIDE DEF t
  <2>4. CASE t.pkg = pkg
    BY <2>1, <2>2, <2>3, <2>4, StaleRecord DEF t
  <2>5. CASE t.pkg # pkg
    BY <2>1, <2>2, <2>3, <2>5 DEF t
  <2> QED
    BY <2>4, <2>5
<1> QED
  BY <1>1 DEF Outdated

-----------------------------------------------------------------------------
(* Requests to create a package.                                           *)

LEMMA StoreBlobsKeeps ==
  ASSUME StoreInv, NEW u \in Uploads, NEW pkg \in Packages,
         NEW S \in SUBSET Blobs, StoreBlobs(u, pkg, S)
  PROVE  StoreInv'
<1> USE DEF StoreBlobs, StoreInv
<1>1. StoreTypeOK'
  BY DEF StoreTypeOK, Request
<1>2. UploadedAlone' /\ NoneIsNew'
  <2>1. /\ upload'[u].blobs = S /\ upload'[u].named = {}
        /\ \A v \in Uploads \ {u} : upload'[v] = upload[v]
    BY DEF StoreTypeOK, Request
  <2>2. \A b \in Blobs : InHands(b)' <=> InHands(b)
    BY DEF InHands
  <2>3. \A b \in S : ~InHands(b) /\ \A v \in Uploads : b \notin upload[v].blobs
    BY DEF NoneIsNew
  <2>4. UploadedAlone'
    BY <2>1, <2>2, <2>3 DEF StoreTypeOK, UploadedAlone
  <2>5. NoneIsNew'
    BY <2>1, <2>2 DEF StoreTypeOK, NoneIsNew
  <2> QED
    BY <2>4, <2>5
<1>7. NamedByUpload'
  BY DEF StoreTypeOK, NamedByUpload, Request
<1>3. OfAPackage'
  BY DEF StoreTypeOK, OfAPackage, Request
<1>4. FilesStay' /\ CommitSeesToBlobs'
  BY DEF StoreTypeOK, FilesStay, CommitSeesToBlobs, NoneIsNew, InHands
<1>5. BlobsAccountedFor'
  BY DEF StoreTypeOK, BlobsAccountedFor, Request, OfAPackage, NoRequest
<1>6. FilesApart' /\ FilesOfOneUpload' /\ ReadIsPresent' /\ InstallsOneCreation'
  BY DEF FilesApart, FilesOfOneUpload, ReadIsPresent, InstallsOneCreation
<1> QED
  BY <1>1, <1>2, <1>3, <1>4, <1>5, <1>6, <1>7

UploadType == [pc : {"idle", "post", "retry", "discard"},
               pkg : Packages \union {NoPackage},
               blobs : SUBSET Blobs, named : SUBSET Blobs]

(* A request that turns to discarding its blobs. *)
Discards(u) ==
  /\ upload[u].pc \in {"post", "retry"}
  /\ upload' = [upload EXCEPT ![u].pc = "discard"]
  /\ UNCHANGED <<exists, files, blob, dying, deletion, install, created,
                 orphaned, leaked, unsure>>

LEMMA DiscardsKeeps ==
  ASSUME StoreInv, NEW u \in Uploads, Discards(u)
  PROVE  StoreInv'
<1> USE DEF Discards, StoreInv
<1>1. StoreTypeOK' /\ OfAPackage'
  <2>1. upload' = [upload EXCEPT ![u].pc = "discard"]
    OBVIOUS
  <2>2. StoreTypeOK'
    <3>1. \A r \in UploadType : [r EXCEPT !.pc = "discard"] \in UploadType
      BY DEF UploadType
    <3>2. upload \in [Uploads -> UploadType]
      BY DEF StoreTypeOK, UploadType
    <3>3. upload' \in [Uploads -> UploadType]
      BY <2>1, <3>1, <3>2
    <3> QED
      BY <3>3 DEF StoreTypeOK, UploadType
  <2>3. upload[u].pkg \in Packages
    BY DEF OfAPackage
  <2>4. OfAPackage'
    BY <2>1, <2>3 DEF StoreTypeOK, OfAPackage
  <2> QED
    BY <2>2, <2>4
<1>2. \A v \in Uploads :
        /\ upload'[v].blobs = upload[v].blobs
        /\ upload'[v].named = upload[v].named
        /\ upload'[v].pkg = upload[v].pkg
        /\ upload'[v].pc = "post" => upload[v].pc = "post"
  BY DEF StoreTypeOK
<1>3. UploadedAlone' /\ NamedByUpload' /\ NoneIsNew' /\ BlobsAccountedFor'
  BY <1>2 DEF UploadedAlone, NamedByUpload, NoneIsNew, BlobsAccountedFor, InHands
<1>4. FilesApart' /\ FilesOfOneUpload' /\ ReadIsPresent' /\ InstallsOneCreation'
      /\ FilesStay' /\ CommitSeesToBlobs'
  BY DEF FilesApart, FilesOfOneUpload, ReadIsPresent, InstallsOneCreation,
         FilesStay, CommitSeesToBlobs
<1> QED
  BY <1>1, <1>3, <1>4

LEMMA PostFailsKeeps ==
  ASSUME StoreInv, NEW u \in Uploads, PostFails(u)
  PROVE  StoreInv'
<1> USE DEF PostFails, StoreInv
<1>1. StoreTypeOK' /\ OfAPackage'
  BY DEF StoreTypeOK, OfAPackage, NoRequest, Request
<1>2. /\ upload'[u].blobs = {} /\ upload'[u].named = {} /\ upload'[u].pc = "idle"
      /\ \A v \in Uploads \ {u} : upload'[v] = upload[v]
  BY DEF StoreTypeOK, NoRequest, Request
<1>3. UploadedAlone' /\ NamedByUpload' /\ NoneIsNew' /\ BlobsAccountedFor'
  BY <1>2 DEF UploadedAlone, NamedByUpload, NoneIsNew, BlobsAccountedFor,
              InHands
<1>4. FilesApart' /\ FilesOfOneUpload' /\ ReadIsPresent' /\ InstallsOneCreation'
      /\ FilesStay' /\ CommitSeesToBlobs'
  BY DEF FilesApart, FilesOfOneUpload, ReadIsPresent, InstallsOneCreation,
         FilesStay, CommitSeesToBlobs
<1> QED
  BY <1>1, <1>3, <1>4

LEMMA DeleteAllBlobsKeeps ==
  ASSUME StoreInv, NEW u \in Uploads, DeleteAllBlobs(u)
  PROVE  StoreInv'
<1> USE DEF DeleteAllBlobs, StoreInv, Gone, Discarded
<1>1. StoreTypeOK' /\ OfAPackage'
  BY DEF StoreTypeOK, OfAPackage, NoRequest, Request
<1>2. /\ upload'[u].blobs = {} /\ upload'[u].named = {} /\ upload'[u].pc = "idle"
      /\ \A v \in Uploads \ {u} : upload'[v] = upload[v]
  BY DEF StoreTypeOK, NoRequest, Request
<1>3. UploadedAlone' /\ NamedByUpload' /\ NoneIsNew' /\ BlobsAccountedFor'
  BY <1>2 DEF StoreTypeOK, UploadedAlone, NamedByUpload, NoneIsNew, BlobsAccountedFor,
              InHands
<1>4. FilesStay' /\ CommitSeesToBlobs'
  <2>1. \A pkg \in Packages : \A b \in files[pkg] :
          b \in upload[u].blobs => b \in unsure
    BY DEF UploadedAlone, NamedByUpload, InHands
  <2> QED
    BY <2>1 DEF StoreTypeOK, FilesStay, CommitSeesToBlobs
<1>5. FilesApart' /\ FilesOfOneUpload' /\ ReadIsPresent' /\ InstallsOneCreation'
  BY DEF FilesApart, FilesOfOneUpload, ReadIsPresent, InstallsOneCreation
<1> QED
  BY <1>1, <1>3, <1>4, <1>5

LEMMA CreationKeeps ==
  ASSUME StoreInv, NEW u \in Uploads, NEW named \in SUBSET Blobs,
         CreatePackage(u, named) \/ CreationInDoubt(u, named)
  PROVE  StoreInv'
<1> DEFINE pkg == upload[u].pkg
<1>0. Created(u, named)
  BY DEF CreatePackage, CreationInDoubt
<1> USE <1>0 DEF Created, StoreInv, MayCreate
<1>1. pkg \in Packages /\ pkg \notin exists /\ files[pkg] = {}
  BY DEF OfAPackage, FilesOfOneUpload
<1>2. \A p \in Packages : files'[p] = IF p = pkg THEN named ELSE files[p]
  BY <1>1 DEF StoreTypeOK
(* What the request gives away was its own, or it gave it away before.     *)
<1>3. /\ \A b \in named : b \in unsure \/ (blob[b] = "stored" /\ ~InHands(b))
      /\ \A p \in Packages : named \cap files[p] = {}
  <2>1. \A b \in named \ upload[u].named : blob[b] = "stored" /\ ~InHands(b)
    BY DEF UploadedAlone
  <2>2. \A b \in named \cap upload[u].named :
          b \in unsure /\ \A p \in Packages : b \notin files[p]
    BY <1>1 DEF NamedByUpload
  <2> QED
    BY <2>1, <2>2 DEF InHands
<1>4. /\ upload' \in [Uploads -> [pc : {"idle", "post", "retry", "discard"},
                                  pkg : Packages \union {NoPackage},
                                  blobs : SUBSET Blobs, named : SUBSET Blobs]]
      /\ \A v \in Uploads \ {u} : upload'[v] = upload[v]
      /\ leaked \subseteq leaked' /\ leaked' \subseteq Blobs
      /\ unsure \subseteq unsure' /\ unsure' \subseteq Blobs
      /\ upload'[u].blobs \subseteq upload[u].blobs
      /\ upload'[u].blobs \ upload'[u].named
           \subseteq upload[u].blobs \ (upload[u].named \union named)
      /\ upload[u].blobs \ (upload[u].named \union named)
           \subseteq leaked' \union (upload'[u].blobs \ upload'[u].named)
      /\ upload'[u].named \subseteq upload'[u].blobs \cap named \cap unsure'
      /\ upload'[u].pc # "post"
      /\ upload'[u] = NoRequest \/ (upload'[u].pkg = pkg /\ upload'[u].pc # "idle")
  <2>1. upload[u].named = {} \/ upload[u].named = named
    BY DEF NamedByUpload
  <2>2. CASE CreatePackage(u, named)
    BY <2>1, <2>2 DEF CreatePackage, StoreTypeOK, NoRequest, Request
  <2>3. CASE CreationInDoubt(u, named)
    <3>1. /\ leaked' = leaked /\ unsure' = unsure \union named
          /\ upload' = [upload EXCEPT ![u].pc = "retry", ![u].named = named]
      BY <2>3 DEF CreationInDoubt
    <3>2. /\ upload \in [Uploads -> [pc : {"idle", "post", "retry", "discard"},
                                    pkg : Packages \union {NoPackage},
                                    blobs : SUBSET Blobs, named : SUBSET Blobs]]
          /\ leaked \subseteq Blobs /\ unsure \subseteq Blobs
      BY DEF StoreTypeOK
    <3>3. named \subseteq upload[u].blobs
      OBVIOUS
    <3> HIDE <1>0 DEF StoreInv
    <3>4. upload' \in [Uploads -> [pc : {"idle", "post", "retry", "discard"},
                                  pkg : Packages \union {NoPackage},
                                  blobs : SUBSET Blobs, named : SUBSET Blobs]]
      BY <3>1, <3>2
    <3>5. /\ upload'[u].pc = "retry" /\ upload'[u].pkg = pkg
          /\ upload'[u].blobs = upload[u].blobs /\ upload'[u].named = named
          /\ \A v \in Uploads \ {u} : upload'[v] = upload[v]
      BY <3>1, <3>2
    <3> QED
      BY <2>1, <3>1, <3>2, <3>3, <3>4, <3>5
  <2> QED
    BY <2>2, <2>3
<1>5. /\ deletion' \in [Deletions -> TransactionRecords]
      /\ \A d \in Deletions :
           /\ deletion[d].pkg # pkg => deletion'[d] = deletion[d]
           /\ deletion'[d].pc = deletion[d].pc
           /\ deletion'[d].pkg = deletion[d].pkg
           /\ deletion'[d].blobs = deletion[d].blobs
           /\ deletion'[d].stale <=> (deletion[d].stale \/ deletion[d].pkg = pkg)
  <2>1. deletion \in [Deletions -> TransactionRecords]
    BY DEF StoreTypeOK, TransactionRecords
  <2>2. deletion' = Outdated(pkg)
    OBVIOUS
  <2> HIDE <1>0 DEF Created, pkg
  <2> QED
    BY <2>1, <2>2, OutdatedDeletions
<1>6. StoreTypeOK'
  <2>1. files' \in [Packages -> SUBSET Blobs] /\ exists' \subseteq Packages
    BY <1>1 DEF StoreTypeOK
  <2>2. deletion' \in [Deletions -> [pc : {"idle", "read", "commit"},
                                    pkg : Packages \union {NoPackage},
                                    blobs : SUBSET Blobs, stale : BOOLEAN]]
    BY <1>5 DEF TransactionRecords
  <2>3. created' \subseteq Packages \X SUBSET Blobs
    BY <1>1 DEF StoreTypeOK
  <2> QED
    BY <2>1, <2>2, <2>3, <1>4 DEF StoreTypeOK
<1>7. UploadedAlone' /\ NoneIsNew'
  <2>1. \A b \in Blobs : InHands(b)' => InHands(b) \/ b \in named
    BY <1>2, <1>5 DEF InHands
  <2>2. \A v \in Uploads \ {u} : named \cap upload[v].blobs = {}
    BY DEF UploadedAlone
  <2>3. UploadedAlone'
    <3>1. \A v \in Uploads : \A b \in upload'[v].blobs \ upload'[v].named :
            b \in upload[v].blobs \ upload[v].named /\ b \notin named
      BY <2>2, <1>4
    <3>2. \A v \in Uploads : \A b \in upload'[v].blobs \ upload'[v].named :
            blob'[b] = "stored" /\ ~InHands(b)'
      BY <3>1, <2>1 DEF UploadedAlone, StoreTypeOK
    <3>3. \A v \in Uploads : upload'[v].blobs \subseteq upload[v].blobs
      BY <1>4
    <3> QED
      BY <3>2, <3>3 DEF UploadedAlone
  <2>4. \A v \in Uploads : upload'[v].blobs \subseteq upload[v].blobs
    BY <1>4
  <2> QED
    BY <2>1, <2>3, <2>4 DEF NoneIsNew
<1>15. NamedByUpload'
  <2>1. \A v \in Uploads \ {u} : named \cap upload[v].named = {}
    BY DEF UploadedAlone, NamedByUpload
  <2>2. ASSUME NEW v \in Uploads \ {u}
        PROVE  /\ upload'[v].named \subseteq upload'[v].blobs \cap unsure'
               /\ upload'[v].pc = "post" => upload'[v].named = {}
               /\ \A p \in Packages :
                    p # upload'[v].pkg => upload'[v].named \cap files'[p] = {}
    BY <2>1, <1>2, <1>4 DEF NamedByUpload
  <2>3. \A p \in Packages :
          p # upload'[u].pkg => upload'[u].named \cap files'[p] = {}
    <3>1. CASE upload'[u] = NoRequest
      BY <3>1 DEF NoRequest, Request
    <3>2. CASE upload'[u].pkg = pkg
      BY <3>2, <1>2, <1>3, <1>4
    <3> QED
      BY <3>1, <3>2, <1>4
  <2> QED
    BY <2>2, <2>3, <1>4 DEF NamedByUpload
<1>8. OfAPackage'
  <2>1. NoTransaction.pkg # pkg /\ NoRequest.pc = "idle"
    BY <1>1, NoPackageAssumption DEF NoTransaction, Transaction, NoRequest, Request
  <2>2. \A d \in Deletions : IF deletion[d].pc = "idle" THEN deletion[d] = NoTransaction
                                                     ELSE deletion[d].pkg \in Packages
    BY DEF OfAPackage
  <2>3. \A d \in Deletions : IF deletion'[d].pc = "idle" THEN deletion'[d] = NoTransaction
                                                      ELSE deletion'[d].pkg \in Packages
    BY <2>1, <2>2, <1>5
  <2>5. \A v \in Uploads : IF upload'[v].pc = "idle" THEN upload'[v] = NoRequest
                                                    ELSE upload'[v].pkg \in Packages
    BY <2>1, <1>1, <1>4 DEF OfAPackage
  <2>6. UNCHANGED install
    OBVIOUS
  <2> HIDE <1>0 DEF Created, StoreInv
  <2> QED
    BY <2>3, <2>5, <2>6 DEF OfAPackage, StoreInv
<1>9. FilesApart'
  BY <1>2, <1>3 DEF FilesApart, InHands
<1>10. FilesOfOneUpload'
  BY <1>1, <1>2 DEF FilesOfOneUpload
<1>11. ReadIsPresent'
  <2> SUFFICES ASSUME NEW d \in Deletions, deletion'[d].pc # "idle"
               PROVE  IF deletion'[d].stale
                      THEN \A p \in Packages :
                             deletion'[d].blobs \cap files'[p] \subseteq unsure'
                      ELSE deletion'[d].blobs = files'[deletion'[d].pkg]
    BY DEF ReadIsPresent
  <2>1. deletion[d].pkg \in Packages /\ deletion[d].pc # "idle"
    BY <1>5 DEF OfAPackage
  <2>2. deletion[d].blobs \cap named \subseteq unsure'
    BY <1>3, <1>4 DEF InHands
  <2>3. CASE deletion[d].stale
    <3>1. \A p \in Packages : deletion[d].blobs \cap files[p] \subseteq unsure'
      BY <2>1, <2>3, <1>4 DEF ReadIsPresent
    <3> QED
      BY <3>1, <2>2, <2>3, <1>2, <1>5
  <2>4. CASE ~deletion[d].stale
    <3>1. deletion[d].blobs = files[deletion[d].pkg]
      BY <2>1, <2>4 DEF ReadIsPresent
    <3>2. CASE deletion[d].pkg = pkg
      BY <3>1, <3>2, <1>1, <1>5
    <3>3. CASE deletion[d].pkg # pkg
      BY <3>1, <3>3, <2>1, <2>4, <1>2, <1>5
    <3> QED
      BY <3>2, <3>3
  <2> QED
    BY <2>3, <2>4
<1>12. FilesStay' /\ CommitSeesToBlobs'
  <2>1. ASSUME NEW p \in Packages, NEW b \in files'[p]
        PROVE  \/ blob'[b] = "stored" /\ b \notin dying'
               \/ b \in orphaned' \union unsure'
               \/ \E d \in Deletions : /\ deletion'[d].pc = "commit"
                                       /\ b \in deletion'[d].blobs
    <3>1. CASE b \in named
      BY <3>1, <1>3, <1>4 DEF InHands
    <3>2. CASE b \notin named
      <4>1. b \in files[p]
        BY <3>2, <1>2
      <4> QED
        BY <4>1, <1>4, <1>5 DEF FilesStay
    <3> QED
      BY <3>1, <3>2
  <2>2. FilesStay'
    BY <2>1 DEF FilesStay
  <2>3. CommitSeesToBlobs'
    BY <1>4, <1>5 DEF CommitSeesToBlobs
  <2> QED
    BY <2>2, <2>3
<1>13. BlobsAccountedFor'
  <2> SUFFICES ASSUME NEW b \in Blobs, blob'[b] = "stored",
                      b \notin leaked' \union dying',
                      \A p \in Packages : b \notin files'[p]
               PROVE  \E v \in Uploads : b \in upload'[v].blobs \ upload'[v].named
    BY DEF BlobsAccountedFor
  <2>1. /\ b \notin leaked \union dying /\ blob[b] = "stored"
        /\ \A p \in Packages : b \notin files[p]
        /\ b \notin named
    BY <1>1, <1>2, <1>4
  <2>2. PICK v \in Uploads : b \in upload[v].blobs \ upload[v].named
    BY <2>1 DEF BlobsAccountedFor
  <2> QED
    BY <2>1, <2>2, <1>4
<1>14. InstallsOneCreation'
  BY DEF InstallsOneCreation
<1> QED
  BY <1>6, <1>7, <1>8, <1>9, <1>10, <1>11, <1>12, <1>13, <1>14,
     <1>15

-----------------------------------------------------------------------------
(* Deletions.                                                              *)

LEMMA ReadPackageFilesKeeps ==
  ASSUME StoreInv, NEW d \in Deletions, NEW pkg \in Packages,
         ReadPackageFiles(d, pkg)
  PROVE  StoreInv'
<1> USE DEF ReadPackageFiles, StoreInv
<1>1. \A e \in Deletions :
        IF e = d THEN /\ deletion'[e].pc = "read" /\ deletion'[e].pkg = pkg
                      /\ deletion'[e].blobs = files[pkg]
                      /\ deletion'[e].stale = FALSE
        ELSE deletion'[e] = deletion[e]
  BY DEF StoreTypeOK, Transaction
<1>2. StoreTypeOK'
  BY DEF StoreTypeOK, Transaction
<1>3. UploadedAlone' /\ NamedByUpload' /\ NoneIsNew'
  BY <1>1 DEF UploadedAlone, NamedByUpload, NoneIsNew, InHands
<1>4. OfAPackage' /\ ReadIsPresent'
  BY <1>1 DEF OfAPackage, ReadIsPresent
<1>5. deletion[d].pc = "commit" =>
        \A p \in Packages : deletion[d].blobs \cap files[p] \subseteq unsure
  BY DEF ReadIsPresent
<1>6. FilesStay' /\ CommitSeesToBlobs'
  BY <1>1, <1>5 DEF FilesStay, CommitSeesToBlobs
<1>7. FilesApart' /\ FilesOfOneUpload' /\ BlobsAccountedFor' /\ InstallsOneCreation'
  BY DEF FilesApart, FilesOfOneUpload, BlobsAccountedFor, InstallsOneCreation
<1> QED
  BY <1>2, <1>3, <1>4, <1>6, <1>7

LEMMA DeleteAsyncKeeps ==
  ASSUME StoreInv, NEW d \in Deletions, DeleteAsync(d)
  PROVE  StoreInv'
<1> USE DEF DeleteAsync, StoreInv
<1>1. \A e \in Deletions :
        /\ deletion'[e].pc = IF e = d THEN "commit" ELSE deletion[e].pc
        /\ deletion'[e].pkg = deletion[e].pkg
        /\ deletion'[e].blobs = deletion[e].blobs
        /\ deletion'[e].stale = deletion[e].stale
  BY DEF StoreTypeOK
<1>2. StoreTypeOK'
  BY SMTT(30) DEF StoreTypeOK
<1>3. \A b \in Blobs : InHands(b)' => InHands(b)
  BY <1>1 DEF InHands
<1>4. UploadedAlone' /\ NamedByUpload' /\ NoneIsNew'
  BY <1>3 DEF UploadedAlone, NamedByUpload, NoneIsNew, StoreTypeOK
<1>5. OfAPackage' /\ ReadIsPresent'
  BY <1>1 DEF OfAPackage, ReadIsPresent, StoreTypeOK
<1>6. FilesStay' /\ CommitSeesToBlobs'
  BY <1>1 DEF FilesStay, CommitSeesToBlobs, StoreTypeOK
<1>7. FilesApart' /\ FilesOfOneUpload' /\ BlobsAccountedFor' /\ InstallsOneCreation'
  BY DEF FilesApart, FilesOfOneUpload, BlobsAccountedFor, InstallsOneCreation
<1> QED
  BY <1>2, <1>4, <1>5, <1>6, <1>7

LEMMA CommitDeleteKeeps ==
  ASSUME StoreInv, NEW d \in Deletions, CommitDelete(d)
  PROVE  StoreInv'
<1> DEFINE pkg == deletion[d].pkg
<1> USE DEF CommitDelete, StoreInv
<1>1. pkg \in Packages /\ deletion[d].blobs = files[pkg]
  BY DEF OfAPackage, ReadIsPresent
<1>2. \A p \in Packages : files'[p] = IF p = pkg THEN {} ELSE files[p]
  BY <1>1 DEF StoreTypeOK
<1>3. deletion' = [Outdated(pkg) EXCEPT ![d] = NoTransaction]
  OBVIOUS
<1>4. /\ Outdated(pkg) \in [Deletions -> TransactionRecords]
      /\ \A e \in Deletions :
           /\ deletion[e].pkg # pkg => Outdated(pkg)[e] = deletion[e]
           /\ Outdated(pkg)[e].pc = deletion[e].pc
           /\ Outdated(pkg)[e].pkg = deletion[e].pkg
           /\ Outdated(pkg)[e].blobs = deletion[e].blobs
           /\ Outdated(pkg)[e].stale <=> (deletion[e].stale \/ deletion[e].pkg = pkg)
  <2>1. deletion \in [Deletions -> TransactionRecords]
    BY DEF StoreTypeOK, TransactionRecords
  <2> HIDE DEF CommitDelete, pkg, StoreInv
  <2> QED
    BY <2>1, OutdatedDeletions
<1>5. /\ deletion'[d] = NoTransaction
      /\ \A e \in Deletions \ {d} :
           /\ deletion[e].pkg # pkg => deletion'[e] = deletion[e]
           /\ deletion'[e].pc = deletion[e].pc
           /\ deletion'[e].pkg = deletion[e].pkg
           /\ deletion'[e].blobs = deletion[e].blobs
           /\ deletion'[e].stale <=> (deletion[e].stale \/ deletion[e].pkg = pkg)
  <2> HIDE DEF CommitDelete, pkg, StoreInv
  <2> QED
    BY <1>3, <1>4
<1>6. /\ deletion'[d].pc = "idle" /\ deletion'[d].blobs = {}
  BY <1>5 DEF NoTransaction, Transaction
<1>7. StoreTypeOK'
  <2>1. files' \in [Packages -> SUBSET Blobs] /\ exists' \subseteq Packages
    BY <1>1 DEF StoreTypeOK
  <2>2. deletion' \in [Deletions -> [pc : {"idle", "read", "commit"},
                                    pkg : Packages \union {NoPackage},
                                    blobs : SUBSET Blobs, stale : BOOLEAN]]
    <3>1. NoTransaction \in TransactionRecords
      BY DEF NoTransaction, Transaction, TransactionRecords
    <3>2. deletion' \in [Deletions -> TransactionRecords]
      <4> HIDE DEF CommitDelete, pkg, StoreInv
      <4> QED
        BY <3>1, <1>3, <1>4
    <3> QED
      BY <3>2 DEF TransactionRecords
  <2> QED
    BY <2>1, <2>2 DEF StoreTypeOK
<1>8. \A b \in Blobs : InHands(b)' => InHands(b)
  BY <1>2, <1>5, <1>6 DEF InHands
<1>9. UploadedAlone' /\ NamedByUpload' /\ NoneIsNew'
  BY <1>2, <1>8 DEF UploadedAlone, NamedByUpload, NoneIsNew, StoreTypeOK
<1>10. OfAPackage'
  <2>1. \A e \in Deletions : IF deletion'[e].pc = "idle" THEN deletion'[e] = NoTransaction
                                                      ELSE deletion'[e].pkg \in Packages
    <3>1. NoTransaction.pkg # pkg /\ NoTransaction.pc = "idle"
      BY <1>1, NoPackageAssumption DEF NoTransaction, Transaction
    <3>2. \A e \in Deletions : IF deletion[e].pc = "idle" THEN deletion[e] = NoTransaction
                                                       ELSE deletion[e].pkg \in Packages
      BY DEF OfAPackage
    <3> HIDE DEF CommitDelete, pkg, StoreInv
    <3> QED
      BY <3>1, <3>2, <1>5
  <2> QED
    BY <2>1 DEF OfAPackage
<1>11. FilesApart' /\ FilesOfOneUpload'
  BY <1>1, <1>2 DEF FilesApart, FilesOfOneUpload
<1>12. ReadIsPresent'
  <2>1. \A e \in Deletions, p \in Packages :
          deletion[e].pc # "idle" /\ ~deletion[e].stale /\ deletion[e].pkg = pkg
            => deletion[e].blobs \cap files'[p] = {}
    BY <1>1, <1>2 DEF ReadIsPresent, FilesApart
  <2> SUFFICES ASSUME NEW e \in Deletions, deletion'[e].pc # "idle"
               PROVE  IF deletion'[e].stale
                      THEN \A p \in Packages :
                             deletion'[e].blobs \cap files'[p] \subseteq unsure
                      ELSE deletion'[e].blobs = files'[deletion'[e].pkg]
    BY DEF ReadIsPresent
  <2>2. e # d /\ deletion[e].pkg \in Packages /\ deletion[e].pc # "idle"
    BY <1>5, <1>6 DEF OfAPackage
  <2>3. CASE deletion[e].stale
    <3>1. \A p \in Packages : deletion[e].blobs \cap files[p] \subseteq unsure
      BY <2>2, <2>3 DEF ReadIsPresent
    <3> QED
      BY <3>1, <2>2, <2>3, <1>2, <1>5
  <2>4. CASE ~deletion[e].stale
    <3>1. deletion[e].blobs = files[deletion[e].pkg]
      BY <2>2, <2>4 DEF ReadIsPresent
    <3>2. CASE deletion[e].pkg = pkg
      BY <3>2, <2>1, <2>2, <2>4, <1>5
    <3>3. CASE deletion[e].pkg # pkg
      BY <3>1, <3>3, <2>2, <2>4, <1>2, <1>5
    <3> QED
      BY <3>2, <3>3
  <2> QED
    BY <2>3, <2>4
<1>13. FilesStay'
  <2> SUFFICES ASSUME NEW p \in Packages, NEW b \in files'[p]
               PROVE  \/ blob[b] = "stored" /\ b \notin dying
                      \/ b \in orphaned \union unsure
                      \/ \E e \in Deletions : deletion'[e].pc = "commit"
                                             /\ b \in deletion'[e].blobs
    BY DEF FilesStay
  <2>1. p # pkg /\ b \in files[p]
    BY <1>2
  <2>2. b \notin deletion[d].blobs
    BY <2>1, <1>1 DEF FilesApart
  <2> QED
    BY <2>1, <2>2, <1>5 DEF FilesStay
<1>14. CommitSeesToBlobs'
  BY <1>5, <1>6 DEF CommitSeesToBlobs
<1>15. BlobsAccountedFor'
  BY <1>1, <1>2 DEF BlobsAccountedFor, CommitSeesToBlobs
<1>16. InstallsOneCreation'
  BY DEF InstallsOneCreation
<1> QED
  BY <1>7, <1>9, <1>10, <1>11, <1>12, <1>13, <1>14, <1>15, <1>16

LEMMA DeleteFailsKeeps ==
  ASSUME StoreInv, NEW d \in Deletions, DeleteFails(d)
  PROVE  StoreInv'
<1> USE DEF DeleteFails, StoreInv
<1>1. \A e \in Deletions : deletion'[e] = IF e = d THEN NoTransaction ELSE deletion[e]
  BY DEF StoreTypeOK
<1>2. NoTransaction.pc = "idle" /\ NoTransaction.blobs = {}
  BY DEF NoTransaction, Transaction
<1>3. StoreTypeOK'
  BY DEF StoreTypeOK, NoTransaction, Transaction
<1>4. \A b \in Blobs : InHands(b)' => InHands(b)
  BY <1>1, <1>2 DEF InHands
<1>5. UploadedAlone' /\ NamedByUpload' /\ NoneIsNew'
  BY <1>4 DEF UploadedAlone, NamedByUpload, NoneIsNew, StoreTypeOK
<1>6. OfAPackage' /\ ReadIsPresent'
  BY <1>1, <1>2 DEF OfAPackage, ReadIsPresent
<1>7. FilesStay' /\ CommitSeesToBlobs'
  BY <1>1, <1>2 DEF FilesStay, CommitSeesToBlobs
<1>8. FilesApart' /\ FilesOfOneUpload' /\ BlobsAccountedFor' /\ InstallsOneCreation'
  BY DEF FilesApart, FilesOfOneUpload, BlobsAccountedFor, InstallsOneCreation
<1> QED
  BY <1>3, <1>5, <1>6, <1>7, <1>8

(* The blobstore gets to a blob that it is to delete, or fails to.         *)
LEMMA DyingEnds ==
  ASSUME StoreInv, NEW b \in Blobs, BlobDeleted(b) \/ DeleteAsyncFails(b)
  PROVE  StoreInv'
<1> USE DEF BlobDeleted, DeleteAsyncFails, StoreInv, Gone
<1>1. StoreTypeOK'
  BY DEF StoreTypeOK
<1>2. \A c \in Blobs : /\ InHands(c)' => InHands(c)
                       /\ blob'[c] # blob[c] => c = b
                       /\ blob'[c] = blob[c] \/ blob'[c] = "gone"
  BY DEF StoreTypeOK, InHands
<1>3. b \in dying /\ UNCHANGED <<upload, files, deletion, install, created>>
  OBVIOUS
<1>4. UploadedAlone' /\ NamedByUpload' /\ NoneIsNew'
  BY <1>2, <1>3 DEF UploadedAlone, NamedByUpload, NoneIsNew, StoreTypeOK, InHands
<1>5. FilesStay' /\ CommitSeesToBlobs' /\ BlobsAccountedFor'
  BY <1>2, <1>3 DEF FilesStay, CommitSeesToBlobs, BlobsAccountedFor, StoreTypeOK
<1>6. FilesApart' /\ FilesOfOneUpload' /\ ReadIsPresent' /\ InstallsOneCreation'
      /\ OfAPackage'
  BY DEF FilesApart, FilesOfOneUpload, ReadIsPresent, InstallsOneCreation, OfAPackage
<1> QED
  BY <1>1, <1>4, <1>5, <1>6

-----------------------------------------------------------------------------
(* Installations change nothing but their own state.                       *)

LEMMA InstallsKeep ==
  ASSUME StoreInv,
         NEW i \in Installs,
         \/ \E pkg \in Packages : GetPackage(i, pkg)
         \/ GetPackageFiles(i)
         \/ \E b \in Blobs : DownloadAndInstallFile(i, b)
         \/ EndInstall(i)
  PROVE  StoreInv'
<1> USE DEF StoreInv
<1>1. UNCHANGED <<exists, files, blob, dying, upload, deletion, created, orphaned,
                  leaked, unsure>>
  BY DEF GetPackage, GetPackageFiles, DownloadAndInstallFile, EndInstall
<1>2. /\ StoreTypeOK' /\ InstallsOneCreation'
      /\ \A j \in Installs : install'[j].pc # "idle" => install'[j].pkg \in Packages
  <2>1. CASE \E pkg \in Packages : GetPackage(i, pkg)
    BY <2>1 DEF GetPackage, StoreTypeOK, InstallsOneCreation, OfAPackage, Install
  <2>2. CASE GetPackageFiles(i)
    <3>1. install[i].pkg \in Packages
      BY <2>2 DEF GetPackageFiles, OfAPackage
    <3>2. \/ files[install[i].pkg] = {}
          \/ <<install[i].pkg, files[install[i].pkg]>> \in created
      BY <3>1 DEF FilesOfOneUpload
    <3> QED
      BY <2>2, <3>1, <3>2
         DEF GetPackageFiles, StoreTypeOK, InstallsOneCreation, OfAPackage, Install
  <2>3. ASSUME NEW b \in Blobs, DownloadAndInstallFile(i, b)
        PROVE  /\ StoreTypeOK' /\ InstallsOneCreation'
               /\ \A j \in Installs : install'[j].pc # "idle" => install'[j].pkg \in Packages
    <3>1. CASE blob[b] = "stored"
      <4> DEFINE r == install'[i]
      <4>1. /\ r.pc = "download" /\ r.pkg = install[i].pkg
            /\ r.todo = install[i].todo \ {b} /\ r.got = install[i].got \union {b}
        BY <2>3, <3>1 DEF DownloadAndInstallFile, AfterDownload, StoreTypeOK
      <4>2. r.todo \union r.got = install[i].todo \union install[i].got
        BY <4>1, <2>3 DEF DownloadAndInstallFile
      <4>3. \A j \in Installs \ {i} : install'[j] = install[j]
        BY <2>3 DEF DownloadAndInstallFile, StoreTypeOK
      <4>4. StoreTypeOK'
        <5>1. r \in [pc : {"idle", "found", "download"}, pkg : Packages \union {NoPackage},
                     todo : SUBSET Blobs, got : SUBSET Blobs]
          <6> DEFINE s == install[i]
          <6>1. s \in [pc : {"idle", "found", "download"}, pkg : Packages \union {NoPackage},
                       todo : SUBSET Blobs, got : SUBSET Blobs]
            BY DEF StoreTypeOK
          <6>2. r = [s EXCEPT !.todo = s.todo \ {b}, !.got = s.got \union {b}]
            BY <2>3, <3>1 DEF DownloadAndInstallFile, AfterDownload, StoreTypeOK
          <6> HIDE DEF r, s
          <6> QED
            BY <6>1, <6>2
        <5>2. r.todo \cap r.got = {}
          BY <4>1 DEF StoreTypeOK
        <5> HIDE DEF r
        <5>3. install' = [install EXCEPT ![i] = r]
          BY <2>3 DEF DownloadAndInstallFile, StoreTypeOK, r
        <5> QED
          BY <2>3, <5>1, <5>2, <5>3 DEF DownloadAndInstallFile, StoreTypeOK
      <4> QED
        BY <4>1, <4>2, <4>3, <4>4, <1>1, <2>3
           DEF DownloadAndInstallFile, InstallsOneCreation, OfAPackage
    <3>2. CASE blob[b] # "stored"
      BY <2>3, <3>2 DEF DownloadAndInstallFile, AfterDownload, StoreTypeOK,
         InstallsOneCreation, OfAPackage, NoInstall, Install
    <3> QED
      BY <3>1, <3>2
  <2>4. CASE EndInstall(i)
    BY <2>4 DEF EndInstall, StoreTypeOK, InstallsOneCreation, OfAPackage, NoInstall,
                Install
  <2> QED
    BY <2>1, <2>2, <2>3, <2>4
<1>3. /\ UploadedAlone' /\ NamedByUpload' /\ NoneIsNew' /\ BlobsAccountedFor'
      /\ CommitSeesToBlobs'
  BY <1>1 DEF UploadedAlone, NamedByUpload, NoneIsNew, InHands, BlobsAccountedFor,
              CommitSeesToBlobs
<1>4. FilesApart' /\ FilesOfOneUpload' /\ ReadIsPresent' /\ FilesStay'
  BY <1>1 DEF FilesApart, FilesOfOneUpload, ReadIsPresent, FilesStay
<1>5. OfAPackage'
  BY <1>1, <1>2 DEF OfAPackage
<1> QED
  BY <1>2, <1>3, <1>4, <1>5

-----------------------------------------------------------------------------
(* Every step keeps the invariant.                                         *)
LEMMA StoreInvStep == StoreInv /\ [Next]_vars => StoreInv'
<1> SUFFICES ASSUME StoreInv, [Next]_vars PROVE StoreInv'
  OBVIOUS
<1>1. ASSUME NEW u \in Uploads, NEW pkg \in Packages, NEW S \in SUBSET Blobs,
             StoreBlobs(u, pkg, S)
      PROVE  StoreInv'
  BY <1>1, StoreBlobsKeeps
<1>2. ASSUME NEW u \in Uploads, RejectManifest(u) \/ DuplicatePackageError(u)
      PROVE  StoreInv'
  BY <1>2, DiscardsKeeps DEF RejectManifest, DuplicatePackageError, Discards
<1>3. ASSUME NEW u \in Uploads, PostFails(u) PROVE StoreInv'
  BY <1>3, PostFailsKeeps
<1>4. ASSUME NEW u \in Uploads, NEW named \in SUBSET Blobs,
             CreatePackage(u, named) \/ CreationInDoubt(u, named)
      PROVE  StoreInv'
  BY <1>4, CreationKeeps
<1>5. ASSUME NEW u \in Uploads, DeleteAllBlobs(u) PROVE StoreInv'
  BY <1>5, DeleteAllBlobsKeeps
<1>6. ASSUME NEW d \in Deletions, NEW pkg \in Packages, ReadPackageFiles(d, pkg)
      PROVE  StoreInv'
  BY <1>6, ReadPackageFilesKeeps
<1>7. ASSUME NEW d \in Deletions, DeleteAsync(d) PROVE StoreInv'
  BY <1>7, DeleteAsyncKeeps
<1>8. ASSUME NEW d \in Deletions, CommitDelete(d) PROVE StoreInv'
  BY <1>8, CommitDeleteKeeps
<1>9. ASSUME NEW d \in Deletions, DeleteFails(d) PROVE StoreInv'
  BY <1>9, DeleteFailsKeeps
<1>10. ASSUME NEW b \in Blobs, BlobDeleted(b) \/ DeleteAsyncFails(b) PROVE StoreInv'
  BY <1>10, DyingEnds
<1>11. ASSUME NEW i \in Installs,
              \/ \E pkg \in Packages : GetPackage(i, pkg)
              \/ GetPackageFiles(i)
              \/ \E b \in Blobs : DownloadAndInstallFile(i, b)
              \/ EndInstall(i)
       PROVE  StoreInv'
  BY <1>11, InstallsKeep
<1>12. CASE UNCHANGED vars
  BY <1>12 DEF vars, StoreInv, StoreTypeOK, UploadedAlone, NamedByUpload, NoneIsNew, InHands,
     OfAPackage, FilesApart, FilesOfOneUpload, ReadIsPresent, FilesStay,
     CommitSeesToBlobs, BlobsAccountedFor, InstallsOneCreation
<1> QED
  BY <1>1, <1>2, <1>3, <1>4, <1>5, <1>6, <1>7, <1>8, <1>9, <1>10, <1>11, <1>12
     DEF Next

THEOREM StoreInvariance == Spec => []StoreInv
<1> QED
  BY StoreInvInit, StoreInvStep, PTL DEF Spec

-----------------------------------------------------------------------------
(* What follows.                                                           *)

(* Entities, blobs and requests are well formed. *)
THEOREM StoreTypeCorrect == Spec => []StoreTypeOK
<1>1. StoreInv => StoreTypeOK
  BY DEF StoreInv
<1> QED
  BY <1>1, StoreInvariance, PTL

(* A package has the files of one creation. *)
THEOREM OneCreation == Spec => []FilesOfOneUpload
<1>1. StoreInv => FilesOfOneUpload
  BY DEF StoreInv
<1> QED
  BY <1>1, StoreInvariance, PTL

(* The files of a package can be downloaded until it is being deleted, or *)
(* its request takes it for a duplicate of itself.                        *)
THEOREM FilesCanBeDownloaded == Spec => []FilesHaveBlobs
<1>1. StoreInv => FilesHaveBlobs
  BY DEF StoreInv, FilesStay, FilesHaveBlobs
<1> QED
  BY <1>1, StoreInvariance, PTL

(* No blob is lost but on the paths known for it. *)
THEOREM NoBlobLost == Spec => []BlobsAccountedFor
<1>1. StoreInv => BlobsAccountedFor
  BY DEF StoreInv
<1> QED
  BY <1>1, StoreInvariance, PTL

(* An installation is a whole package or an empty directory. *)
THEOREM InstallsAreWhole == Spec => []InstallIsWholeOrEmpty
<1>1. StoreInv => InstallIsWholeOrEmpty
  <2> SUFFICES ASSUME StoreInv, NEW i \in Installs, Installed(i)
               PROVE  \/ install[i].got = {}
                      \/ <<install[i].pkg, install[i].got>> \in created
    BY DEF InstallIsWholeOrEmpty
  <2>1. install[i].todo \union install[i].got = install[i].got
    BY DEF Installed
  <2> QED
    BY <2>1 DEF StoreInv, InstallsOneCreation, Installed
<1> QED
  BY <1>1, StoreInvariance, PTL

-----------------------------------------------------------------------------
(* RecordFiles.  A file is a sequence of pieces, the fragments of the      *)
(* records in their order; from where they are follows what a reader that  *)
(* stops after any of them finds there.                                    *)

(* Blocks.                                                                 *)

Block(p) == p \div BlockSize
Bound(p) == p - (p % BlockSize) + BlockSize

(* The sizes of blocks, headers and buffers. *)
LEMMA Sizes ==
  /\ BlockSize \in Nat \ {0} /\ HeaderLength \in Nat \ {0} /\ BlockSize > HeaderLength
  /\ BufferSize \in Nat \ {0} /\ Capacity \in Nat \ {0} /\ Capacity + HeaderLength = BlockSize
  BY RecordFilesAssumption DEF Capacity

(* Multiples of w compare as what is multiplied. *)
LEMMA Multiples ==
  ASSUME NEW w \in Nat \ {0}, NEW x \in Int, NEW y \in Int, w * x < w * y + w
  PROVE  x <= y
<1> SUFFICES ASSUME x >= y + 1 PROVE FALSE
  OBVIOUS
<1> DEFINE d == x - (y + 1)
<1>1. d \in Nat /\ x = d + y + 1
  OBVIOUS
<1> HIDE DEF d
<1>2. w * d \in Nat
  BY <1>1
<1>3. w * x = w * d + w * y + w
  BY <1>1
<1> QED
  BY <1>2, <1>3

(* Where the block of a place begins and ends. *)
LEMMA BoundIs ==
  ASSUME NEW p \in Nat
  PROVE  /\ Block(p) \in Nat /\ Bound(p) \in Nat /\ p < Bound(p) /\ Bound(p) <= p + BlockSize
         /\ Bound(p) = BlockSize * Block(p) + BlockSize
         /\ p % BlockSize \in 0..BlockSize - 1
         /\ p = BlockSize * Block(p) + (p % BlockSize)
         /\ Bound(p) - p = BlockSize - (p % BlockSize)
<1>1. BlockSize \in Nat \ {0}
  BY Sizes
<1>2. p < (p + 1) * BlockSize
  <2> DEFINE d == BlockSize - 1
  <2>1. d \in Nat /\ BlockSize = d + 1
    BY <1>1
  <2> HIDE DEF d
  <2>2. (p + 1) * (d + 1) = p * d + p + d + 1 /\ p * d \in Nat
    BY <2>1
  <2> QED
    BY <2>1, <2>2
<1>3. /\ p \div BlockSize \in Nat /\ p % BlockSize \in 0..BlockSize - 1
      /\ p = BlockSize * (p \div BlockSize) + (p % BlockSize)
  <2> DEFINE c == p + 1
  <2>1. c \in Nat /\ p < c * BlockSize
    BY <1>2
  <2> HIDE DEF c
  <2> QED
    BY <1>1, <2>1, DivMod
<1> DEFINE a == p \div BlockSize
           r == p % BlockSize
<1>4. BlockSize * a \in Nat
  BY <1>1, <1>3
<1> DEFINE x == BlockSize * a
<1>5. x \in Nat /\ p = x + r /\ r \in 0..BlockSize - 1
  BY <1>3, <1>4
<1> HIDE DEF x, a, r
<1>6. p - r + BlockSize = x + BlockSize
  BY <1>5, <1>1
<1> QED
  BY <1>1, <1>3, <1>5, <1>6 DEF Block, Bound, x, a, r

(* The end of a block is the beginning of one. *)
LEMMA BoundOfMultiple ==
  ASSUME NEW p \in Nat
  PROVE  /\ Bound(p) % BlockSize = 0
         /\ p % BlockSize = 0 <=> Bound(p) = p + BlockSize
         /\ p % BlockSize = 0 <=> p = BlockSize * Block(p)
<1>1. BlockSize \in Nat \ {0} /\ Bound(p) \in Nat
  BY Sizes, BoundIs
<1> DEFINE q == Bound(p)
           b == Block(q)
           c == Block(p)
           x == BlockSize * b
           y == BlockSize * c
<1>2. q = x + (q % BlockSize) /\ q % BlockSize \in 0..BlockSize - 1 /\ b \in Nat
  BY <1>1, BoundIs
<1>3. q = y + BlockSize /\ c \in Nat
  BY BoundIs
<1>4. x \in Nat /\ y \in Nat
  BY <1>1, <1>2, <1>3
<1>5. BlockSize * b < BlockSize * (c + 1) + BlockSize
  <2>1. BlockSize * (c + 1) = y + BlockSize
    BY <1>1, <1>3
  <2> HIDE DEF q, b, c
  <2> QED
    BY <1>1, <1>2, <1>3, <1>4, <2>1
<1>6. BlockSize * (c + 1) < BlockSize * b + BlockSize
  <2>1. BlockSize * (c + 1) = y + BlockSize
    BY <1>1, <1>3
  <2> HIDE DEF q, b, c
  <2> QED
    BY <1>1, <1>2, <1>3, <1>4, <2>1
<1>7. b <= c + 1 /\ c + 1 <= b
  <2> HIDE DEF b, c
  <2> QED
    BY <1>1, <1>2, <1>3, <1>5, <1>6, Multiples
<1>8. b = c + 1
  BY <1>2, <1>3, <1>7
<1>9. x = y + BlockSize
  BY <1>1, <1>3, <1>8
<1>10. q % BlockSize = 0
  <2> HIDE DEF x, y, b, c, q
  <2> QED
    BY <1>1, <1>2, <1>3, <1>4, <1>9
<1>11. /\ p \in Nat /\ q \in Nat /\ q - p = BlockSize - (p % BlockSize)
       /\ p % BlockSize \in 0..BlockSize - 1 /\ p = y + (p % BlockSize)
  BY <1>1, BoundIs
<1>12. p % BlockSize = 0 <=> q = p + BlockSize
  <2> HIDE DEF x, y, b, c, q
  <2> QED
    BY <1>1, <1>11
<1>13. p % BlockSize = 0 <=> p = y
  <2> HIDE DEF x, y, b, c, q
  <2> QED
    BY <1>1, <1>4, <1>11
<1> QED
  BY <1>10, <1>12, <1>13

(* Places up to the end of a block are in it, and none beyond it is. *)
LEMMA SameBlock ==
  ASSUME NEW p \in Nat, NEW q \in Nat
  PROVE  /\ p <= q /\ q < Bound(p) => Block(q) = Block(p)
         /\ Block(q) = Block(p) => Bound(q) = Bound(p)
         /\ Bound(p) <= q => Block(p) < Block(q)
         /\ p <= q => Block(p) <= Block(q) /\ Bound(p) <= Bound(q)
         /\ p % BlockSize = 0 /\ q < p => Bound(q) <= p
<1> DEFINE a == Block(p)
           b == Block(q)
           w == BlockSize
           x == w * a
           y == w * b
           r == p % w
           s == q % w
<1>1. w \in Nat \ {0} /\ a \in Nat /\ b \in Nat /\ x \in Nat /\ y \in Nat
  <2>1. w \in Nat \ {0} /\ a \in Nat /\ b \in Nat
    BY Sizes, BoundIs
  <2> HIDE DEF a, b, w
  <2> QED
    BY <2>1
<1>2. p = x + r /\ q = y + s /\ r \in 0..w - 1 /\ s \in 0..w - 1
      /\ Bound(p) = x + w /\ Bound(q) = y + w
  BY BoundIs
<1>3. ASSUME NEW i \in Nat, NEW j \in Nat, w * i < w * j + w PROVE i <= j
  BY <1>1, <1>3, Multiples
<1>4. x < y + w => a <= b
  BY <1>1, <1>3
<1>5. y < x + w => b <= a
  BY <1>1, <1>3
<1>6. w * (a + 1) = x + w /\ w * (b + 1) = y + w
  BY <1>1
<1>7. x + w < y + w => a + 1 <= b
  BY <1>1, <1>4, <1>5
<1>8. y + w <= x => b + 1 <= a
  BY <1>1, <1>4, <1>5
<1>9. x + w <= y + s => a + 1 <= b
  <2>1. w * (a + 1) < w * b + w => a + 1 <= b
    BY <1>1, <1>3
  <2> HIDE DEF a, b, r, s, x, y, w
  <2> QED
    BY <1>1, <1>2, <1>6, <2>1 DEF x, y
<1>10. a <= b => x <= y
  <2> SUFFICES ASSUME a <= b PROVE x <= y
    OBVIOUS
  <2> DEFINE d == b - a
  <2>1. d \in Nat /\ b = a + d
    BY <1>1
  <2> HIDE DEF d
  <2>2. w * (a + d) = x + w * d /\ w * d \in Nat
    BY <1>1, <2>1
  <2> QED
    BY <1>1, <2>1, <2>2
<1>11. y < x => b + 1 <= a
  BY <1>1, <1>10
<1>12. y < x => y + w <= x
  <2> SUFFICES ASSUME b + 1 <= a PROVE w * (b + 1) <= x
    BY <1>6, <1>11
  <2> DEFINE d == a - (b + 1)
  <2>1. d \in Nat /\ a = (b + 1) + d
    BY <1>1
  <2> HIDE DEF d
  <2>2. w * ((b + 1) + d) = w * (b + 1) + w * d /\ w * d \in Nat /\ w * (b + 1) \in Nat
    BY <1>1, <2>1
  <2> QED
    BY <1>1, <2>1, <2>2
<1>13. a = b => x = y
  OBVIOUS
<1> HIDE DEF a, b, r, s, x, y, w
<1> QED
  BY <1>1, <1>2, <1>4, <1>5, <1>9, <1>10, <1>12, <1>13 DEF a, b, w, r

(* Fragments in a file.                                                    *)

DataByte == {"data"} \X Nat \X Nat
Data == Seq(DataByte)
FragmentTypes == {"FULL", "FIRST", "MIDDLE", "LAST"}
Byte == {<<"zero">>, <<"more">>, <<"bad">>} \union DataByte
          \union ({"head"} \X (FragmentTypes \union {"NONE"}) \X Data)
Content == [data : Data, blocks : SUBSET Nat]

(* A fragment in a file: where its header begins, the record it is of, and *)
(* which of its bytes it has.                                              *)
Piece == [at : Nat, type : FragmentTypes, rec : Nat, from : Nat, to : Nat]
Opening(f) == f.type \in {"FULL", "FIRST"}
Ending(f) == f.type \in {"FULL", "LAST"}
EndOf(f) == f.at + HeaderLength + (f.to - f.from)
DataOf(f, c) == SubSeq(c[f.rec].data, f.from + 1, f.to)

IsPiece(f, l, c) ==
  /\ f \in Piece /\ f.rec \in 1..Len(c) /\ f.from <= f.to /\ f.to <= Len(c[f.rec].data)
  /\ Opening(f) => f.from = 0
  /\ Ending(f) => f.to = Len(c[f.rec].data)
  /\ EndOf(f) <= l /\ EndOf(f) <= Bound(f.at)
  /\ Block(f.at) \in c[f.rec].blocks

PiecesInOrder(F) ==
  \A f, g \in F :
    /\ f.at < g.at => EndOf(f) <= g.at /\ f.rec <= g.rec /\ (Ending(f) => f.rec < g.rec)
    /\ f.at = g.at => f = g

(* How far the writer is with the last record: "closed" when it is whole,  *)
(* "new" when nothing of it is written, and "within" when m bytes are.     *)
Follows(f, g) ==
  g.at = EndOf(f) /\ g.rec = f.rec /\ g.from = f.to /\ ~Opening(g) /\ ~Ending(f)
Broken(f, l, c, m) == EndOf(f) = l /\ f.rec = Len(c) /\ f.to = m /\ ~Ending(f)
Linked(F, l, c, stage, m) ==
  /\ \A f \in F : ~Ending(f) => \/ \E g \in F : Follows(f, g)
                                \/ stage = "within" /\ Broken(f, l, c, m)
  /\ \A g \in F : ~Opening(g) => \E f \in F : Follows(f, g)
  /\ \A i \in 1..Len(c) : \/ stage # "closed" /\ i = Len(c)
                          \/ \E f \in F : f.rec = i /\ Ending(f)
Begun(F, l, c, stage, m) ==
  /\ stage # "closed" => Len(c) > 0 /\ \A f \in F : Ending(f) => f.rec < Len(c)
  /\ stage = "new" => m = 0 /\ \A f \in F : f.rec < Len(c)
  /\ stage = "within" => \E f \in F : Broken(f, l, c, m)
Layout(F, l, c, stage, m) ==
  /\ \A f \in F : IsPiece(f, l, c)
  /\ PiecesInOrder(F) /\ Linked(F, l, c, stage, m) /\ Begun(F, l, c, stage, m)

(* The bytes of a file with these fragments.                               *)
Intact(f, w, c) ==
  /\ w[f.at + 1] = <<"head", f.type, DataOf(f, c)>>
  /\ \A i \in 2..HeaderLength : w[f.at + i] = <<"more">>
  /\ \A i \in 1..f.to - f.from : w[f.at + HeaderLength + i] = c[f.rec].data[f.from + i]
HeaderKept(f, w, c, blank) ==
  \/ w[f.at + 1] = <<"bad">> \/ w[f.at + 1] = <<"head", f.type, DataOf(f, c)>>
  \/ blank /\ w[f.at + 1] = <<"head", "NONE", DataOf(f, c)>>
Stored(F, w, c, dam, blank) ==
  \A f \in F : HeaderKept(f, w, c, blank) /\ (Block(f.at) \notin dam => Intact(f, w, c))

(* Where a reader may stop, and the rest of a block without fragments.     *)
Stop(F, p) == p % BlockSize = 0 \/ \E f \in F : EndOf(f) = p
Gap(F, w, p) ==
  /\ \A g \in F : p <= g.at => Block(g.at) # Block(p)
  /\ w[p + 1] \in {<<"zero">>, <<"bad">>} /\ Bound(p) <= Len(w)
Gaps(F, w) ==
  \A p \in 0..Len(w) - 1 : Stop(F, p) => (\E f \in F : f.at = p) \/ Gap(F, w, p)

Laid(F, w, c, stage, m) ==
  Layout(F, Len(w), c, stage, m) /\ Stored(F, w, c, {}, FALSE) /\ Gaps(F, w)

(* What a piece of a file of length l is. *)
LEMMA PieceIs ==
  ASSUME NEW c \in Seq(Content), NEW l \in Nat, NEW f, IsPiece(f, l, c)
  PROVE  /\ f.at \in Nat /\ f.rec \in Nat /\ f.rec \in 1..Len(c) /\ f.from \in Nat /\ f.to \in Nat
         /\ f.from <= f.to
         /\ c[f.rec].data \in Data /\ Len(c[f.rec].data) \in Nat /\ f.to <= Len(c[f.rec].data)
         /\ f.type \in FragmentTypes /\ EndOf(f) \in Nat
         /\ f.at < EndOf(f) /\ f.at + HeaderLength <= EndOf(f) /\ EndOf(f) <= l
         /\ DataOf(f, c) \in Data /\ Len(DataOf(f, c)) = f.to - f.from
         /\ \A i \in 1..f.to - f.from : DataOf(f, c)[i] = c[f.rec].data[f.from + i]
         /\ c[f.rec].blocks \in SUBSET Nat
<1>1. f \in Piece /\ f.rec \in 1..Len(c) /\ f.from <= f.to /\ f.to <= Len(c[f.rec].data)
      /\ EndOf(f) <= l
  BY DEF IsPiece
<1>2. f.at \in Nat /\ f.rec \in Nat /\ f.from \in Nat /\ f.to \in Nat /\ f.type \in FragmentTypes
  BY <1>1 DEF Piece
<1>3. c[f.rec] \in Content
  BY <1>1
<1> DEFINE d == c[f.rec].data
<1>4. d \in Data /\ Len(d) \in Nat /\ c[f.rec].blocks \in SUBSET Nat
  BY <1>3, LenProperties DEF Content, Data
<1>5. EndOf(f) \in Nat /\ f.at < EndOf(f) /\ f.at + HeaderLength <= EndOf(f)
  BY <1>1, <1>2, Sizes DEF EndOf
<1> DEFINE x == f.from + 1
           y == f.to
<1>6. x \in Int /\ y \in Int /\ \A i \in x..y : d[i] \in DataByte
  <2>1. \A i \in 1..Len(d) : d[i] \in DataByte
    BY <1>4, ElementOfSeq DEF Data
  <2>2. f.to <= Len(d)
    BY <1>1
  <2> HIDE DEF d
  <2> QED
    BY <1>1, <1>2, <1>4, <2>1, <2>2
<1>7. /\ SubSeq(d, x, y) \in Seq(DataByte)
      /\ Len(SubSeq(d, x, y)) = IF x <= y THEN y - x + 1 ELSE 0
      /\ \A i \in 1..y - x + 1 : SubSeq(d, x, y)[i] = d[x + i - 1]
  <2> HIDE DEF d, x, y
  <2> QED
    BY <1>6, SubSeqProperties
<1>8. Len(SubSeq(d, x, y)) = f.to - f.from /\ y - x + 1 = f.to - f.from
  <2> HIDE DEF d
  <2> QED
    BY <1>1, <1>2, <1>7
<1>9. \A i \in 1..f.to - f.from : SubSeq(d, x, y)[i] = d[f.from + i]
  <2> SUFFICES ASSUME NEW i \in 1..f.to - f.from PROVE SubSeq(d, x, y)[i] = d[f.from + i]
    OBVIOUS
  <2>1. x + i - 1 = f.from + i
    BY <1>2
  <2> HIDE DEF d, x, y
  <2> QED
    BY <1>7, <1>8, <2>1
<1> QED
  BY <1>1, <1>2, <1>4, <1>5, <1>7, <1>8, <1>9 DEF DataOf, Data

(* The bytes of a fragment: the start of a header, the rest of it, the data. *)
LEMMA FragmentIs ==
  ASSUME NEW type \in FragmentTypes, NEW d \in Data
  PROVE  /\ Fragment(type, d) \in Seq(Byte) /\ Len(Fragment(type, d)) = HeaderLength + Len(d)
         /\ Len(d) \in Nat
         /\ Fragment(type, d)[1] = <<"head", type, d>>
         /\ \A i \in 2..HeaderLength : Fragment(type, d)[i] = <<"more">>
         /\ \A i \in 1..Len(d) : Fragment(type, d)[HeaderLength + i] = d[i]
<1>1. d \in Seq(Byte) /\ Len(d) \in Nat
  <2>1. DataByte \subseteq Byte
    BY DEF Byte
  <2> QED
    BY <2>1, SeqMonotonic, LenProperties DEF Data
<1> DEFINE head == <<"head", type, d>>
           n == HeaderLength - 1
           more == [i \in 1..n |-> <<"more">>]
<1>2. head \in Byte /\ <<"more">> \in Byte
  BY DEF Byte
<1>3. n \in Nat
  BY Sizes
<1>4. more \in Seq(Byte) /\ Len(more) = n /\ \A i \in 1..n : more[i] = <<"more">>
  <2> HIDE DEF n
  <2> QED
    BY <1>2, <1>3
<1>5. <<head>> \in Seq(Byte) /\ Len(<<head>>) = 1 /\ <<head>>[1] = head
  <2> HIDE DEF head
  <2> QED
    BY <1>2
<1> DEFINE h == <<head>>
<1> HIDE DEF head, more, n, h
<1>6. /\ h \o more \in Seq(Byte) /\ Len(h \o more) = 1 + n
      /\ \A i \in 1..1 + n : (h \o more)[i] = IF i <= 1 THEN h[i] ELSE more[i - 1]
  BY <1>4, <1>5, ConcatProperties DEF h
<1> DEFINE hm == h \o more
<1>7. 1 + n = HeaderLength
  BY Sizes DEF n
<1> HIDE DEF hm
<1>8. /\ hm \o d \in Seq(Byte) /\ Len(hm \o d) = HeaderLength + Len(d)
      /\ \A i \in 1..HeaderLength + Len(d) :
           (hm \o d)[i] = IF i <= HeaderLength THEN hm[i] ELSE d[i - HeaderLength]
  BY <1>1, <1>6, <1>7, ConcatProperties DEF hm
<1>9. Fragment(type, d) = hm \o d
  BY DEF Fragment, hm, h, head, more, n
<1> DEFINE u == hm \o d
<1>10. u[1] = head
  <2>1. 1 \in 1..HeaderLength + Len(d) /\ 1 <= HeaderLength /\ 1 \in 1..1 + n
    BY <1>1, <1>3, Sizes
  <2>2. u[1] = hm[1] /\ hm[1] = h[1]
    BY <1>6, <1>8, <2>1 DEF hm
  <2> QED
    BY <1>5, <2>2 DEF h
<1>11. ASSUME NEW i \in 2..HeaderLength PROVE u[i] = <<"more">>
  <2>1. i \in 1..HeaderLength + Len(d) /\ i <= HeaderLength /\ i \in 1..1 + n /\ ~(i <= 1)
        /\ i - 1 \in 1..n
    BY <1>1, <1>3, <1>7, Sizes
  <2>2. u[i] = hm[i] /\ hm[i] = more[i - 1]
    BY <1>6, <1>8, <2>1 DEF hm
  <2> QED
    BY <1>4, <2>1, <2>2
<1>12. ASSUME NEW i \in 1..Len(d) PROVE u[HeaderLength + i] = d[i]
  <2>1. /\ HeaderLength + i \in 1..HeaderLength + Len(d) /\ ~(HeaderLength + i <= HeaderLength)
        /\ (HeaderLength + i) - HeaderLength = i
    BY <1>1, Sizes
  <2> QED
    BY <1>8, <2>1
<1> HIDE DEF u
<1>13. Fragment(type, d) = u
  BY <1>9 DEF u
<1> QED
  BY <1>1, <1>8, <1>10, <1>11, <1>12, <1>13 DEF u, head

(* A fragment is written.                                                  *)

(* One sequence after another. *)
LEMMA JoinIs ==
  ASSUME NEW S, NEW w \in Seq(S), NEW t \in Seq(S)
  PROVE  /\ w \o t \in Seq(S) /\ Len(w) \in Nat /\ Len(t) \in Nat
         /\ Len(w \o t) = Len(w) + Len(t)
         /\ \A i \in 1..Len(w) : (w \o t)[i] = w[i]
         /\ \A i \in 1..Len(t) : (w \o t)[Len(w) + i] = t[i]
<1> DEFINE u == w \o t
<1>1. Len(w) \in Nat /\ Len(t) \in Nat
  BY LenProperties
<1>2. /\ u \in Seq(S) /\ Len(u) = Len(w) + Len(t)
      /\ \A i \in 1..Len(w) + Len(t) : u[i] = IF i <= Len(w) THEN w[i] ELSE t[i - Len(w)]
  BY ConcatProperties
<1> HIDE DEF u
<1>3. ASSUME NEW i \in 1..Len(w) PROVE u[i] = w[i]
  <2>1. i \in 1..Len(w) + Len(t) /\ i <= Len(w)
    BY <1>1
  <2> QED
    BY <1>2, <2>1
<1>4. ASSUME NEW i \in 1..Len(t) PROVE u[Len(w) + i] = t[i]
  <2>1. Len(w) + i \in 1..Len(w) + Len(t) /\ ~(Len(w) + i <= Len(w)) /\ (Len(w) + i) - Len(w) = i
    BY <1>1
  <2> QED
    BY <1>2, <2>1
<1> QED
  BY <1>1, <1>2, <1>3, <1>4 DEF u

(* A fragment is written at the end. *)
LEMMA PieceAdded ==
  ASSUME NEW F, NEW w \in Seq(Byte), NEW c \in Seq(Content), NEW stage \in {"new", "within"},
         NEW m \in Nat, Laid(F, w, c, stage, m), NEW type \in FragmentTypes, NEW n \in Nat,
         m <= n, n <= Len(c[Len(c)].data),
         stage = "new" <=> type \in {"FULL", "FIRST"},
         type \in {"FULL", "LAST"} => n = Len(c[Len(c)].data),
         Len(w) + HeaderLength + (n - m) <= Bound(Len(w)),
         Block(Len(w)) \in c[Len(c)].blocks
  PROVE  LET u == w \o Fragment(type, SubSeq(c[Len(c)].data, m + 1, n))
             f == [at |-> Len(w), type |-> type, rec |-> Len(c), from |-> m, to |-> n]
         IN  /\ u \in Seq(Byte) /\ Len(u) = Len(w) + HeaderLength + (n - m)
             /\ Laid(F \union {f}, u, c,
                     IF type \in {"FULL", "LAST"} THEN "closed" ELSE "within",
                     n)
<1> DEFINE l == Len(w)
           k == Len(c)
           data == c[k].data
           f == [at |-> l, type |-> type, rec |-> k, from |-> m, to |-> n]
           d == SubSeq(data, m + 1, n)
           u == w \o Fragment(type, d)
           G == F \union {f}
           stage2 == IF type \in {"FULL", "LAST"} THEN "closed" ELSE "within"
<1>1. l \in Nat /\ k \in Nat /\ k > 0 /\ k \in 1..k
  <2>1. Begun(F, l, c, stage, m)
    BY DEF Laid, Layout
  <2>2. l \in Nat /\ k \in Nat
    BY LenProperties
  <2> QED
    BY <2>1, <2>2 DEF Begun
<1>2. c[k] \in Content /\ data \in Data /\ c[k].blocks \in SUBSET Nat
  <2>1. c[k] \in Content
    BY <1>1, ElementOfSeq
  <2> QED
    BY <2>1 DEF Content
<1>3. f.at = l /\ f.type = type /\ f.rec = k /\ f.from = m /\ f.to = n /\ f \in Piece
  BY <1>1 DEF Piece
<1>4. EndOf(f) = l + HeaderLength + (n - m) /\ EndOf(f) \in Nat /\ l < EndOf(f)
  <2> HIDE DEF f, l
  <2> QED
    BY SMTT(30), <1>1, <1>3, Sizes DEF EndOf
<1>5. DataOf(f, c) = d
  BY <1>3 DEF DataOf
<1> HIDE DEF f
<1>6. IsPiece(f, EndOf(f), c)
  BY <1>1, <1>2, <1>3, <1>4 DEF IsPiece, Opening, Ending, Laid, Layout, Begun
<1>7. d \in Data /\ Len(d) = n - m /\ \A i \in 1..n - m : d[i] = data[m + i]
  <2>1. /\ DataOf(f, c) \in Data /\ Len(DataOf(f, c)) = f.to - f.from
        /\ \A i \in 1..f.to - f.from : DataOf(f, c)[i] = c[f.rec].data[f.from + i]
    BY <1>4, <1>6, PieceIs
  <2> HIDE DEF d
  <2> QED
    BY <1>3, <1>5, <2>1
<1> DEFINE t == Fragment(type, d)
<1>8. /\ t \in Seq(Byte) /\ Len(t) = HeaderLength + (n - m)
      /\ t[1] = <<"head", type, d>>
      /\ \A i \in 2..HeaderLength : t[i] = <<"more">>
      /\ \A i \in 1..n - m : t[HeaderLength + i] = d[i]
  <2> HIDE DEF t, d
  <2>1. d \in Data /\ Len(d) = n - m
    BY <1>7
  <2>2. t = Fragment(type, d)
    BY DEF t
  <2>3. /\ t \in Seq(Byte) /\ Len(t) = HeaderLength + Len(d)
        /\ t[1] = <<"head", type, d>>
        /\ \A i \in 2..HeaderLength : t[i] = <<"more">>
        /\ \A i \in 1..Len(d) : t[HeaderLength + i] = d[i]
    BY <2>1, <2>2, FragmentIs
  <2> QED
    BY <2>1, <2>3
<1> HIDE DEF d, t, data
<1>9. /\ w \o t \in Seq(Byte) /\ Len(w \o t) = l + Len(t)
      /\ \A i \in 1..l : (w \o t)[i] = w[i]
      /\ \A i \in 1..Len(t) : (w \o t)[l + i] = t[i]
  <2>1. t \in Seq(Byte)
    BY <1>8
  <2>2. /\ w \o t \in Seq(Byte) /\ Len(w) \in Nat /\ Len(t) \in Nat
        /\ Len(w \o t) = Len(w) + Len(t)
        /\ \A i \in 1..Len(w) : (w \o t)[i] = w[i]
        /\ \A i \in 1..Len(t) : (w \o t)[Len(w) + i] = t[i]
    <3>1. w \o t \in Seq(Byte) /\ Len(w) \in Nat /\ Len(t) \in Nat /\ Len(w \o t) = Len(w) + Len(t)
      BY <2>1, JoinIs
    <3>2. \A i \in 1..Len(w) : (w \o t)[i] = w[i]
      BY <2>1, JoinIs
    <3>3. \A i \in 1..Len(t) : (w \o t)[Len(w) + i] = t[i]
      BY <2>1, JoinIs
    <3> QED
      BY <3>1, <3>2, <3>3
  <2> QED
    BY <2>2
<1>10. u = w \o t
  BY DEF t
<1> HIDE DEF u, t
<1>11. /\ u \in Seq(Byte) /\ Len(u) = EndOf(f) /\ l <= EndOf(f)
       /\ \A i \in 1..l : u[i] = w[i]
       /\ \A i \in 1..Len(t) : u[l + i] = t[i]
  <2> HIDE DEF l
  <2>1. l + Len(t) = EndOf(f)
    BY <1>1, <1>4, <1>8, Sizes
  <2> QED
    BY <1>1, <1>4, <1>9, <1>10, <2>1
<1>12. /\ Layout(F, l, c, stage, m) /\ Stored(F, w, c, {}, FALSE) /\ Gaps(F, w)
  BY DEF Laid
<1>13. ASSUME NEW g \in F
       PROVE  /\ IsPiece(g, l, c) /\ g.at \in Nat /\ EndOf(g) \in Nat /\ EndOf(g) <= l
              /\ g.at < EndOf(g) /\ g.at + HeaderLength <= EndOf(g) /\ g.at < l
              /\ g.from \in Nat /\ g.to \in Nat
              /\ g.rec \in 1..k
  <2>1. IsPiece(g, l, c)
    BY <1>12 DEF Layout
  <2>2. /\ g.at \in Nat /\ EndOf(g) \in Nat /\ EndOf(g) <= l /\ g.at < EndOf(g) /\ g.rec \in 1..k
        /\ g.at + HeaderLength <= EndOf(g) /\ g.from \in Nat /\ g.to \in Nat
    BY <1>1, <2>1, PieceIs
  <2> HIDE DEF l, k
  <2> QED
    BY <1>1, <2>1, <2>2
<1>14. Begun(F, l, c, stage, m) /\ Linked(F, l, c, stage, m) /\ PiecesInOrder(F)
  BY <1>12 DEF Layout
<1>15. /\ \A g \in F : Ending(g) => g.rec < k
       /\ stage = "new" => \A g \in F : g.rec < k
       /\ stage = "within" => \E g \in F : Broken(g, l, c, m)
       /\ stage = "new" => m = 0
  BY <1>14 DEF Begun
<1>16. Opening(f) <=> stage = "new"
  BY <1>3 DEF Opening
<1>17. Ending(f) <=> stage2 = "closed"
  BY <1>3 DEF Ending
<1> HIDE DEF l, k
<1>18. \A g \in G : IsPiece(g, Len(u), c)
  <2>1. ASSUME NEW g \in F PROVE IsPiece(g, Len(u), c)
    <3>1. EndOf(g) <= Len(u)
      BY <1>1, <1>4, <1>11, <1>13
    <3> QED
      BY <1>13, <3>1 DEF IsPiece
  <2> QED
    BY <1>6, <1>11, <2>1
<1>19. PiecesInOrder(G)
  <2>1. ASSUME NEW g \in F
        PROVE  g.at < f.at /\ EndOf(g) <= f.at /\ g.rec <= f.rec /\ (Ending(g) => g.rec < f.rec)
    <3>1. g.at < l /\ EndOf(g) <= l /\ g.rec <= k /\ (Ending(g) => g.rec < k)
      BY <1>1, <1>13, <1>15
    <3> QED
      BY <1>3, <3>1
  <2>2. ASSUME NEW g \in F PROVE ~(f.at < g.at) /\ f.at # g.at
    BY <1>1, <1>3, <1>13, <2>1
  <2>3. ~(f.at < f.at)
    BY <1>1, <1>3
  <2> SUFFICES ASSUME NEW g \in G, NEW h \in G
               PROVE  /\ g.at < h.at => /\ EndOf(g) <= h.at /\ g.rec <= h.rec
                                        /\ (Ending(g) => g.rec < h.rec)
                      /\ g.at = h.at => g = h
    BY DEF PiecesInOrder
  <2>4. CASE g \in F /\ h \in F
    BY <1>14, <2>4 DEF PiecesInOrder
  <2>5. CASE g \in F /\ h = f
    BY <2>1, <2>2, <2>5
  <2>6. CASE g = f /\ h \in F
    BY <2>2, <2>6
  <2>7. CASE g = f /\ h = f
    BY <2>3, <2>7
  <2> QED
    BY <2>4, <2>5, <2>6, <2>7
<1>20. Linked(G, Len(u), c, stage2, n)
  <2>1. ASSUME NEW g \in G, ~Ending(g)
        PROVE  (\E h \in G : Follows(g, h)) \/ (stage2 = "within" /\ Broken(g, Len(u), c, n))
    <3>1. CASE g = f
      <4>1. stage2 = "within"
        BY <1>17, <2>1, <3>1
      <4>2. Broken(f, Len(u), c, n)
        BY <1>3, <1>11, <2>1, <3>1 DEF Broken, k
      <4> QED
        BY <3>1, <4>1, <4>2
    <3>2. CASE g \in F
      <4>1. (\E h \in F : Follows(g, h)) \/ (stage = "within" /\ Broken(g, l, c, m))
        BY <1>14, <2>1, <3>2 DEF Linked
      <4>2. CASE \E h \in F : Follows(g, h)
        BY <4>2
      <4>3. CASE stage = "within" /\ Broken(g, l, c, m)
        <5>1. Follows(g, f)
          BY <1>3, <1>16, <4>3 DEF Broken, Follows, k
        <5> QED
          BY <5>1
      <4> QED
        BY <4>1, <4>2, <4>3
    <3> QED
      BY <3>1, <3>2
  <2>2. ASSUME NEW g \in G, ~Opening(g) PROVE \E h \in G : Follows(h, g)
    <3>1. CASE g = f
      <4>1. stage = "within"
        BY <1>16, <2>2, <3>1
      <4>2. PICK h \in F : Broken(h, l, c, m)
        BY <1>15, <4>1
      <4>3. Follows(h, f)
        BY <1>3, <2>2, <3>1, <4>2 DEF Broken, Follows, k
      <4> QED
        BY <3>1, <4>3
    <3>2. CASE g \in F
      BY <1>14, <2>2, <3>2 DEF Linked
    <3> QED
      BY <3>1, <3>2
  <2>3. ASSUME NEW i \in 1..Len(c)
        PROVE  (stage2 # "closed" /\ i = Len(c)) \/ \E g \in G : g.rec = i /\ Ending(g)
    <3>1. CASE i = Len(c)
      BY <1>3, <1>17, <3>1 DEF k
    <3>2. CASE i # Len(c)
      BY <1>14, <3>2 DEF Linked
    <3> QED
      BY <3>1, <3>2
  <2> QED
    BY <2>1, <2>2, <2>3 DEF Linked
<1>21. Begun(G, Len(u), c, stage2, n)
  <2>1. ASSUME stage2 # "closed", NEW g \in G, Ending(g) PROVE g.rec < Len(c)
    BY <1>15, <1>17, <2>1 DEF k
  <2>2. stage2 = "within" => Broken(f, Len(u), c, n)
    BY <1>3, <1>11, <1>17 DEF Broken, k
  <2>3. stage2 # "new"
    OBVIOUS
  <2>4. Len(c) > 0
    BY <1>1 DEF k
  <2> QED
    BY <2>1, <2>2, <2>3, <2>4 DEF Begun
<1>22. Stored(G, u, c, {}, FALSE)
  <2>1. ASSUME NEW g \in F PROVE Intact(g, u, c)
    <3>1. Intact(g, w, c)
      BY <1>12 DEF Stored
    <3>2. g.at + 1 \in 1..l
      BY <1>1, <1>13
    <3>3. \A i \in 2..HeaderLength : g.at + i \in 1..l
      BY <1>1, <1>13, Sizes
    <3>4. ASSUME NEW i \in 1..g.to - g.from PROVE g.at + HeaderLength + i \in 1..l
      <4>1. EndOf(g) = g.at + HeaderLength + (g.to - g.from)
        BY DEF EndOf
      <4>2. g.at \in Nat /\ g.to - g.from \in Int /\ EndOf(g) <= l
        BY <1>13
      <4> QED
        <5>1. EndOf(g) \in Int /\ i \in Int /\ 1 <= i /\ i <= g.to - g.from /\ HeaderLength \in Nat
          BY <1>13, Sizes
        <5> DEFINE a == g.at
                   b == g.to - g.from
        <5>2. a \in Nat /\ b \in Int /\ EndOf(g) = a + HeaderLength + b /\ i <= b
          BY <4>1, <4>2, <5>1
        <5> HIDE DEF a, b
        <5>3. a + HeaderLength + i \in 1..l
          BY <1>1, <4>2, <5>1, <5>2
        <5> QED
          BY <5>3 DEF a
    <3> QED
      BY <1>11, <3>1, <3>2, <3>3, <3>4 DEF Intact
  <2>2. Intact(f, u, c)
    <3>1. u[f.at + 1] = <<"head", f.type, DataOf(f, c)>>
      <4>1. 1 \in 1..Len(t)
        BY <1>8, Sizes
      <4> QED
        BY <1>3, <1>5, <1>8, <1>11, <4>1
    <3>2. ASSUME NEW i \in 2..HeaderLength PROVE u[f.at + i] = <<"more">>
      <4>1. i \in 1..Len(t)
        BY <1>8, Sizes
      <4> QED
        BY <1>3, <1>8, <1>11, <4>1
    <3>3. ASSUME NEW i \in 1..f.to - f.from
          PROVE  u[f.at + HeaderLength + i] = c[f.rec].data[f.from + i]
      <4>1. i \in 1..n - m
        BY <1>3
      <4>2. HeaderLength + i \in 1..Len(t) /\ f.at + HeaderLength + i = l + (HeaderLength + i)
        <5>1. f.at = l /\ Len(t) = HeaderLength + (n - m) /\ i \in Nat /\ i <= n - m /\ i >= 1
          BY <1>3, <1>8, <4>1
        <5>2. \A a \in Nat : HeaderLength + i \in 1..HeaderLength + a <=> i <= a
          BY <5>1, Sizes
        <5> QED
          BY <1>1, <5>1, <5>2, Sizes
      <4>3. u[l + (HeaderLength + i)] = d[i]
        BY <1>8, <1>11, <4>1, <4>2
      <4> QED
        BY <1>3, <1>7, <4>1, <4>2, <4>3 DEF data
    <3> QED
      BY <3>1, <3>2, <3>3 DEF Intact
  <2>3. \A g \in G : Intact(g, u, c)
    BY <2>1, <2>2
  <2> QED
    BY <2>3 DEF Stored, HeaderKept, Intact
<1>23. Gaps(G, u)
  <2> SUFFICES ASSUME NEW p \in 0..Len(u) - 1, Stop(G, p)
               PROVE  (\E g \in G : g.at = p) \/ Gap(G, u, p)
    BY DEF Gaps
  <2>1. CASE p = l
    BY <1>3, <2>1
  <2>2. CASE p < l
    <3>1. Stop(F, p)
      <4>1. EndOf(f) # p
        BY <1>1, <1>4, <2>2
      <4> QED
        BY <4>1 DEF Stop
    <3>2. p \in 0..l - 1 /\ p \in Nat
      BY <1>1, <2>2
    <3>3. (\E g \in F : g.at = p) \/ Gap(F, w, p)
      BY <1>12, <3>1, <3>2 DEF Gaps, l
    <3>4. ASSUME Gap(F, w, p) PROVE Gap(G, u, p)
      <4>1. Bound(p) <= l
        BY <3>4 DEF Gap, l
      <4>2. Block(f.at) # Block(p)
        <5>1. Block(p) < Block(l) /\ Block(p) \in Nat /\ Block(l) \in Nat
          BY <1>1, <3>2, <4>1, SameBlock, BoundIs
        <5> QED
          BY <1>3, <5>1
      <4>3. u[p + 1] = w[p + 1]
        <5>1. p + 1 \in 1..l
          BY <1>1, <3>2
        <5>2. \A i \in 1..l : u[i] = w[i]
          BY <1>11
        <5> QED
          BY <5>1, <5>2
      <4>4. Bound(p) <= Len(u)
        <5>1. Bound(p) \in Nat
          BY <3>2, BoundIs
        <5> QED
          BY <1>1, <1>4, <1>11, <4>1, <5>1
      <4> QED
        BY <3>4, <4>2, <4>3, <4>4 DEF Gap
    <3> QED
      BY <3>3, <3>4
  <2>3. CASE p > l
    <3>1. p \in Nat /\ p < EndOf(f)
      BY <1>1, <1>4, <1>11
    <3>2. p % BlockSize # 0
      <4>1. p < Bound(l)
        <5>1. EndOf(f) <= Bound(l)
          BY <1>4 DEF l
        <5>2. Bound(l) \in Nat
          BY <1>1, BoundIs
        <5> QED
          BY <1>4, <3>1, <5>1, <5>2
      <4>2. p % BlockSize = 0 => Bound(l) <= p
        BY <1>1, <2>3, <3>1, SameBlock
      <4>3. Bound(l) \in Nat
        BY <1>1, BoundIs
      <4> QED
        BY <3>1, <4>1, <4>2, <4>3
    <3>3. \A g \in G : EndOf(g) # p
      BY <1>1, <1>13, <2>3, <3>1
    <3> QED
      BY <3>2, <3>3 DEF Stop
  <2> QED
    BY <1>1, <1>4, <1>11, <2>1, <2>2, <2>3
<1>24. Laid(G, u, c, stage2, n)
  BY <1>18, <1>19, <1>20, <1>21, <1>22, <1>23 DEF Laid, Layout
<1> QED
  BY <1>4, <1>11, <1>24 DEF u, f, t, d, data, l, k

(* Zeros are written.                                                      *)

(* The bytes of a trailer. *)
LEMMA ZerosAre ==
  ASSUME NEW n \in Nat
  PROVE  /\ Zeros(n) \in Seq(Byte) /\ Len(Zeros(n)) = n
         /\ \A i \in 1..n : Zeros(n)[i] = <<"zero">>
<1>1. <<"zero">> \in Byte
  BY DEF Byte
<1> QED
  BY <1>1 DEF Zeros

(* A block is filled with zeros to its end. *)
LEMMA ZerosAdded ==
  ASSUME NEW F, NEW w \in Seq(Byte), NEW c \in Seq(Content), NEW m,
         Laid(F, w, c, "closed", m), Len(w) % BlockSize # 0
  PROVE  LET u == w \o Zeros(BlockSize - (Len(w) % BlockSize))
         IN  /\ u \in Seq(Byte) /\ Len(u) = Bound(Len(w)) /\ Laid(F, u, c, "closed", 0)
<1> DEFINE l == Len(w)
           n == BlockSize - (l % BlockSize)
           z == Zeros(n)
           u == w \o z
<1>1. l \in Nat
  BY LenProperties
<1>2. /\ Bound(l) \in Nat /\ Bound(l) = l + n /\ n \in Nat \ {0} /\ l < Bound(l)
      /\ l % BlockSize # 0
  <2>1. /\ Bound(l) \in Nat /\ l < Bound(l) /\ l % BlockSize \in 0..BlockSize - 1
        /\ Bound(l) - l = BlockSize - (l % BlockSize)
    BY <1>1, BoundIs
  <2> HIDE DEF l
  <2> QED
    BY <1>1, <2>1, Sizes DEF l
<1>3. z \in Seq(Byte) /\ Len(z) = n /\ \A i \in 1..n : z[i] = <<"zero">>
  BY <1>2, ZerosAre
<1> HIDE DEF z
<1>4. u \in Seq(Byte) /\ Len(u) = Len(w) + Len(z)
  BY <1>3, JoinIs
<1>5. \A i \in 1..Len(w) : u[i] = w[i]
  BY <1>3, JoinIs
<1>6. \A i \in 1..Len(z) : u[Len(w) + i] = z[i]
  BY <1>3, JoinIs
<1> HIDE DEF u, n
<1>7. /\ Len(u) = Bound(l) /\ \A i \in 1..l : u[i] = w[i]
      /\ u[l + 1] = <<"zero">>
  <2>1. Len(u) = l + n /\ 1 \in 1..n /\ 1 \in 1..Len(z)
    BY <1>2, <1>3, <1>4
  <2>2. u[l + 1] = z[1] /\ z[1] = <<"zero">>
    BY <1>3, <1>6, <2>1
  <2> QED
    BY <1>2, <1>5, <2>1, <2>2
<1>8. Layout(F, l, c, "closed", m) /\ Stored(F, w, c, {}, FALSE) /\ Gaps(F, w)
  BY DEF Laid
<1> HIDE DEF l
<1>9. ASSUME NEW g \in F
      PROVE  /\ IsPiece(g, l, c) /\ g.at \in Nat /\ EndOf(g) \in Nat /\ EndOf(g) <= l
             /\ g.at + HeaderLength <= EndOf(g) /\ g.at < l
             /\ g.from \in Nat /\ g.to \in Nat
  <2>1. IsPiece(g, l, c)
    BY <1>8 DEF Layout
  <2>2. /\ g.at \in Nat /\ EndOf(g) \in Nat /\ EndOf(g) <= l /\ g.at < EndOf(g)
        /\ g.at + HeaderLength <= EndOf(g) /\ g.from \in Nat /\ g.to \in Nat
    BY <1>1, <2>1, PieceIs
  <2> QED
    BY <1>1, <2>1, <2>2
<1>10. Layout(F, Len(u), c, "closed", 0)
  <2>1. ASSUME NEW g \in F PROVE IsPiece(g, Len(u), c)
    <3>1. EndOf(g) <= Len(u)
      BY <1>1, <1>2, <1>7, <1>9
    <3> QED
      BY <1>9, <3>1 DEF IsPiece
  <2>2. PiecesInOrder(F) /\ Linked(F, Len(u), c, "closed", 0) /\ Begun(F, Len(u), c, "closed", 0)
    BY <1>8 DEF Layout, Linked, Begun
  <2> QED
    BY <2>1, <2>2 DEF Layout
<1>11. Stored(F, u, c, {}, FALSE)
  <2>1. ASSUME NEW g \in F PROVE Intact(g, u, c)
    <3>1. Intact(g, w, c)
      BY <1>8 DEF Stored
    <3>2. g.at + 1 \in 1..l
      BY <1>1, <1>9
    <3>3. \A i \in 2..HeaderLength : g.at + i \in 1..l
      BY <1>1, <1>9, Sizes
    <3>4. ASSUME NEW i \in 1..g.to - g.from PROVE g.at + HeaderLength + i \in 1..l
      <4>1. EndOf(g) = g.at + HeaderLength + (g.to - g.from)
        BY DEF EndOf
      <4> DEFINE a == g.at
                 b == g.to - g.from
      <4>2. /\ a \in Nat /\ b \in Int /\ EndOf(g) = a + HeaderLength + b /\ i <= b
            /\ EndOf(g) \in Int /\ i \in Int /\ 1 <= i /\ HeaderLength \in Nat /\ EndOf(g) <= l
        BY <1>9, <4>1, Sizes
      <4> HIDE DEF a, b
      <4>3. a + HeaderLength + i \in 1..l
        BY <1>1, <4>2
      <4> QED
        BY <4>3 DEF a
    <3> QED
      BY <1>7, <3>1, <3>2, <3>3, <3>4 DEF Intact
  <2> QED
    BY <2>1 DEF Stored, HeaderKept, Intact
<1>12. Gaps(F, u)
  <2> SUFFICES ASSUME NEW p \in 0..Len(u) - 1, Stop(F, p)
               PROVE  (\E g \in F : g.at = p) \/ Gap(F, u, p)
    BY DEF Gaps
  <2>1. p \in Nat /\ p < Bound(l)
    BY <1>2, <1>7
  <2>2. CASE p < l
    <3>1. p \in 0..l - 1
      BY <1>1, <2>1, <2>2
    <3>2. (\E g \in F : g.at = p) \/ Gap(F, w, p)
      BY <1>8, <3>1 DEF Gaps, l
    <3>3. ASSUME Gap(F, w, p) PROVE Gap(F, u, p)
      <4>1. Bound(p) <= l
        BY <3>3 DEF Gap, l
      <4>2. Bound(p) <= Len(u)
        <5>1. Bound(p) \in Nat
          BY <2>1, BoundIs
        <5> QED
          BY <1>1, <1>2, <1>7, <4>1, <5>1
      <4>3. u[p + 1] = w[p + 1]
        <5>1. p + 1 \in 1..l
          BY <1>1, <3>1
        <5>2. \A i \in 1..l : u[i] = w[i]
          BY <1>7
        <5> QED
          BY <5>1, <5>2
      <4> QED
        BY <3>3, <4>2, <4>3 DEF Gap
    <3> QED
      BY <3>2, <3>3
  <2>3. CASE p = l
    <3>1. ASSUME NEW g \in F, p <= g.at PROVE FALSE
      BY <1>1, <1>9, <2>3, <3>1
    <3>2. Bound(p) <= Len(u) /\ u[p + 1] = <<"zero">>
      BY <1>2, <1>7, <2>3
    <3> QED
      BY <3>1, <3>2 DEF Gap
  <2>4. CASE p > l
    <3>1. p % BlockSize # 0
      <4>1. p % BlockSize = 0 => Bound(l) <= p
        BY <1>1, <2>1, <2>4, SameBlock
      <4> QED
        BY <1>2, <2>1, <4>1
    <3>2. \A g \in F : EndOf(g) # p
      BY <1>1, <1>9, <2>1, <2>4
    <3> QED
      BY <3>1, <3>2 DEF Stop
  <2> QED
    BY <1>1, <2>1, <2>2, <2>3, <2>4
<1>13. Laid(F, u, c, "closed", 0)
  BY <1>10, <1>11, <1>12 DEF Laid
<1> QED
  BY <1>4, <1>7, <1>13 DEF u, z, n, l

(* A record is begun. *)
LEMMA RecordOpened ==
  ASSUME NEW F, NEW w \in Seq(Byte), NEW c \in Seq(Content), NEW m,
         Laid(F, w, c, "closed", m), NEW r \in Content
  PROVE  /\ Laid(F, w, Append(c, r), "new", 0)
         /\ Append(c, r) \in Seq(Content) /\ Len(Append(c, r)) = Len(c) + 1
         /\ Append(c, r)[Len(c) + 1] = r
<1> DEFINE l == Len(w)
           d == Append(c, r)
<1>1. /\ d \in Seq(Content) /\ Len(d) = Len(c) + 1 /\ d[Len(c) + 1] = r
      /\ \A i \in 1..Len(c) : d[i] = c[i]
      /\ Len(c) \in Nat /\ l \in Nat
  BY AppendProperties, LenProperties
<1> HIDE DEF d, l
<1>2. Layout(F, l, c, "closed", m) /\ Stored(F, w, c, {}, FALSE) /\ Gaps(F, w)
  BY DEF Laid, l
<1>3. ASSUME NEW g \in F PROVE IsPiece(g, l, c) /\ g.rec \in 1..Len(c) /\ d[g.rec] = c[g.rec]
  <2>1. IsPiece(g, l, c)
    BY <1>2 DEF Layout
  <2> QED
    BY <1>1, <2>1 DEF IsPiece
<1>4. ASSUME NEW g \in F PROVE IsPiece(g, l, d) /\ g.rec < Len(d)
  <2>1. g.rec \in 1..Len(d) /\ g.rec < Len(d)
    BY <1>1, <1>3
  <2> QED
    BY <1>3, <2>1 DEF IsPiece
<1>5. PiecesInOrder(F) /\ Linked(F, l, c, "closed", m)
  BY <1>2 DEF Layout
<1>6. Linked(F, l, d, "new", 0)
  <2>1. ASSUME NEW i \in 1..Len(d)
        PROVE  ("new" # "closed" /\ i = Len(d)) \/ \E g \in F : g.rec = i /\ Ending(g)
    <3>1. i = Len(d) \/ i \in 1..Len(c)
      BY <1>1
    <3> QED
      BY <1>5, <3>1 DEF Linked
  <2> QED
    BY <1>5, <2>1 DEF Linked
<1>7. Begun(F, l, d, "new", 0)
  <2>1. Len(d) > 0
    BY <1>1
  <2> QED
    BY <1>4, <2>1 DEF Begun
<1>8. Stored(F, w, d, {}, FALSE)
  BY <1>2, <1>3 DEF Stored, HeaderKept, Intact, DataOf
<1>9. Laid(F, w, d, "new", 0)
  BY <1>2, <1>4, <1>5, <1>6, <1>7, <1>8 DEF Laid, Layout, l
<1> QED
  BY <1>1, <1>9 DEF d

(* A record is cut into fragments.                                         *)

(* How many blocks what follows the first fragment takes. *)
LEMMA BlocksTaken ==
  ASSUME NEW len \in Nat \ {0}
  PROVE  LET n == (len + Capacity - 1) \div Capacity
         IN  /\ n \in Nat \ {0} /\ len <= n * Capacity
             /\ \A i \in 0..n - 1 : i * Capacity \in Nat /\ i * Capacity < len
             /\ \A i \in 0..n - 2 : (i + 1) * Capacity <= len
<1> DEFINE a == len + Capacity - 1
           w == Capacity
           n == a \div w
           r == a % w
           c == a + 1
<1>1. w \in Nat \ {0} /\ a \in Nat /\ c \in Nat
  BY Sizes
<1>2. a < c * w
  <2> DEFINE d == w - 1
  <2>1. d \in Nat /\ w = d + 1
    BY <1>1
  <2> HIDE DEF a, d, w
  <2>2. (a + 1) * (d + 1) = a * d + a + d + 1 /\ a * d \in Nat
    BY <1>1, <2>1
  <2> QED
    BY <1>1, <2>1, <2>2
<1>3. n \in Nat /\ r \in 0..w - 1 /\ a = w * n + r
  <2> HIDE DEF a, w, c
  <2> QED
    BY <1>1, <1>2, DivMod
<1>4. a = len + w - 1
  OBVIOUS
<1> HIDE DEF a, w, n, r, c
<1>5. w * n \in Nat /\ w * n = n * w
  BY <1>1, <1>3
<1> DEFINE x == w * n
<1>6. x \in Nat /\ a = x + r
  BY <1>3, <1>5
<1> HIDE DEF x
<1>7. len <= x /\ x < len + w
  BY <1>1, <1>3, <1>4, <1>6
<1>8. n # 0
  <2>1. n = 0 => x = 0
    BY <1>1 DEF x
  <2> QED
    BY <1>7, <2>1
<1>9. ASSUME NEW i \in Nat, NEW j \in Nat, i + j = n - 1
      PROVE  i * w \in Nat /\ i * w < len
  <2>1. n = i + j + 1
    BY <1>3, <1>9
  <2>2. x = w * i + w * j + w /\ w * i \in Nat /\ w * j \in Nat /\ w * i = i * w
    BY <1>1, <2>1 DEF x
  <2> DEFINE y == w * i
             z == w * j
  <2> HIDE DEF y, z
  <2>3. x = y + z + w /\ y \in Nat /\ z \in Nat /\ y = i * w
    BY <2>2 DEF y, z
  <2>4. y < len
    BY <1>1, <1>7, <2>3
  <2> QED
    BY <2>3, <2>4
<1>10. ASSUME NEW i \in 0..n - 1 PROVE i * w \in Nat /\ i * w < len
  <2> DEFINE j == n - 1 - i
  <2>1. i \in Nat /\ j \in Nat /\ i + j = n - 1
    BY <1>3
  <2> QED
    BY <1>9, <2>1
<1>11. ASSUME NEW i \in 0..n - 2 PROVE (i + 1) * w <= len
  <2>1. i + 1 \in 0..n - 1
    BY <1>3
  <2>2. (i + 1) * w \in Nat /\ (i + 1) * w < len
    BY <1>10, <2>1
  <2> QED
    BY <2>2
<1>12. n \in Nat \ {0} /\ len <= n * w
  BY <1>3, <1>5, <1>7, <1>8 DEF x
<1> QED
  BY <1>10, <1>11, <1>12 DEF n, a, w

(* What follows the first fragment, fragment by fragment. *)
FragmentAfter(d, n, i) ==
  Fragment(IF i + 1 = n THEN "LAST" ELSE "MIDDLE",
           SubSeq(d, i * Capacity + 1, IF i + 1 = n THEN Len(d) ELSE (i + 1) * Capacity))
Chained(d, n, g) ==
  /\ g[0] = <<>> /\ \A i \in 0..n : g[i] \in Seq(Byte)
  /\ \A i \in 0..n - 1 : g[i + 1] = g[i] \o FragmentAfter(d, n, i)

(* A fragment after the first has at least the bytes of a header. *)
LEMMA FragmentAfterIs ==
  ASSUME NEW d \in Data, Len(d) > 0, NEW i \in 0..((Len(d) + Capacity - 1) \div Capacity) - 1
  PROVE  LET n == (Len(d) + Capacity - 1) \div Capacity
         IN  /\ FragmentAfter(d, n, i) \in Seq(Byte) /\ Len(FragmentAfter(d, n, i)) >= HeaderLength
             /\ Len(FragmentAfter(d, n, i)) \in Nat
<1> DEFINE n == (Len(d) + Capacity - 1) \div Capacity
           a == i * Capacity + 1
           b == IF i + 1 = n THEN Len(d) ELSE (i + 1) * Capacity
           type == IF i + 1 = n THEN "LAST" ELSE "MIDDLE"
           s == SubSeq(d, a, b)
<1>1. Len(d) \in Nat \ {0} /\ \A j \in 1..Len(d) : d[j] \in DataByte
  BY LenProperties, ElementOfSeq DEF Data
<1>2. /\ n \in Nat \ {0} /\ i * Capacity \in Nat
      /\ i + 1 # n => (i + 1) * Capacity <= Len(d) /\ (i + 1) * Capacity \in Nat
  <2>1. n \in Nat \ {0} /\ i * Capacity \in Nat
    BY <1>1, BlocksTaken
  <2> HIDE DEF n
  <2>2. i + 1 # n => i \in 0..n - 2 /\ i + 1 \in 0..n - 1
    BY <2>1 DEF n
  <2>3. i + 1 # n => (i + 1) * Capacity <= Len(d) /\ (i + 1) * Capacity \in Nat
    BY <1>1, <2>2, BlocksTaken DEF n
  <2> QED
    BY <2>1, <2>3
<1>3. a \in Int /\ b \in Int /\ a >= 1 /\ b <= Len(d)
  <2> HIDE DEF n
  <2> QED
    BY <1>1, <1>2
<1>4. s \in Seq(DataByte)
  <2>1. \A j \in a..b : d[j] \in DataByte
    <3> HIDE DEF a, b
    <3> QED
      BY <1>1, <1>3
  <2> HIDE DEF a, b
  <2> QED
    BY <1>3, <2>1, SubSeqProperties
<1>5. type \in FragmentTypes
  BY DEF FragmentTypes
<1> HIDE DEF s, type, n
<1>6. /\ Fragment(type, s) \in Seq(Byte) /\ Len(s) \in Nat
      /\ Len(Fragment(type, s)) = HeaderLength + Len(s)
  BY <1>4, <1>5, FragmentIs DEF Data
<1>7. FragmentAfter(d, n, i) = Fragment(type, s)
  BY DEF FragmentAfter, s, type
<1> QED
  BY <1>6, <1>7, Sizes DEF n

(* The fragments after the first are chained, block after block. *)
LEMMA FollowingIs ==
  ASSUME NEW d \in Data, Len(d) > 0
  PROVE  LET n == (Len(d) + Capacity - 1) \div Capacity
         IN  \E g : Chained(d, n, g) /\ Following(d) = g[n]
<1> DEFINE n == (Len(d) + Capacity - 1) \div Capacity
           ss == [i \in 1..n |-> FragmentAfter(d, n, i - 1)]
<1>1. n \in Nat \ {0}
  <2>1. Len(d) \in Nat \ {0}
    BY LenProperties DEF Data
  <2> QED
    BY <2>1, BlocksTaken
<1>2. \A i \in 0..n - 1 : FragmentAfter(d, n, i) \in Seq(Byte)
  BY FragmentAfterIs
<1>3. Following(d) = FlattenSeq(ss)
  <2>1. \A i \in 1..n : (i - 1) + 1 = i
    BY <1>1
  <2>2. ss = [i \in 1..n |->
                Fragment(IF i = n THEN "LAST" ELSE "MIDDLE",
                         SubSeq(d, (i - 1) * Capacity + 1,
                                IF i = n THEN Len(d) ELSE i * Capacity))]
    <3> HIDE DEF n
    <3> QED
      BY <2>1 DEF FragmentAfter
  <2> QED
    BY <2>2 DEF Following
<1> HIDE DEF n
<1>4. Len(ss) = n /\ \A i \in 0..n - 1 : ss[i + 1] = FragmentAfter(d, n, i) /\ ss[i + 1] \in Seq(Byte)
  <2>1. \A i \in 0..n - 1 : i + 1 \in 1..n /\ (i + 1) - 1 = i
    BY <1>1
  <2>2. Len(ss) = n
    BY <1>1
  <2> QED
    BY <1>2, <2>1, <2>2
<1> HIDE DEF ss
<1> DEFINE h == CHOOSE f : IsFlat(ss, n, f)
<1>5. IsFlat(ss, n, h)
  BY <1>1, FlatExists
<1>6. FlattenSeq(ss) = h[n]
  BY <1>1, <1>4, FlatIsChosen
<1> HIDE DEF h
<1>7. \A i \in 1..n : h[i] = IF i = 1 THEN ss[i] ELSE h[i - 1] \o ss[i]
  BY <1>5 DEF IsFlat, Joined
<1> DEFINE g == [i \in 0..n |-> IF i = 0 THEN <<>> ELSE h[i]]
<1>8. g[0] = <<>> /\ \A i \in 1..n : g[i] = h[i]
  BY <1>1
<1> HIDE DEF g
<1> DEFINE T == {i \in 0..n : /\ g[i] \in Seq(Byte)
                              /\ i > 0 => g[i] = g[i - 1] \o FragmentAfter(d, n, i - 1)}
<1>9. 0 \in T
  <2>1. g[0] \in Seq(Byte)
    BY <1>8
  <2>2. 0 \in 0..n /\ ~(0 > 0)
    BY <1>1
  <2> QED
    BY <2>1, <2>2
<1>10. ASSUME NEW i \in Nat, i < n, i \in T PROVE i + 1 \in T
  <2>1. i + 1 \in 1..n /\ i \in 0..n - 1 /\ (i + 1) - 1 = i
    BY <1>1, <1>10
  <2> DEFINE s == FragmentAfter(d, n, i)
  <2>2. s \in Seq(Byte) /\ ss[i + 1] = s
    BY <1>4, <2>1
  <2> HIDE DEF s
  <2>3. g[i + 1] = g[i] \o s
    <3>1. CASE i = 0
      <4>1. g[i + 1] = s /\ g[i] = <<>>
        BY <1>7, <1>8, <2>1, <2>2, <3>1
      <4> QED
        BY <2>2, <4>1, ConcatEmptySeq
    <3>2. CASE i # 0
      <4>1. i \in 1..n /\ i + 1 # 1
        BY <1>10, <3>2
      <4> QED
        BY <1>7, <1>8, <2>1, <2>2, <4>1
    <3> QED
      BY <3>1, <3>2
  <2>4. g[i + 1] \in Seq(Byte)
    BY <1>10, <2>2, <2>3, JoinIs
  <2>5. i + 1 \in 0..n
    BY <2>1
  <2> QED
    BY <2>1, <2>3, <2>4, <2>5 DEF s
<1>11. \A i \in 0..n : i \in T
  <2> HIDE DEF T
  <2> QED
    BY <1>1, <1>9, <1>10, CountUp
<1>12. Chained(d, n, g)
  <2>1. ASSUME NEW i \in 0..n - 1 PROVE g[i + 1] = g[i] \o FragmentAfter(d, n, i)
    <3>1. i + 1 \in 0..n /\ i + 1 > 0 /\ (i + 1) - 1 = i
      BY <1>1
    <3> QED
      BY <1>11, <3>1
  <2> QED
    BY <1>8, <1>11, <2>1 DEF Chained
<1>13. Following(d) = g[n]
  <2>1. n \in 1..n
    BY <1>1
  <2> QED
    BY <1>3, <1>6, <1>8, <2>1
<1> QED
  BY <1>12, <1>13 DEF n

(* A record that fits in the rest of its block is one fragment. *)
LEMMA WholeRecord ==
  ASSUME NEW p \in Nat, NEW data \in Data, ~(BlockSize - (p % BlockSize) < Len(data) + HeaderLength)
  PROVE  Record(p, data) = Fragment("FULL", data)
  BY Zenon DEF Record

(* A record that does not is cut where the block ends. *)
LEMMA CutRecord ==
  ASSUME NEW p \in Nat, NEW data \in Data, NEW first,
         BlockSize - (p % BlockSize) < Len(data) + HeaderLength,
         first = (BlockSize - (p % BlockSize)) - HeaderLength
  PROVE  Record(p, data) = Fragment("FIRST", SubSeq(data, 1, first))
                             \o Following(SubSeq(data, first + 1, Len(data)))
  BY Zenon DEF Record

(* A part of the data of a record. *)
LEMMA PartOfData ==
  ASSUME NEW data \in Data, NEW a \in Nat, NEW b \in Nat, a <= b, b <= Len(data)
  PROVE  /\ SubSeq(data, a + 1, b) \in Data /\ Len(SubSeq(data, a + 1, b)) = b - a
         /\ \A i \in 1..b - a : SubSeq(data, a + 1, b)[i] = data[a + i]
         /\ Len(data) \in Nat
<1> DEFINE x == a + 1
           s == SubSeq(data, x, b)
<1>1. Len(data) \in Nat /\ \A i \in 1..Len(data) : data[i] \in DataByte
  BY LenProperties, ElementOfSeq DEF Data
<1>2. x \in Int /\ b \in Int /\ \A i \in x..b : data[i] \in DataByte
  <2>1. \A i \in x..b : i \in 1..Len(data)
    BY <1>1
  <2> QED
    BY <1>1, <2>1
<1> HIDE DEF x
<1>3. /\ s \in Seq(DataByte) /\ Len(s) = IF x <= b THEN b - x + 1 ELSE 0
      /\ \A i \in 1..b - x + 1 : s[i] = data[x + i - 1]
  BY <1>2, SubSeqProperties
<1>4. b - x + 1 = b - a /\ Len(s) = b - a
  <2> HIDE DEF s
  <2> QED
    BY <1>3 DEF x
<1>5. ASSUME NEW i \in 1..b - a PROVE s[i] = data[a + i]
  <2>1. x + i - 1 = a + i /\ i \in 1..b - x + 1
    BY <1>4 DEF x
  <2> HIDE DEF s
  <2> QED
    BY <1>3, <2>1
<1> QED
  BY <1>1, <1>3, <1>4, <1>5 DEF x, Data

(* All of the data of a record. *)
LEMMA WholeData ==
  ASSUME NEW data \in Data
  PROVE  SubSeq(data, 0 + 1, Len(data)) = data
<1>1. SubSeq(data, 1, Len(data)) = data
  BY SubSeqFull DEF Data
<1> QED
  BY <1>1

(* A part of what follows the first fragment is a part of the data. *)
LEMMA PartOfPart ==
  ASSUME NEW data \in Data, NEW first \in Nat, first <= Len(data),
         NEW a \in Nat, NEW z \in Nat, a <= z, z <= Len(data) - first
  PROVE  SubSeq(SubSeq(data, first + 1, Len(data)), a + 1, z)
           = SubSeq(data, (first + a) + 1, first + z)
<1> DEFINE len == Len(data)
           d == SubSeq(data, first + 1, len)
           s == SubSeq(d, a + 1, z)
           t == SubSeq(data, (first + a) + 1, first + z)
<1>1. len \in Nat
  BY LenProperties DEF Data
<1>2. /\ d \in Data /\ Len(d) = len - first /\ \A i \in 1..len - first : d[i] = data[first + i]
  <2> HIDE DEF len
  <2> QED
    BY <1>1, PartOfData DEF len
<1> HIDE DEF d, len
<1>3. s \in Data /\ Len(s) = z - a /\ \A i \in 1..z - a : s[i] = d[a + i]
  <2>1. z <= Len(d)
    BY <1>2 DEF len
  <2> QED
    BY <1>2, <2>1, PartOfData
<1> DEFINE x == first + a
           y == first + z
<1>4. x \in Nat /\ y \in Nat /\ x <= y /\ y <= len /\ y - x = z - a
  BY <1>1 DEF len
<1>5. t \in Data /\ Len(t) = z - a /\ \A i \in 1..z - a : t[i] = data[x + i]
  <2> HIDE DEF x, y
  <2>1. SubSeq(data, x + 1, y) \in Data /\ Len(SubSeq(data, x + 1, y)) = y - x
        /\ \A i \in 1..y - x : SubSeq(data, x + 1, y)[i] = data[x + i]
    BY <1>4, PartOfData DEF len
  <2> QED
    BY <1>4, <2>1 DEF x, y
<1> HIDE DEF s, t
<1>6. ASSUME NEW i \in 1..Len(s) PROVE s[i] = t[i]
  <2>1. i \in 1..z - a /\ a + i \in 1..len - first /\ first + (a + i) = x + i
    BY <1>1, <1>3 DEF len
  <2> QED
    BY <1>2, <1>3, <1>5, <2>1
<1>7. s = t
  BY <1>3, <1>5, <1>6, SeqEqual DEF Data
<1> QED
  BY <1>7 DEF s, t, d, len

(* A record is written.                                                    *)

(* A record is written from a place where a header fits. *)
LEMMA RecordWritten ==
  ASSUME NEW F, NEW w \in Seq(Byte), NEW c \in Seq(Content), NEW m,
         Laid(F, w, c, "closed", m), NEW data \in Data,
         HeaderLength <= BlockSize - (Len(w) % BlockSize)
  PROVE  LET u == w \o Record(Len(w), data)
             r == [data |-> data, blocks |-> Block(Len(w))..Block(Len(u) - 1)]
         IN  /\ u \in Seq(Byte) /\ Len(w) < Len(u) /\ r \in Content
             /\ \E G : Laid(G, u, Append(c, r), "closed", 0)
<1> DEFINE l == Len(w)
           left == BlockSize - (l % BlockSize)
           u == w \o Record(l, data)
           r == [data |-> data, blocks |-> Block(l)..Block(Len(u) - 1)]
           k == Len(c) + 1
           e == Append(c, r)
           len == Len(data)
<1>1. l \in Nat /\ len \in Nat /\ left \in Nat /\ HeaderLength <= left /\ Bound(l) = l + left
      /\ l % BlockSize \in 0..BlockSize - 1
  <2>1. l \in Nat /\ len \in Nat
    BY LenProperties DEF Data
  <2>2. /\ l % BlockSize \in 0..BlockSize - 1 /\ Bound(l) \in Nat
        /\ Bound(l) - l = BlockSize - (l % BlockSize) /\ HeaderLength <= left
    BY <2>1, BoundIs
  <2> DEFINE x == l % BlockSize
  <2> HIDE DEF x
  <2>3. left = BlockSize - x /\ x \in 0..BlockSize - 1
    BY <2>2 DEF x
  <2> HIDE DEF l, left, len
  <2> QED
    BY SMTT(30), <2>1, <2>2, <2>3, Sizes DEF x
<1>2. SUFFICES /\ u \in Seq(Byte) /\ l < Len(u)
               /\ r \in Content => \E G : Laid(G, u, e, "closed", 0)
  <2>1. \A i \in Block(l)..Block(Len(u) - 1) : i \in Nat
    <3>1. ASSUME u \in Seq(Byte), l < Len(u) PROVE Block(l) \in Nat /\ Block(Len(u) - 1) \in Nat
      <4>1. Len(u) \in Nat
        BY <3>1, LenProperties
      <4>2. Len(u) - 1 \in Nat
        BY <1>1, <3>1, <4>1
      <4> QED
        BY <1>1, <4>2, BoundIs
    <3>2. Block(l) \in Nat
      BY <1>1, BoundIs
    <3> QED
      BY <3>2
  <2>2. r \in Content
    BY <2>1 DEF Content
  <2> QED
    BY <1>2, <2>2 DEF u, r, e
<1>3. ASSUME r \in Content
      PROVE  /\ Laid(F, w, e, "new", 0) /\ e \in Seq(Content) /\ Len(e) = k /\ e[k] = r
             /\ e[k].data = data /\ e[k].blocks = Block(l)..Block(Len(u) - 1)
  <2>1. r.data = data /\ r.blocks = Block(l)..Block(Len(u) - 1)
    OBVIOUS
  <2> HIDE DEF r
  <2>2. Laid(F, w, Append(c, r), "new", 0)
    BY <1>3, RecordOpened
  <2>3. /\ Append(c, r) \in Seq(Content) /\ Len(Append(c, r)) = Len(c) + 1
        /\ Append(c, r)[Len(c) + 1] = r
    BY <1>3, RecordOpened
  <2> QED
    BY <2>1, <2>2, <2>3
<1> DEFINE D(a, b) == SubSeq(data, a, b)
<1>4. ASSUME NEW a \in Nat, NEW b \in Nat, a >= 1, b <= len PROVE D(a, b) \in Data
  <2>1. \A i \in a..b : data[i] \in DataByte
    <3>1. \A i \in 1..len : data[i] \in DataByte
      BY ElementOfSeq DEF Data
    <3> HIDE DEF len
    <3> QED
      BY <1>1, <1>4, <3>1
  <2> QED
    BY <2>1, SubSeqProperties DEF Data
<1> HIDE DEF r, e
<1>5. CASE ~(left < len + HeaderLength)
  <2>1. D(0 + 1, len) = data
    BY WholeData
  <2>2. u = w \o Fragment("FULL", D(0 + 1, len))
    <3>1. Record(l, data) = Fragment("FULL", data)
      BY <1>1, <1>5, WholeRecord
    <3> HIDE DEF D
    <3> QED
      BY <2>1, <3>1
  <2>3. Fragment("FULL", data) \in Seq(Byte) /\ Len(Fragment("FULL", data)) = HeaderLength + len
    BY FragmentIs DEF FragmentTypes
  <2>4. u \in Seq(Byte) /\ Len(u) = l + (HeaderLength + len)
    <3> DEFINE t == Fragment("FULL", data)
    <3>1. t \in Seq(Byte) /\ Len(t) = HeaderLength + len
      BY <2>3
    <3>2. u = w \o t
      <4> HIDE DEF D, u
      <4> QED
        BY <2>1, <2>2
    <3> HIDE DEF t, u
    <3>3. w \o t \in Seq(Byte)
      BY <3>1, JoinIs
    <3>4. Len(w \o t) = Len(w) + Len(t)
      BY <3>1, JoinIs
    <3> QED
      BY <3>1, <3>2, <3>3, <3>4
  <2>5. l < Len(u) /\ Len(u) - 1 \in Nat /\ l <= Len(u) - 1
    <3> HIDE DEF u, l, len
    <3> QED
      BY <1>1, <2>4, Sizes
  <2>6. Block(l) \in Block(l)..Block(Len(u) - 1)
    <3>1. Block(l) <= Block(Len(u) - 1) /\ Block(l) \in Nat /\ Block(Len(u) - 1) \in Nat
      BY <1>1, <2>5, SameBlock, BoundIs
    <3> QED
      BY <3>1
  <2>7. ASSUME r \in Content PROVE \E G : Laid(G, u, e, "closed", 0)
    <3> DEFINE f == [at |-> l, type |-> "FULL", rec |-> Len(e), from |-> 0, to |-> len]
    <3>1. l + HeaderLength + (len - 0) <= Bound(l)
      <4> HIDE DEF u, l, len, left
      <4> QED
        BY <1>1, <1>5, Sizes
    <3>2. "FULL" \in FragmentTypes /\ len <= Len(e[Len(e)].data) /\ 0 <= len /\ 0 \in Nat
          /\ ("new" = "new" <=> "FULL" \in {"FULL", "FIRST"}) /\ len = Len(e[Len(e)].data)
          /\ "new" \in {"new", "within"} /\ e \in Seq(Content) /\ Laid(F, w, e, "new", 0)
          /\ Block(l) \in e[Len(e)].blocks /\ len \in Nat
      <4>1. /\ Laid(F, w, e, "new", 0) /\ e \in Seq(Content)
            /\ e[Len(e)].data = data /\ e[Len(e)].blocks = Block(l)..Block(Len(u) - 1)
        BY <1>3, <2>7
      <4>2. len \in Nat /\ len = Len(e[Len(e)].data) /\ Block(l) \in e[Len(e)].blocks
        <5> HIDE DEF u, l
        <5> QED
          BY <1>1, <2>6, <4>1
      <4> HIDE DEF len, u, l
      <4>3. "FULL" \in FragmentTypes /\ "FULL" \in {"FULL", "FIRST"} /\ "new" \in {"new", "within"}
        BY DEF FragmentTypes
      <4>4. len <= Len(e[Len(e)].data) /\ 0 <= len /\ 0 \in Nat
        BY <4>2
      <4> QED
        BY <4>1, <4>2, <4>3, <4>4
    <3>3. e[Len(e)].data = data
      BY <1>3, <2>7
    <3>4. Laid(F \union {f}, w \o Fragment("FULL", SubSeq(e[Len(e)].data, 0 + 1, len)), e,
               IF "FULL" \in {"FULL", "LAST"} THEN "closed" ELSE "within", len)
      <4> HIDE DEF f, u
      <4> QED
        BY <3>1, <3>2, PieceAdded DEF f
    <3>5. Laid(F \union {f}, u, e, "closed", len)
      BY <2>2, <3>3, <3>4
    <3>6. Laid(F \union {f}, u, e, "closed", 0)
      <4> HIDE DEF f, u
      <4> QED
        BY <3>5 DEF Laid, Layout, Linked, Begun
    <3> QED
      BY <3>6
  <2> QED
    BY <2>4, <2>5, <2>7
<1>6. CASE left < len + HeaderLength
  <2> DEFINE first == left - HeaderLength
             d == D(first + 1, len)
             n == (Len(d) + Capacity - 1) \div Capacity
             v == w \o Fragment("FIRST", D(0 + 1, first))
  <2>1. first \in Nat /\ first < len
    <3> HIDE DEF left, len
    <3> QED
      BY <1>1, <1>6, Sizes
  <2>2. d \in Data /\ Len(d) = len - first /\ Len(d) \in Nat \ {0}
    <3> HIDE DEF first
    <3>1. d \in Data
      BY <1>1, <1>4, <2>1
    <3>2. \A i \in first + 1..len : data[i] \in DataByte
      <4>1. \A i \in 1..len : data[i] \in DataByte
        BY ElementOfSeq DEF Data
      <4> HIDE DEF len
      <4> QED
        BY <1>1, <2>1, <4>1
    <3>3. Len(d) = IF first + 1 <= len THEN len - (first + 1) + 1 ELSE 0
      BY <1>1, <2>1, <3>2, SubSeqProperties
    <3> HIDE DEF d, len
    <3> QED
      BY <1>1, <2>1, <3>1, <3>3
  <2>3. /\ n \in Nat \ {0} /\ Len(d) <= n * Capacity
        /\ \A i \in 0..n - 1 : i * Capacity \in Nat /\ i * Capacity < Len(d)
        /\ \A i \in 0..n - 2 : (i + 1) * Capacity <= Len(d)
    <3> DEFINE size == Len(d)
    <3>1. size \in Nat \ {0}
      BY <2>2
    <3> HIDE DEF size
    <3> QED
      BY <3>1, BlocksTaken DEF size
  <2> HIDE DEF d, n
  <2>4. PICK g : Chained(d, n, g) /\ Following(d) = g[n]
    <3>1. Len(d) > 0
      BY <2>2
    <3> QED
      BY <2>2, <3>1, FollowingIs DEF n
  <2>5. D(0 + 1, first) \in Data
    <3>1. 0 + 1 \in Nat /\ 0 + 1 >= 1 /\ first \in Nat /\ first <= len
      <4> HIDE DEF first, len
      <4> QED
        BY <1>1, <2>1
    <3> HIDE DEF first, len, D
    <3> QED
      BY <1>4, <3>1
  <2>6. Len(D(0 + 1, first)) = first
    <3>1. \A i \in 1..first : data[i] \in DataByte
      <4>1. \A i \in 1..len : data[i] \in DataByte
        BY ElementOfSeq DEF Data
      <4> HIDE DEF len, first
      <4> QED
        BY <1>1, <2>1, <4>1
    <3>2. Len(SubSeq(data, 1, first)) = IF 1 <= first THEN first - 1 + 1 ELSE 0
      <4> HIDE DEF first
      <4> QED
        BY <2>1, <3>1, SubSeqProperties
    <3> HIDE DEF first
    <3> QED
      BY <2>1, <3>2
  <2> DEFINE fst == Fragment("FIRST", D(0 + 1, first))
  <2>7. fst \in Seq(Byte) /\ Len(fst) = left
    <3>1. fst \in Seq(Byte) /\ Len(fst) = HeaderLength + Len(D(0 + 1, first))
      BY <2>5, FragmentIs DEF FragmentTypes
    <3>2. Len(fst) = HeaderLength + first
      <4> HIDE DEF fst, D
      <4> QED
        BY <2>6, <3>1
    <3>3. HeaderLength + first = left
      <4> HIDE DEF left
      <4> QED
        BY <1>1, Sizes
    <3> QED
      BY <3>1, <3>2, <3>3
  <2> HIDE DEF fst
  <2>8. v \in Seq(Byte) /\ Len(v) = Bound(l)
    <3>1. v = w \o fst
      BY DEF fst
    <3>2. w \o fst \in Seq(Byte) /\ Len(w \o fst) = Len(w) + Len(fst)
      BY <2>7, JoinIs
    <3> QED
      BY <1>1, <2>7, <3>1, <3>2
  <2>9. u = v \o g[n] /\ g[n] \in Seq(Byte)
    <3>1. Record(l, data) = fst \o g[n]
      <4>1. Record(l, data) = Fragment("FIRST", SubSeq(data, 1, first))
                                \o Following(SubSeq(data, first + 1, len))
        BY <1>1, <1>6, CutRecord
      <4>2. 0 + 1 = 1
        OBVIOUS
      <4>3. fst = Fragment("FIRST", SubSeq(data, 1, first))
        BY <4>2 DEF fst
      <4>4. Following(SubSeq(data, first + 1, len)) = g[n]
        BY <2>4 DEF d
      <4> HIDE DEF first, len, l
      <4> QED
        BY <4>1, <4>3, <4>4
    <3>2. g[n] \in Seq(Byte)
      BY <2>3, <2>4 DEF Chained
    <3>3. v = w \o fst
      BY DEF fst
    <3> DEFINE t == g[n]
    <3>4. u = w \o (fst \o t)
      <4> HIDE DEF fst, l
      <4> QED
        BY <3>1
    <3> HIDE DEF t, u, v, fst
    <3>5. w \o (fst \o t) = (w \o fst) \o t
      <4>1. w \in Seq(Byte) /\ fst \in Seq(Byte) /\ t \in Seq(Byte)
        BY <2>7, <3>2 DEF t
      <4> QED
        BY <4>1, ConcatAssociative
    <3>6. u = v \o t
      BY <3>3, <3>4, <3>5
    <3> QED
      BY <3>2, <3>6 DEF t
  <2> HIDE DEF v, u, first
  <2> DEFINE U(i) == v \o g[i]
  <2>10. ASSUME NEW i \in 0..n PROVE U(i) \in Seq(Byte) /\ Len(U(i)) = Len(v) + Len(g[i])
                                     /\ Len(g[i]) \in Nat /\ g[i] \in Seq(Byte)
    <3>1. g[i] \in Seq(Byte)
      BY <2>4 DEF Chained
    <3> QED
      BY <2>8, <3>1, JoinIs
  <2>11. ASSUME NEW i \in 0..n - 1
         PROVE  /\ U(i + 1) = U(i) \o FragmentAfter(d, n, i)
                /\ Len(U(i)) < Len(U(i + 1)) /\ Len(U(i)) \in Nat /\ Len(U(i + 1)) \in Nat
    <3> DEFINE s == FragmentAfter(d, n, i)
    <3>1. s \in Seq(Byte) /\ Len(s) \in Nat /\ Len(s) >= HeaderLength
      <4>1. Len(d) > 0
        BY <2>2
      <4> QED
        BY <2>2, <4>1, FragmentAfterIs DEF n
    <3> HIDE DEF s
    <3>2. g[i + 1] = g[i] \o s
      BY <2>4 DEF Chained, s
    <3>3. i \in 0..n
      BY <2>3
    <3>4. U(i) \in Seq(Byte) /\ g[i] \in Seq(Byte)
      BY <2>10, <3>3
    <3>5. U(i + 1) = U(i) \o s
      <4> DEFINE t == g[i]
      <4>1. v \in Seq(Byte) /\ t \in Seq(Byte) /\ s \in Seq(Byte)
        BY <2>8, <3>1, <3>4
      <4>2. U(i + 1) = v \o (t \o s) /\ U(i) = v \o t
        BY <3>2
      <4> HIDE DEF t, U
      <4>3. v \o (t \o s) = (v \o t) \o s
        BY SMTT(30), <4>1, ConcatAssociative
      <4> QED
        BY <4>2, <4>3
    <3> HIDE DEF U
    <3>6. Len(U(i) \o s) = Len(U(i)) + Len(s) /\ Len(U(i)) \in Nat
      BY <3>1, <3>4, JoinIs
    <3> QED
      BY <3>1, <3>5, <3>6, Sizes DEF s
  <2>12. U(0) = v
    <3>1. g[0] = <<>>
      BY <2>4 DEF Chained
    <3> QED
      BY <2>8, <3>1, ConcatEmptySeq
  <2>13. U(n) = u /\ u \in Seq(Byte)
    <3>1. n \in 0..n
      BY <2>3
    <3> QED
      BY <2>9, <2>10, <3>1
  <2> HIDE DEF U
  <2> DEFINE S == {i \in 0..n : Len(v) <= Len(U(i)) /\ \A j \in 0..i : j # i => Len(U(j)) < Len(U(i))}
  <2>14. \A i \in 0..n : i \in S
    <3>1. 0 \in S
      <4>1. Len(v) \in Nat
        BY <2>8, LenProperties
      <4> QED
        BY <2>3, <2>12, <4>1
    <3>2. ASSUME NEW i \in Nat, i < n, i \in S PROVE i + 1 \in S
      <4>1. i \in 0..n - 1 /\ i + 1 \in 0..n
        BY <2>3, <3>2
      <4>2. Len(U(i)) < Len(U(i + 1)) /\ Len(U(i)) \in Nat /\ Len(U(i + 1)) \in Nat
        BY <2>11, <4>1
      <4>3. Len(v) <= Len(U(i)) /\ Len(v) \in Nat
        BY <2>8, <3>2, LenProperties
      <4>4. ASSUME NEW j \in 0..i + 1, j # i + 1 PROVE Len(U(j)) < Len(U(i + 1))
        <5>1. CASE j = i
          BY <4>2, <5>1
        <5>2. CASE j # i
          <6>1. j \in 0..i /\ j \in 0..n
            BY <2>3, <3>2, <4>4, <5>2
          <6>2. Len(U(j)) < Len(U(i)) /\ Len(U(j)) \in Nat
            BY <3>2, <5>2, <6>1, <2>10, LenProperties
          <6> QED
            BY <4>2, <6>2
        <5> QED
          BY <5>1, <5>2
      <4> QED
        BY <4>1, <4>2, <4>3, <4>4
    <3> HIDE DEF S
    <3> QED
      BY <2>3, <3>1, <3>2, CountUp
  <2>15. l < Len(u) /\ Len(u) \in Nat /\ Bound(l) <= Len(u)
    <3>1. n \in S
      BY <2>3, <2>14
    <3>2. Len(v) <= Len(u)
      BY <2>13, <3>1
    <3>3. l < Bound(l) /\ Bound(l) \in Nat
      BY <1>1, BoundIs
    <3>4. Len(u) \in Nat
      BY <2>13, LenProperties
    <3> QED
      BY <1>1, <2>8, <3>2, <3>3, <3>4
  <2>16. ASSUME NEW x \in Nat, l <= x, x < Len(u) PROVE Block(x) \in Block(l)..Block(Len(u) - 1)
    <3>1. Len(u) - 1 \in Nat /\ x <= Len(u) - 1
      BY <2>15, <2>16
    <3>2. Block(l) <= Block(x) /\ Block(x) <= Block(Len(u) - 1)
      BY <1>1, <2>16, <3>1, SameBlock
    <3>3. Block(x) \in Nat /\ Block(l) \in Nat /\ Block(Len(u) - 1) \in Nat
      BY <1>1, <3>1, BoundIs
    <3> QED
      BY <3>2, <3>3
  <2>17. ASSUME r \in Content PROVE \E G : Laid(G, u, e, "closed", 0)
    <3> DEFINE to(i) == IF i = n THEN len ELSE first + i * Capacity
               stage(i) == IF i = n THEN "closed" ELSE "within"
               T == {i \in 0..n : /\ \E G : Laid(G, U(i), e, stage(i), to(i))
                                  /\ i # n => Len(U(i)) % BlockSize = 0}
    <3>1. /\ Laid(F, w, e, "new", 0) /\ e \in Seq(Content) /\ e[Len(e)].data = data
          /\ e[Len(e)].blocks = Block(l)..Block(Len(u) - 1) /\ Len(e[Len(e)].data) = len
      BY <1>3, <2>17
    <3>2. 0 \in T
      <4> DEFINE f == [at |-> l, type |-> "FIRST", rec |-> Len(e), from |-> 0, to |-> first]
      <4>1. l + HeaderLength + (first - 0) <= Bound(l)
        <5> HIDE DEF l, left
        <5> QED
          BY <1>1, Sizes DEF first
      <4>2. Block(l) \in e[Len(e)].blocks
        BY <1>1, <2>15, <2>16, <3>1
      <4>3. "FIRST" \in FragmentTypes /\ first <= Len(e[Len(e)].data) /\ 0 <= first /\ 0 \in Nat
            /\ ("new" = "new" <=> "FIRST" \in {"FULL", "FIRST"}) /\ first \in Nat
            /\ ("FIRST" \in {"FULL", "LAST"} => first = Len(e[Len(e)].data))
            /\ "new" \in {"new", "within"}
        <5> HIDE DEF len
        <5> QED
          BY <1>1, <2>1, <3>1 DEF FragmentTypes
      <4>4. Laid(F \union {f}, w \o Fragment("FIRST", SubSeq(e[Len(e)].data, 0 + 1, first)), e,
                 IF "FIRST" \in {"FULL", "LAST"} THEN "closed" ELSE "within", first)
        <5> HIDE DEF f
        <5> QED
          BY <3>1, <4>1, <4>2, <4>3, PieceAdded DEF f
      <4>5. Laid(F \union {f}, v, e, "within", first)
        BY <3>1, <4>4 DEF v
      <4>6. 0 # n /\ 0 \in 0..n /\ first = first + 0 * Capacity
        BY <2>1, <2>3, Sizes
      <4>7. Len(v) % BlockSize = 0
        BY <1>1, <2>8, BoundOfMultiple
      <4>8. stage(0) = "within" /\ to(0) = first
        BY <4>6
      <4> HIDE DEF f, stage, to
      <4> QED
        BY <2>12, <4>5, <4>6, <4>7, <4>8
    <3>3. ASSUME NEW i \in Nat, i < n, i \in T PROVE i + 1 \in T
      <4>1. i \in 0..n - 1 /\ i + 1 \in 0..n /\ i # n /\ i \in 0..n
        BY <2>3, <3>3
      <4>2. PICK G : Laid(G, U(i), e, "within", first + i * Capacity)
        BY <3>3, <4>1
      <4> DEFINE p == Len(U(i))
                 z == IF i + 1 = n THEN Len(d) ELSE (i + 1) * Capacity
                 type == IF i + 1 = n THEN "LAST" ELSE "MIDDLE"
                 a == i * Capacity
      <4>3. p \in Nat /\ p % BlockSize = 0 /\ U(i) \in Seq(Byte) /\ Bound(p) = p + BlockSize
            /\ Bound(p) % BlockSize = 0
        <5>1. p \in Nat /\ p % BlockSize = 0 /\ U(i) \in Seq(Byte)
          BY <2>10, <3>3, <4>1, LenProperties
        <5> HIDE DEF p
        <5> QED
          BY <5>1, BoundOfMultiple
      <4>4. /\ a \in Nat /\ z \in Nat /\ a < Len(d) /\ a < z /\ z - a <= Capacity /\ z <= Len(d)
            /\ i + 1 # n => z = a + Capacity
        <5>1. a \in Nat /\ a < Len(d)
          BY <2>3, <4>1
        <5>2. (i + 1) * Capacity = a + Capacity
          <6>1. i \in Nat /\ Capacity \in Nat
            BY Sizes
          <6> QED
            BY <6>1
        <5>3. CASE i + 1 = n
          <6>1. Len(d) <= a + Capacity
            BY <2>3, <5>2, <5>3
          <6> HIDE DEF a
          <6> QED
            BY <2>2, <5>1, <5>3, <6>1, Sizes
        <5>4. CASE i + 1 # n
          <6>1. i \in 0..n - 2
            BY <2>3, <4>1, <5>4
          <6>2. (i + 1) * Capacity <= Len(d)
            BY <2>3, <6>1
          <6>3. z = a + Capacity /\ a + Capacity <= Len(d)
            BY <5>2, <5>4, <6>2
          <6> HIDE DEF a, z
          <6> QED
            BY <2>2, <5>1, <5>4, <6>3, Sizes
        <5> QED
          BY <5>3, <5>4
      <4> HIDE DEF a
      <4>5. to(i + 1) = first + z
        <5>1. i + 1 = n => first + z = len
          <6> HIDE DEF len
          <6> QED
            BY <1>1, <2>1, <2>2
        <5> QED
          BY <5>1
      <4> HIDE DEF z
      <4>6. SubSeq(data, (first + a) + 1, first + z) = SubSeq(d, a + 1, z)
        <5>1. first <= len /\ a <= z /\ z <= len - first
          <6> HIDE DEF len
          <6> QED
            BY <1>1, <2>1, <2>2, <4>4
        <5> QED
          BY <2>1, <4>4, <5>1, PartOfPart DEF d
      <4>7. FragmentAfter(d, n, i) = Fragment(type, SubSeq(data, (first + a) + 1, first + z))
        BY <4>6 DEF FragmentAfter, a, z
      <4>8. /\ type \in FragmentTypes /\ "within" \in {"new", "within"}
            /\ ("within" = "new" <=> type \in {"FULL", "FIRST"})
            /\ (type \in {"FULL", "LAST"} <=> i + 1 = n)
        BY DEF FragmentTypes
      <4> HIDE DEF type
      <4>9. /\ first + a \in Nat /\ first + z \in Nat /\ first + a <= first + z
            /\ first + z <= len
            /\ i + 1 = n => first + z = len
            /\ p + HeaderLength + ((first + z) - (first + a)) <= Bound(p)
        <5>1. first + a \in Nat /\ first + z \in Nat /\ first + a <= first + z
              /\ (first + z) - (first + a) = z - a
          BY <2>1, <4>4
        <5>2. first + z <= len
          <6>1. len \in Nat /\ z <= len - first
            BY <1>1, <2>2, <4>4
          <6> HIDE DEF len
          <6> QED
            BY <2>1, <4>4, <6>1
        <5>3. i + 1 = n => first + z = len
          BY <4>5
        <5>4. p + HeaderLength + (z - a) <= Bound(p)
          <6> HIDE DEF p
          <6> QED
            BY <4>3, <4>4, Sizes
        <5> QED
          BY <5>1, <5>2, <5>3, <5>4
      <4>10. Block(p) \in e[Len(e)].blocks
        <5>1. p < Len(u)
          <6>1. n \in S /\ i \in 0..n
            BY <2>3, <2>14, <4>1
          <6> QED
            BY <2>13, <4>1, <6>1
        <5>2. l <= p
          <6>1. Len(v) <= p
            BY <2>14, <4>1
          <6>2. Bound(l) \in Nat /\ l < Bound(l)
            BY <1>1, BoundIs
          <6> HIDE DEF p, l
          <6> QED
            BY <1>1, <2>8, <4>3, <6>1, <6>2
        <5> HIDE DEF p
        <5> QED
          BY <2>16, <3>1, <4>3, <5>1, <5>2
      <4> DEFINE f == [at |-> Len(U(i)), type |-> type, rec |-> Len(e), from |-> first + a, to |-> first + z]
                 t == U(i) \o Fragment(type, SubSeq(e[Len(e)].data, (first + a) + 1, first + z))
      <4>11. /\ Laid(G, U(i), e, "within", first + a)
             /\ first + z <= Len(e[Len(e)].data)
             /\ (type \in {"FULL", "LAST"} => first + z = Len(e[Len(e)].data))
             /\ Len(U(i)) + HeaderLength + ((first + z) - (first + a)) <= Bound(Len(U(i)))
             /\ Block(Len(U(i))) \in e[Len(e)].blocks
        BY <3>1, <4>2, <4>8, <4>9, <4>10 DEF a
      <4>12. /\ Laid(G \union {f}, t, e, IF type \in {"FULL", "LAST"} THEN "closed" ELSE "within", first + z)
             /\ Len(t) = Len(U(i)) + HeaderLength + ((first + z) - (first + a))
        <5> DEFINE from == first + a
                   upto == first + z
        <5> HIDE DEF f, from, upto, len
        <5>1. /\ Laid(G, U(i), e, "within", from) /\ from \in Nat /\ upto \in Nat /\ from <= upto
              /\ upto <= Len(e[Len(e)].data)
              /\ (type \in {"FULL", "LAST"} => upto = Len(e[Len(e)].data))
              /\ Len(U(i)) + HeaderLength + (upto - from) <= Bound(Len(U(i)))
          BY <4>9, <4>11 DEF from, upto
        <5>2. /\ Laid(G \union {f}, U(i) \o Fragment(type, SubSeq(e[Len(e)].data, from + 1, upto)), e,
                      IF type \in {"FULL", "LAST"} THEN "closed" ELSE "within", upto)
              /\ Len(U(i) \o Fragment(type, SubSeq(e[Len(e)].data, from + 1, upto)))
                   = Len(U(i)) + HeaderLength + (upto - from)
          <6> DEFINE t0 == U(i)
          <6>1. /\ t0 \in Seq(Byte) /\ e \in Seq(Content) /\ Laid(G, t0, e, "within", from)
                /\ Len(t0) + HeaderLength + (upto - from) <= Bound(Len(t0))
                /\ Block(Len(t0)) \in e[Len(e)].blocks
            BY <3>1, <4>3, <4>11, <5>1
          <6>2. f = [at |-> Len(t0), type |-> type, rec |-> Len(e), from |-> from, to |-> upto]
            BY DEF f, from, upto
          <6> HIDE DEF t0
          <6>3. Laid(G \union {f}, t0 \o Fragment(type, SubSeq(e[Len(e)].data, from + 1, upto)), e,
                      IF type \in {"FULL", "LAST"} THEN "closed" ELSE "within", upto)
            BY <4>8, <5>1, <6>1, <6>2, PieceAdded
          <6>4. Len(t0 \o Fragment(type, SubSeq(e[Len(e)].data, from + 1, upto)))
                   = Len(t0) + HeaderLength + (upto - from)
            <7> DEFINE s == SubSeq(e[Len(e)].data, from + 1, upto)
                       fr == Fragment(type, s)
            <7>1. s \in Data /\ Len(s) = upto - from
              BY <3>1, <5>1, PartOfData
            <7> HIDE DEF s
            <7>2. fr \in Seq(Byte) /\ Len(fr) = HeaderLength + (upto - from)
              BY <4>8, <7>1, FragmentIs
            <7> HIDE DEF fr
            <7>3. Len(t0 \o fr) = Len(t0) + Len(fr) /\ Len(t0) \in Nat
              BY <6>1, <7>2, JoinIs
            <7>4. Len(t0 \o fr) = Len(t0) + HeaderLength + (upto - from)
              BY <5>1, <7>2, <7>3, Sizes
            <7> QED
              BY <7>4 DEF fr, s
          <6> QED
            BY <6>3, <6>4 DEF t0
        <5> QED
          BY <5>2 DEF from, upto
      <4>13. t = U(i + 1)
        BY <2>11, <3>1, <4>1, <4>7
      <4> HIDE DEF f, t
      <4>14. Laid(G \union {f}, U(i + 1), e, stage(i + 1), to(i + 1))
        BY <4>5, <4>8, <4>12, <4>13
      <4>15. i + 1 # n => Len(U(i + 1)) % BlockSize = 0
        <5> SUFFICES ASSUME i + 1 # n PROVE Len(U(i + 1)) % BlockSize = 0
          OBVIOUS
        <5>1. (first + z) - (first + a) = Capacity
          <6>1. z = a + Capacity
            BY <4>4
          <6> QED
            BY <2>1, <4>4, <6>1, Sizes
        <5>2. Len(t) = p + BlockSize
          <6>1. Len(t) = p + HeaderLength + Capacity
            BY <4>12, <5>1
          <6> HIDE DEF p
          <6> QED
            BY <4>3, <6>1, Sizes
        <5> QED
          BY <4>3, <4>13, <5>2
      <4> HIDE DEF stage, to
      <4> QED
        BY <4>1, <4>14, <4>15
    <3>4. \A i \in 0..n : i \in T
      <4> HIDE DEF T
      <4> QED
        BY <2>3, <3>2, <3>3, CountUp
    <3>5. PICK G : Laid(G, U(n), e, "closed", len)
      <4>1. n \in T
        BY <2>3, <3>4
      <4> QED
        BY <4>1
    <3>6. Laid(G, u, e, "closed", 0)
      BY <2>13, <3>5 DEF Laid, Layout, Linked, Begun
    <3> QED
      BY <3>6
  <2> QED
    BY <2>13, <2>15, <2>17
<1> QED
  BY <1>5, <1>6

(* The place in its block is the same after whole blocks. *)
LEMMA SamePlace ==
  ASSUME NEW q \in Nat, q % BlockSize = 0, NEW p \in Nat
  PROVE  (q + p) % BlockSize = p % BlockSize /\ Block(q + p) \in Nat
<1> DEFINE s == q + p
           b == Block(s)
           c == Block(p)
           d == Block(q)
           w == BlockSize
           x == w * b
           y == w * (c + d)
           r == p % w
           t == s % w
<1>1. w \in Nat \ {0} /\ s \in Nat /\ b \in Nat /\ c \in Nat /\ d \in Nat
  <2>1. w \in Nat \ {0} /\ s \in Nat
    BY Sizes
  <2>2. b \in Nat /\ c \in Nat /\ d \in Nat
    <3> HIDE DEF s
    <3> QED
      BY <2>1, BoundIs
  <2> QED
    BY <2>1, <2>2
<1>2. s = x + t /\ t \in 0..w - 1
  <2> HIDE DEF s
  <2> QED
    BY <1>1, BoundIs
<1>3. p = w * c + r /\ r \in 0..w - 1
  BY BoundIs
<1>4. q = w * d
  BY BoundOfMultiple
<1>5. w * (c + d) = w * c + w * d /\ w * c \in Nat /\ w * d \in Nat
  <2> HIDE DEF w, c, d
  <2> QED
    BY <1>1
<1>6. s = y + r
  <2> DEFINE m == w * c
             n == w * d
  <2>1. y = m + n /\ m \in Nat /\ n \in Nat /\ p = m + r /\ q = n
    BY <1>3, <1>4, <1>5
  <2> HIDE DEF m, n, y, r
  <2> QED
    BY <1>1, <1>3, <2>1
<1> HIDE DEF s
<1>7. x \in Nat /\ y \in Nat /\ r \in Nat /\ t \in Nat /\ r < w /\ t < w
  <2>1. x \in Nat /\ y \in Nat
    <3> HIDE DEF b, c, d, w
    <3> QED
      BY <1>1
  <2> HIDE DEF x, y
  <2> QED
    BY <1>1, <1>2, <1>3, <2>1
<1> DEFINE e == c + d
<1>8. b <= e /\ e <= b
  <2>1. x < w * e + w /\ w * e < x + w
    <3> HIDE DEF x, r, t, w, b
    <3> QED
      BY <1>1, <1>2, <1>6, <1>7
  <2>2. e \in Int /\ b \in Int /\ w \in Nat \ {0}
    BY <1>1
  <2> HIDE DEF w, b, e
  <2> QED
    BY <2>1, <2>2, Multiples DEF x
<1>9. x = y
  <2> HIDE DEF w, b, c, d
  <2> QED
    BY <1>1, <1>8
<1>10. r = t
  <2> HIDE DEF x, y, r, t, w
  <2> QED
    BY <1>2, <1>6, <1>7, <1>9
<1> QED
  BY <1>1, <1>10 DEF s

(* After a trailer a header fits in the block. *)
LEMMA TrailerIs ==
  ASSUME NEW p \in Nat
  PROVE  LET t == Trailer(p)
         IN  /\ t \in Seq(Byte) /\ Len(t) \in Nat /\ p + Len(t) \in Nat
             /\ HeaderLength <= BlockSize - ((p + Len(t)) % BlockSize)
             /\ \/ t = <<>>
                \/ /\ t = Zeros(BlockSize - (p % BlockSize)) /\ p % BlockSize # 0
                   /\ p + Len(t) = Bound(p)
<1> DEFINE r == p % BlockSize
           left == BlockSize - r
<1>1. r \in 0..BlockSize - 1 /\ Bound(p) = p + left /\ Bound(p) \in Nat /\ left \in Nat
  <2>1. r \in 0..BlockSize - 1 /\ Bound(p) - p = BlockSize - r /\ Bound(p) \in Nat
    BY BoundIs
  <2> HIDE DEF r
  <2> QED
    BY <2>1, Sizes
<1>2. CASE left < HeaderLength
  <2>1. Trailer(p) = Zeros(left)
    BY <1>2 DEF Trailer
  <2>2. Zeros(left) \in Seq(Byte) /\ Len(Zeros(left)) = left
    BY <1>1, ZerosAre
  <2>3. r # 0
    BY <1>1, <1>2, Sizes
  <2>4. (p + left) % BlockSize = 0
    BY <1>1, BoundOfMultiple
  <2> QED
    BY <1>1, <2>1, <2>2, <2>3, <2>4, Sizes
<1>3. CASE ~(left < HeaderLength)
  <2>1. Trailer(p) = <<>> /\ Len(Trailer(p)) = 0 /\ Trailer(p) \in Seq(Byte)
    BY <1>3 DEF Trailer
  <2>2. p + 0 = p
    OBVIOUS
  <2>3. HeaderLength <= BlockSize - r
    <3> HIDE DEF r
    <3> QED
      BY <1>1, <1>3, Sizes
  <2> QED
    BY <2>1, <2>2, <2>3
<1> QED
  BY <1>2, <1>3

(* What is written for a record consists of bytes. *)
LEMMA RecordIs ==
  ASSUME NEW p \in Nat, NEW data \in Data, HeaderLength <= BlockSize - (p % BlockSize)
  PROVE  Record(p, data) \in Seq(Byte)
<1> DEFINE left == BlockSize - (p % BlockSize)
           first == left - HeaderLength
           len == Len(data)
<1>1. CASE ~(left < len + HeaderLength)
  BY <1>1, WholeRecord, FragmentIs DEF FragmentTypes
<1>2. CASE left < len + HeaderLength
  <2>1. p % BlockSize \in 0..BlockSize - 1 /\ len \in Nat
    BY BoundIs, LenProperties DEF Data
  <2>2. first \in Nat /\ first < len
    <3> DEFINE r == p % BlockSize
    <3>1. r \in 0..BlockSize - 1 /\ left = BlockSize - r
      BY <2>1
    <3> HIDE DEF r, len, left
    <3> QED
      BY <1>2, <2>1, <3>1, Sizes DEF left, r
  <2>3. Record(p, data) = Fragment("FIRST", SubSeq(data, 1, first))
                            \o Following(SubSeq(data, first + 1, len))
    BY <1>2, CutRecord
  <2> HIDE DEF first
  <2> DEFINE d == SubSeq(data, first + 1, len)
             c == SubSeq(data, 0 + 1, first)
             n == (Len(d) + Capacity - 1) \div Capacity
  <2>4. d \in Data /\ Len(d) \in Nat /\ Len(d) > 0
    <3>1. d \in Data /\ Len(d) = len - first
      BY <2>1, <2>2, PartOfData
    <3> HIDE DEF d, len
    <3> QED
      BY <2>1, <2>2, <3>1
  <2>5. c \in Data
    <3>1. 0 <= first /\ first <= len /\ 0 \in Nat
      BY <2>1, <2>2
    <3> HIDE DEF len
    <3> QED
      BY <2>2, <3>1, PartOfData DEF len
  <2>6. Following(d) \in Seq(Byte)
    <3> HIDE DEF d
    <3>1. PICK g : Chained(d, n, g) /\ Following(d) = g[n]
      BY <2>4, FollowingIs
    <3>2. n \in Nat
      BY <2>4, BlocksTaken
    <3> HIDE DEF n
    <3>3. n \in 0..n
      BY <3>2
    <3> QED
      BY <3>1, <3>3 DEF Chained
  <2>7. Fragment("FIRST", c) \in Seq(Byte)
    BY <2>5, FragmentIs DEF FragmentTypes
  <2>8. Record(p, data) = Fragment("FIRST", c) \o Following(d)
    <3>1. 0 + 1 = 1
      OBVIOUS
    <3>2. SubSeq(data, 1, first) = c
      BY <3>1
    <3> QED
      BY <2>3, <3>2
  <2> HIDE DEF c, d
  <2> QED
    BY <2>6, <2>7, <2>8, ConcatProperties
<1> QED
  BY <1>1, <1>2

(* A record is written after a trailer, where a header fits. *)
LEMMA WriteIs ==
  ASSUME NEW buf \in Seq(Byte), NEW data \in Data
  PROVE  LET start == buf \o Trailer(Len(buf))
         IN  /\ Write(buf, data) = start \o Record(Len(start), data)
             /\ Write(buf, data) \in Seq(Byte) /\ start \in Seq(Byte)
             /\ Record(Len(start), data) \in Seq(Byte)
             /\ Len(start) = Len(buf) + Len(Trailer(Len(buf)))
             /\ HeaderLength <= BlockSize - (Len(start) % BlockSize)
<1> DEFINE t == Trailer(Len(buf))
           start == buf \o t
<1>1. /\ t \in Seq(Byte) /\ Len(buf) \in Nat
      /\ HeaderLength <= BlockSize - ((Len(buf) + Len(t)) % BlockSize)
  <2>1. Len(buf) \in Nat
    BY LenProperties
  <2> QED
    BY <2>1, TrailerIs
<1> HIDE DEF t
<1>2. start \in Seq(Byte) /\ Len(start) = Len(buf) + Len(t) /\ Len(start) \in Nat
  <2>1. start \in Seq(Byte) /\ Len(start) = Len(buf) + Len(t)
    BY <1>1, ConcatProperties
  <2> HIDE DEF start
  <2> QED
    BY <2>1, LenProperties
<1> HIDE DEF start
<1>3. Record(Len(start), data) \in Seq(Byte)
  BY <1>1, <1>2, RecordIs
<1> DEFINE rec == Record(Len(start), data)
<1>4. Write(buf, data) = start \o rec
  BY DEF Write, start, t
<1> HIDE DEF rec
<1>5. start \o rec \in Seq(Byte)
  BY <1>2, <1>3, ConcatProperties DEF rec
<1> QED
  BY <1>1, <1>2, <1>3, <1>4, <1>5 DEF rec, start, t

(* What is written depends on the place in the block alone. *)
LEMMA SameTrailer ==
  ASSUME NEW p \in Nat, NEW q \in Nat, p % BlockSize = q % BlockSize
  PROVE  Trailer(p) = Trailer(q) /\ \A data : Record(p, data) = Record(q, data)
<1>1. Trailer(p) = Trailer(q)
  BY DEF Trailer
<1>2. \A data : Record(p, data) = Record(q, data)
  BY Zenon DEF Record
<1> QED
  BY <1>1, <1>2

(* A record is written after whole blocks as it is without them. *)
LEMMA Shifted ==
  ASSUME NEW w \in Seq(Byte), NEW buf \in Seq(Byte), Len(w) % BlockSize = 0, NEW data \in Data
  PROVE  /\ w \o Write(buf, data) = Write(w \o buf, data)
         /\ w \o buf \in Seq(Byte) /\ Len(w \o buf) = Len(w) + Len(buf)
         /\ Trailer(Len(w \o buf)) = Trailer(Len(buf))
<1> DEFINE t == Trailer(Len(buf))
           start == buf \o t
           rec == Record(Len(start), data)
           wb == w \o buf
           t2 == Trailer(Len(wb))
           start2 == wb \o t2
           rec2 == Record(Len(start2), data)
<1>1. /\ Write(buf, data) = start \o rec /\ start \in Seq(Byte) /\ rec \in Seq(Byte)
      /\ Len(start) = Len(buf) + Len(t)
  BY WriteIs
<1>2. wb \in Seq(Byte) /\ Len(wb) = Len(w) + Len(buf) /\ Len(w) \in Nat /\ Len(buf) \in Nat
  BY ConcatProperties, LenProperties
<1>3. t \in Seq(Byte) /\ Len(t) \in Nat
  BY <1>2, TrailerIs
<1> HIDE DEF wb
<1>4. Write(wb, data) = start2 \o rec2 /\ Len(start2) = Len(wb) + Len(t2)
  BY <1>2, WriteIs
<1>5. t2 = t
  <2>1. Len(wb) % BlockSize = Len(buf) % BlockSize /\ Len(wb) \in Nat
    BY <1>2, SamePlace
  <2> QED
    BY <1>2, <2>1, SameTrailer
<1>6. rec2 = rec
  <2>1. Len(start) \in Nat /\ Len(start2) = Len(w) + Len(start)
    <3> HIDE DEF t, t2, start, start2
    <3> QED
      BY <1>1, <1>2, <1>3, <1>4, <1>5
  <2>2. Len(start2) % BlockSize = Len(start) % BlockSize /\ Len(start2) \in Nat
    <3> HIDE DEF start, start2
    <3> QED
      BY <1>2, <2>1, SamePlace
  <2> HIDE DEF start, start2
  <2> QED
    BY <2>1, <2>2, SameTrailer
<1> HIDE DEF rec, rec2, t, t2
<1>7. start2 = w \o start
  BY <1>2, <1>3, <1>5, ConcatAssociative DEF wb
<1> HIDE DEF start, start2
<1>8. w \o (start \o rec) = (w \o start) \o rec
  <2>1. start \in Seq(Byte) /\ rec \in Seq(Byte)
    BY <1>1
  <2>2. (w \o start) \o rec = w \o (start \o rec)
    BY <2>1, ConcatAssociative
  <2> QED
    BY <2>2
<1>9. w \o Write(buf, data) = Write(wb, data)
  BY <1>1, <1>4, <1>6, <1>7, <1>8
<1> QED
  BY <1>2, <1>5, <1>9 DEF wb, t, t2

(* A record is written: the zeros before it, and its fragments. *)
LEMMA Written ==
  ASSUME NEW F, NEW w \in Seq(Byte), NEW c \in Seq(Content), NEW m,
         Laid(F, w, c, "closed", m), NEW data \in Data
  PROVE  LET u == Write(w, data)
             first == Len(w) + Len(Trailer(Len(w)))
             r == [data |-> data, blocks |-> Block(first)..Block(Len(u) - 1)]
         IN  /\ u \in Seq(Byte) /\ Len(w) < Len(u) /\ r \in Content
             /\ \A b \in r.blocks : b * BlockSize < Len(u)
             /\ \E G : Laid(G, u, Append(c, r), "closed", 0)
<1> DEFINE t == Trailer(Len(w))
           start == w \o t
           u == Write(w, data)
           r == [data |-> data, blocks |-> Block(Len(start))..Block(Len(u) - 1)]
<1>1. /\ u = start \o Record(Len(start), data) /\ u \in Seq(Byte) /\ start \in Seq(Byte)
      /\ Len(start) = Len(w) + Len(t) /\ HeaderLength <= BlockSize - (Len(start) % BlockSize)
  BY WriteIs
<1>2. Len(w) \in Nat
  BY LenProperties
<1>3. \E n : Laid(F, start, c, "closed", n)
  <2>1. CASE t = <<>>
    <3>1. start = w
      BY <2>1, ConcatEmptySeq
    <3> QED
      BY <3>1
  <2>2. CASE t = Zeros(BlockSize - (Len(w) % BlockSize)) /\ Len(w) % BlockSize # 0
    <3>1. Laid(F, w \o Zeros(BlockSize - (Len(w) % BlockSize)), c, "closed", 0)
      BY <2>2, ZerosAdded
    <3> QED
      BY <2>2, <3>1
  <2> QED
    BY <1>2, <2>1, <2>2, TrailerIs
<1>4. PICK n : Laid(F, start, c, "closed", n)
  BY <1>3
<1>5. Len(t) \in Nat
  BY <1>2, TrailerIs
<1> HIDE DEF t, start, u
<1>6. LET v == start \o Record(Len(start), data)
          q == [data |-> data, blocks |-> Block(Len(start))..Block(Len(v) - 1)]
      IN  /\ v \in Seq(Byte) /\ Len(start) < Len(v) /\ q \in Content
          /\ \E G : Laid(G, v, Append(c, q), "closed", 0)
  BY <1>1, <1>4, RecordWritten
<1>7. /\ Len(start) < Len(u) /\ r \in Content /\ \E G : Laid(G, u, Append(c, r), "closed", 0)
  BY <1>1, <1>6
<1>8. Len(u) \in Nat /\ Len(start) \in Nat
  BY <1>1, LenProperties
<1>9. Len(w) < Len(u) /\ Len(u) - 1 \in Nat
  BY <1>1, <1>2, <1>5, <1>7, <1>8
<1>10. ASSUME NEW b \in r.blocks PROVE b * BlockSize < Len(u)
  <2> DEFINE e == Len(u) - 1
             a == Block(e)
  <2>1. e \in Nat /\ a \in Nat /\ e = BlockSize * a + (e % BlockSize) /\ e % BlockSize \in 0..BlockSize - 1
        /\ BlockSize \in Nat
    <3> HIDE DEF e
    <3> QED
      BY <1>9, BoundIs, Sizes DEF e
  <2>2. b \in Int /\ b <= a /\ b \in Nat
    <3>1. b \in Block(Len(start))..a /\ Block(Len(start)) \in Nat
      BY <1>8, BoundIs
    <3> HIDE DEF a
    <3> QED
      BY <2>1, <3>1
  <2>3. b * BlockSize <= BlockSize * a
    <3> DEFINE d == a - b
    <3>1. d \in Nat /\ a = b + d
      BY <2>1, <2>2
    <3> HIDE DEF d, a
    <3>2. BlockSize * (b + d) = b * BlockSize + BlockSize * d /\ BlockSize * d \in Nat
          /\ b * BlockSize \in Nat
      BY <2>1, <2>2, <3>1
    <3> QED
      BY <3>1, <3>2
  <2> DEFINE x == b * BlockSize
             y == BlockSize * a
             z == e % BlockSize
  <2>4. x \in Int /\ y \in Int /\ z \in Nat /\ e = y + z /\ x <= y
    <3> HIDE DEF a, e
    <3> QED
      BY <2>1, <2>2, <2>3
  <2> HIDE DEF x, y, z
  <2>5. x < Len(u)
    BY <1>8, <2>4
  <2> QED
    BY <2>5 DEF x
<1> QED
  BY <1>1, <1>7, <1>9, <1>10 DEF u, t

(* The folds of a batch and of a flush.                                    *)

IsEncoding(rs, D, h) ==
  h = [s \in SUBSET D |-> IF s = {} THEN <<>> ELSE Write(h[s \ {Max(s)}], rs[Max(s)])]

(* Encoded is the last of the steps of its fold. *)
LEMMA EncodingIsChosen ==
  ASSUME NEW rs
  PROVE  Encoded(rs) = (CHOOSE h : IsEncoding(rs, DOMAIN rs, h))[DOMAIN rs]
  BY Zenon DEF Encoded, FoldLeft, MapThenFoldSet, IsEncoding

FlushStart == [file |-> file, content |-> content, refused |-> <<>>]
FlushStep(f, rs) ==
  LET buf == PadLastBlock(Encoded(rs))
  IN  IF f.refused # <<>> THEN f
      ELSE IF ~exclusive /\ Len(buf) > MaxRequest THEN [f EXCEPT !.refused = rs]
      ELSE [f EXCEPT !.file = @ \o buf, !.content = @ \o Located(rs, Len(f.file))]
IsFlushing(bs, D, h) ==
  h = [s \in SUBSET D |-> IF s = {} THEN FlushStart ELSE FlushStep(h[s \ {Max(s)}], bs[Max(s)])]

(* Flushed is the last of the steps of its fold. *)
LEMMA FlushingIsChosen ==
  ASSUME NEW bs
  PROVE  Flushed(bs) = (CHOOSE h : IsFlushing(bs, DOMAIN bs, h))[DOMAIN bs]
  BY Zenon DEF Flushed, FoldLeft, MapThenFoldSet, IsFlushing, FlushStart, FlushStep

(* The fold of Encoded has a step for every set of records. *)
LEMMA EncodingExists ==
  ASSUME NEW rs, NEW n \in Nat
  PROVE  \E h : IsEncoding(rs, 1..n, h)
<1> DEFINE T == {i \in 0..n : \E h : IsEncoding(rs, 1..i, h)}
<1>1. 0 \in T
  <2> DEFINE h == [s \in SUBSET (1..0) |-> <<>>]
  <2>1. \A s \in SUBSET (1..0) : s = {}
    OBVIOUS
  <2>2. IsEncoding(rs, 1..0, h)
    BY <2>1 DEF IsEncoding
  <2> QED
    BY <2>2
<1>2. ASSUME NEW i \in Nat, i < n, i \in T PROVE i + 1 \in T
  <2>1. PICK h : IsEncoding(rs, 1..i, h)
    BY <1>2
  <2> DEFINE last == i + 1
  <2> DEFINE k == [s \in SUBSET (1..last) |->
                     IF last \in s THEN Write(h[s \ {last}], rs[last]) ELSE h[s]]
  <2>2. \A s \in SUBSET (1..last) : /\ s \ {last} \in SUBSET (1..i)
                                    /\ last \notin s => s \in SUBSET (1..i)
    OBVIOUS
  <2>3. \A s \in SUBSET (1..last) : last \in s => Max(s) = last
    BY MaxIs
  <2>4. \A s \in SUBSET (1..i) : /\ s \in SUBSET (1..last) /\ last \notin s
                                 /\ s \ {Max(s)} \in SUBSET (1..i)
    <3>1. \A s \in SUBSET (1..i) : s \in SUBSET (1..last) /\ last \notin s
      OBVIOUS
    <3>2. \A s, x : s \in SUBSET (1..i) => s \ {x} \in SUBSET (1..i)
      OBVIOUS
    <3> QED
      BY <3>1, <3>2
  <2> HIDE DEF last
  <2>5. \A s \in SUBSET (1..i) : k[s] = h[s] /\ k[s \ {Max(s)}] = h[s \ {Max(s)}]
    BY <2>4
  <2>6. \A s \in SUBSET (1..i) :
          h[s] = IF s = {} THEN <<>> ELSE Write(h[s \ {Max(s)}], rs[Max(s)])
    BY <2>1 DEF IsEncoding
  <2>7. \A s \in SUBSET (1..last) :
          k[s] = IF s = {} THEN <<>> ELSE Write(k[s \ {Max(s)}], rs[Max(s)])
    <3> SUFFICES ASSUME NEW s \in SUBSET (1..last)
                 PROVE  k[s] = IF s = {} THEN <<>> ELSE Write(k[s \ {Max(s)}], rs[Max(s)])
      OBVIOUS
    <3>1. CASE last \in s
      <4>1. k[s] = Write(h[s \ {last}], rs[last]) /\ s # {}
        BY <3>1
      <4>2. k[s \ {last}] = h[s \ {last}]
        BY <2>2, <2>5
      <4> HIDE DEF k
      <4> QED
        BY <3>1, <4>1, <4>2, <2>3
    <3>2. CASE last \notin s
      <4>1. s \in SUBSET (1..i)
        BY <2>2, <3>2
      <4> HIDE DEF k
      <4> QED
        BY <4>1, <2>5, <2>6
    <3> QED
      BY <3>1, <3>2
  <2>8. k = [s \in SUBSET (1..last) |-> k[s]]
    OBVIOUS
  <2> HIDE DEF k
  <2>9. IsEncoding(rs, 1..last, k)
    BY <2>7, <2>8 DEF IsEncoding
  <2> QED
    BY <1>2, <2>9 DEF last
<1> HIDE DEF T
<1>3. \A i \in 0..n : i \in T
  BY <1>1, <1>2, CountUp
<1> QED
  BY <1>3 DEF T

(* ... round after round. *)
LEMMA EncodingGoes ==
  ASSUME NEW rs, NEW n \in Nat, NEW h, IsEncoding(rs, 1..n, h)
  PROVE  h[1..0] = <<>> /\ \A i \in 0..n - 1 : h[1..i + 1] = Write(h[1..i], rs[i + 1])
<1>1. \A s \in SUBSET (1..n) :
        h[s] = IF s = {} THEN <<>> ELSE Write(h[s \ {Max(s)}], rs[Max(s)])
  BY DEF IsEncoding
<1>2. h[1..0] = <<>>
  <2>1. 1..0 = {} /\ {} \in SUBSET (1..n)
    OBVIOUS
  <2> QED
    BY <1>1, <2>1
<1>3. ASSUME NEW i \in 0..n - 1 PROVE h[1..i + 1] = Write(h[1..i], rs[i + 1])
  <2> DEFINE s == 1..i + 1
  <2>1. s \in SUBSET (1..n) /\ s # {}
    <3>1. i + 1 \in s /\ \A x \in s : x \in 1..n
      OBVIOUS
    <3> QED
      BY <3>1
  <2>2. Max(s) = i + 1 /\ s \ {i + 1} = 1..i
    <3>1. i + 1 \in s /\ s \in SUBSET (1..i + 1) /\ i \in Nat
      OBVIOUS
    <3>2. s \ {i + 1} = 1..i
      BY <3>1
    <3> HIDE DEF s
    <3> QED
      BY <3>1, <3>2, MaxIs
  <2> HIDE DEF s
  <2>3. h[s] = Write(h[s \ {Max(s)}], rs[Max(s)])
    BY <1>1, <2>1
  <2> QED
    BY <2>2, <2>3 DEF s
<1> QED
  BY <1>2, <1>3

(* The fold of Flushed has a step for every set of batches. *)
LEMMA FlushingExists ==
  ASSUME NEW bs, NEW n \in Nat
  PROVE  \E h : IsFlushing(bs, 1..n, h)
<1> DEFINE T == {i \in 0..n : \E h : IsFlushing(bs, 1..i, h)}
<1>1. 0 \in T
  <2> DEFINE h == [s \in SUBSET (1..0) |-> FlushStart]
  <2>1. \A s \in SUBSET (1..0) : s = {}
    OBVIOUS
  <2>2. IsFlushing(bs, 1..0, h)
    BY <2>1 DEF IsFlushing
  <2> QED
    BY <2>2
<1>2. ASSUME NEW i \in Nat, i < n, i \in T PROVE i + 1 \in T
  <2>1. PICK h : IsFlushing(bs, 1..i, h)
    BY <1>2
  <2> DEFINE last == i + 1
  <2> DEFINE k == [s \in SUBSET (1..last) |->
                     IF last \in s THEN FlushStep(h[s \ {last}], bs[last]) ELSE h[s]]
  <2>2. \A s \in SUBSET (1..last) : /\ s \ {last} \in SUBSET (1..i)
                                    /\ last \notin s => s \in SUBSET (1..i)
    OBVIOUS
  <2>3. \A s \in SUBSET (1..last) : last \in s => Max(s) = last
    BY MaxIs
  <2>4. \A s \in SUBSET (1..i) : /\ s \in SUBSET (1..last) /\ last \notin s
                                 /\ s \ {Max(s)} \in SUBSET (1..i)
    <3>1. \A s \in SUBSET (1..i) : s \in SUBSET (1..last) /\ last \notin s
      OBVIOUS
    <3>2. \A s, x : s \in SUBSET (1..i) => s \ {x} \in SUBSET (1..i)
      OBVIOUS
    <3> QED
      BY <3>1, <3>2
  <2> HIDE DEF last
  <2>5. \A s \in SUBSET (1..i) : k[s] = h[s] /\ k[s \ {Max(s)}] = h[s \ {Max(s)}]
    BY <2>4
  <2>6. \A s \in SUBSET (1..i) :
          h[s] = IF s = {} THEN FlushStart ELSE FlushStep(h[s \ {Max(s)}], bs[Max(s)])
    BY <2>1 DEF IsFlushing
  <2>7. \A s \in SUBSET (1..last) :
          k[s] = IF s = {} THEN FlushStart ELSE FlushStep(k[s \ {Max(s)}], bs[Max(s)])
    <3> SUFFICES ASSUME NEW s \in SUBSET (1..last)
                 PROVE  k[s] = IF s = {} THEN FlushStart ELSE FlushStep(k[s \ {Max(s)}], bs[Max(s)])
      OBVIOUS
    <3>1. CASE last \in s
      <4>1. k[s] = FlushStep(h[s \ {last}], bs[last]) /\ s # {}
        BY <3>1
      <4>2. k[s \ {last}] = h[s \ {last}]
        BY <2>2, <2>5
      <4> HIDE DEF k
      <4> QED
        BY <3>1, <4>1, <4>2, <2>3
    <3>2. CASE last \notin s
      <4>1. s \in SUBSET (1..i)
        BY <2>2, <3>2
      <4> HIDE DEF k
      <4> QED
        BY <4>1, <2>5, <2>6
    <3> QED
      BY <3>1, <3>2
  <2>8. k = [s \in SUBSET (1..last) |-> k[s]]
    OBVIOUS
  <2> HIDE DEF k
  <2>9. IsFlushing(bs, 1..last, k)
    BY <2>7, <2>8 DEF IsFlushing
  <2> QED
    BY <1>2, <2>9 DEF last
<1> HIDE DEF T
<1>3. \A i \in 0..n : i \in T
  BY <1>1, <1>2, CountUp
<1> QED
  BY <1>3 DEF T

(* ... round after round. *)
LEMMA FlushingGoes ==
  ASSUME NEW bs, NEW n \in Nat, NEW h, IsFlushing(bs, 1..n, h)
  PROVE  h[1..0] = FlushStart /\ \A i \in 0..n - 1 : h[1..i + 1] = FlushStep(h[1..i], bs[i + 1])
<1>1. \A s \in SUBSET (1..n) :
        h[s] = IF s = {} THEN FlushStart ELSE FlushStep(h[s \ {Max(s)}], bs[Max(s)])
  BY DEF IsFlushing
<1>2. h[1..0] = FlushStart
  <2>1. 1..0 = {} /\ {} \in SUBSET (1..n)
    OBVIOUS
  <2> QED
    BY <1>1, <2>1
<1>3. ASSUME NEW i \in 0..n - 1 PROVE h[1..i + 1] = FlushStep(h[1..i], bs[i + 1])
  <2> DEFINE s == 1..i + 1
  <2>1. s \in SUBSET (1..n) /\ s # {}
    <3>1. i + 1 \in s /\ \A x \in s : x \in 1..n
      OBVIOUS
    <3> QED
      BY <3>1
  <2>2. Max(s) = i + 1 /\ s \ {i + 1} = 1..i
    <3>1. i + 1 \in s /\ s \in SUBSET (1..i + 1) /\ i \in Nat
      OBVIOUS
    <3>2. s \ {i + 1} = 1..i
      BY <3>1
    <3> HIDE DEF s
    <3> QED
      BY <3>1, <3>2, MaxIs
  <2> HIDE DEF s
  <2>3. h[s] = FlushStep(h[s \ {Max(s)}], bs[Max(s)])
    BY <1>1, <2>1
  <2> QED
    BY <2>2, <2>3 DEF s
<1> QED
  BY <1>2, <1>3

(* Encoded adds one record at a time. *)
LEMMA EncodedIs ==
  ASSUME NEW rs \in Seq(Data)
  PROVE  /\ Encoded(<<>>) = <<>>
         /\ \A i \in 0..Len(rs) - 1 :
              Encoded(SubSeq(rs, 1, i + 1)) = Write(Encoded(SubSeq(rs, 1, i)), rs[i + 1])
<1> DEFINE n == Len(rs)
           Chosen(i) == CHOOSE h : IsEncoding(SubSeq(rs, 1, i), 1..i, h)
<1>1. n \in Nat
  BY LenProperties
<1>2. ASSUME NEW i \in 0..n
      PROVE  /\ Encoded(SubSeq(rs, 1, i)) = Chosen(i)[1..i]
             /\ IsEncoding(SubSeq(rs, 1, i), 1..i, Chosen(i))
             /\ \A j \in 1..i : SubSeq(rs, 1, i)[j] = rs[j]
  <2> DEFINE s == SubSeq(rs, 1, i)
  <2>1. i \in Int /\ i \in Nat /\ \A j \in 1..i : rs[j] \in Data
    <3>1. \A j \in 1..n : rs[j] \in Data
      BY ElementOfSeq
    <3> HIDE DEF n
    <3> QED
      BY <1>1, <3>1
  <2>2. /\ s \in Seq(Data) /\ Len(s) = IF 1 <= i THEN i - 1 + 1 ELSE 0
        /\ \A j \in 1..i - 1 + 1 : s[j] = rs[1 + j - 1]
    BY <2>1, SubSeqProperties
  <2> HIDE DEF s
  <2>3. Len(s) = i /\ \A j \in 1..i : s[j] = rs[j]
    BY <2>1, <2>2
  <2>4. DOMAIN s = 1..i
    BY <2>2, <2>3
  <2>5. \E h : IsEncoding(s, 1..i, h)
    BY <2>1, EncodingExists
  <2>6. IsEncoding(s, 1..i, CHOOSE h : IsEncoding(s, 1..i, h))
    BY <2>5, Zenon
  <2>7. Encoded(s) = (CHOOSE h : IsEncoding(s, 1..i, h))[1..i]
    BY <2>4, EncodingIsChosen
  <2> QED
    BY <2>3, <2>6, <2>7 DEF s
<1> HIDE DEF n, Chosen
<1>3. Encoded(<<>>) = <<>>
  <2>1. 0 \in 0..n
    BY <1>1
  <2>2. SubSeq(rs, 1, 0) = <<>>
    BY SubSeqEmpty
  <2>3. Chosen(0)[1..0] = <<>>
    BY <1>2, <2>1, EncodingGoes
  <2> QED
    BY <1>2, <2>1, <2>2, <2>3
<1>4. ASSUME NEW i \in 0..n - 1
      PROVE  Encoded(SubSeq(rs, 1, i + 1)) = Write(Encoded(SubSeq(rs, 1, i)), rs[i + 1])
  <2> DEFINE g == Chosen(i)
             h == Chosen(i + 1)
             a == SubSeq(rs, 1, i)
             b == SubSeq(rs, 1, i + 1)
             T == {j \in 0..i : g[1..j] = h[1..j]}
  <2>1. i \in 0..n /\ i + 1 \in 0..n /\ i \in Nat /\ i + 1 \in Nat
    BY <1>1
  <2>2. /\ Encoded(a) = g[1..i] /\ IsEncoding(a, 1..i, g) /\ \A j \in 1..i : a[j] = rs[j]
        /\ Encoded(b) = h[1..i + 1] /\ IsEncoding(b, 1..i + 1, h)
        /\ \A j \in 1..i + 1 : b[j] = rs[j]
    BY <1>2, <2>1
  <2> HIDE DEF g, h, a, b
  <2>3. /\ g[1..0] = <<>> /\ \A j \in 0..i - 1 : g[1..j + 1] = Write(g[1..j], a[j + 1])
        /\ h[1..0] = <<>> /\ \A j \in 0..(i + 1) - 1 : h[1..j + 1] = Write(h[1..j], b[j + 1])
    <3>1. g[1..0] = <<>> /\ \A j \in 0..i - 1 : g[1..j + 1] = Write(g[1..j], a[j + 1])
      BY <2>1, <2>2, EncodingGoes
    <3>2. h[1..0] = <<>> /\ \A j \in 0..(i + 1) - 1 : h[1..j + 1] = Write(h[1..j], b[j + 1])
      <4> DEFINE m == i + 1
      <4>1. m \in Nat /\ IsEncoding(b, 1..m, h)
        BY <2>1, <2>2
      <4> HIDE DEF m
      <4>2. h[1..0] = <<>> /\ \A j \in 0..m - 1 : h[1..j + 1] = Write(h[1..j], b[j + 1])
        BY <4>1, EncodingGoes
      <4> QED
        BY <4>2 DEF m
    <3> QED
      BY <3>1, <3>2
  <2>4. 0 \in T
    BY <2>1, <2>3
  <2>5. ASSUME NEW j \in Nat, j < i, j \in T PROVE j + 1 \in T
    <3>1. j \in 0..i - 1 /\ j \in 0..(i + 1) - 1 /\ j + 1 \in 1..i /\ j + 1 \in 1..i + 1
          /\ j + 1 \in 0..i
      BY <2>1, <2>5
    <3>2. a[j + 1] = b[j + 1] /\ g[1..j] = h[1..j]
      BY <2>2, <2>5, <3>1
    <3>3. g[1..j + 1] = Write(g[1..j], a[j + 1]) /\ h[1..j + 1] = Write(h[1..j], b[j + 1])
      BY <2>3, <3>1
    <3> QED
      BY <3>1, <3>2, <3>3
  <2> HIDE DEF T
  <2>6. \A j \in 0..i : j \in T
    BY <2>1, <2>4, <2>5, CountUp
  <2>7. g[1..i] = h[1..i]
    BY <2>1, <2>6 DEF T
  <2>8. h[1..i + 1] = Write(h[1..i], b[i + 1]) /\ b[i + 1] = rs[i + 1]
    <3>1. i \in 0..(i + 1) - 1 /\ i + 1 \in 1..i + 1
      BY <2>1
    <3> QED
      BY <2>2, <2>3, <3>1
  <2>9. Encoded(b) = Write(Encoded(a), rs[i + 1])
    BY <2>2, <2>7, <2>8
  <2> QED
    BY <2>9 DEF a, b
<1> QED
  BY <1>3, <1>4 DEF n

(* A batch is written.                                                     *)

(* The last block of a batch is filled up. *)
LEMMA Padded ==
  ASSUME NEW F, NEW w \in Seq(Byte), NEW buf \in Seq(Byte), NEW c \in Seq(Content), NEW m,
         Laid(F, w \o buf, c, "closed", m), Len(w) % BlockSize = 0
  PROVE  LET u == w \o PadLastBlock(buf)
         IN  /\ u \in Seq(Byte) /\ Len(u) % BlockSize = 0 /\ Len(w \o buf) <= Len(u)
             /\ Laid(F, u, c, "closed", 0)
<1> DEFINE r == Len(buf) % BlockSize
           v == w \o buf
           z == Zeros(BlockSize - r)
<1>1. /\ v \in Seq(Byte) /\ Len(v) = Len(w) + Len(buf) /\ Len(w) \in Nat /\ Len(buf) \in Nat
      /\ Len(v) \in Nat
  <2>1. v \in Seq(Byte) /\ Len(v) = Len(w) + Len(buf) /\ Len(w) \in Nat /\ Len(buf) \in Nat
    BY ConcatProperties, LenProperties
  <2> HIDE DEF v
  <2> QED
    BY <2>1
<1>2. Len(v) % BlockSize = r
  BY <1>1, SamePlace
<1>3. CASE r = 0
  <2>1. PadLastBlock(buf) = buf
    BY <1>3 DEF PadLastBlock
  <2> HIDE DEF v, r
  <2>2. Laid(F, v, c, "closed", 0)
    BY DEF v, Laid, Layout, Linked, Begun
  <2>3. Len(v) <= Len(v)
    BY <1>1
  <2> QED
    BY <1>1, <1>2, <1>3, <2>1, <2>2, <2>3 DEF v
<1>4. CASE r # 0
  <2>1. PadLastBlock(buf) = buf \o z
    BY <1>4 DEF PadLastBlock
  <2>2. BlockSize - r \in Nat
    <3>1. r \in 0..BlockSize - 1
      BY <1>1, BoundIs
    <3> HIDE DEF r
    <3> QED
      BY <3>1, Sizes
  <2>3. z \in Seq(Byte)
    BY <2>2, ZerosAre
  <2> HIDE DEF z, v
  <2>4. w \o (buf \o z) = v \o z
    BY <2>3, ConcatAssociative DEF v
  <2>5. /\ v \o z \in Seq(Byte) /\ Len(v \o z) = Bound(Len(v)) /\ Laid(F, v \o z, c, "closed", 0)
    <3>1. Laid(F, v, c, "closed", m) /\ Len(v) % BlockSize # 0
      BY <1>2, <1>4 DEF v
    <3>2. z = Zeros(BlockSize - (Len(v) % BlockSize))
      BY <1>2 DEF z
    <3> QED
      BY <1>1, <3>1, <3>2, ZerosAdded
  <2>6. Bound(Len(v)) % BlockSize = 0 /\ Len(v) <= Bound(Len(v))
    <3>1. Len(v) < Bound(Len(v)) /\ Bound(Len(v)) \in Nat /\ Bound(Len(v)) % BlockSize = 0
      BY <1>1, BoundIs, BoundOfMultiple
    <3> QED
      BY <1>1, <3>1
  <2> QED
    BY <2>1, <2>4, <2>5, <2>6 DEF v
<1> QED
  BY <1>3, <1>4

(* A batch is appended. *)
LEMMA BatchWritten ==
  ASSUME NEW F, NEW w \in Seq(Byte), NEW c \in Seq(Content), NEW m,
         Laid(F, w, c, "closed", m), Len(w) % BlockSize = 0, NEW rs \in Seq(Data)
  PROVE  LET u == w \o PadLastBlock(Encoded(rs))
             d == c \o Located(rs, Len(w))
         IN  /\ u \in Seq(Byte) /\ Len(u) % BlockSize = 0 /\ Len(w) <= Len(u)
             /\ d \in Seq(Content) /\ Located(rs, Len(w)) \in Seq(Content)
             /\ \A i \in DOMAIN Located(rs, Len(w)) :
                  \A b \in Located(rs, Len(w))[i].blocks : b * BlockSize < Len(u)
             /\ \E G : Laid(G, u, d, "closed", 0)
<1> DEFINE n == Len(rs)
           L == Located(rs, Len(w))
           k == Len(c)
           e(i) == Encoded(SubSeq(rs, 1, i))
           end(i) == Len(w) + Len(e(i))
           first(i) == end(i) + Len(Trailer(end(i)))
           Held(i, d) == /\ d \in Seq(Content) /\ Len(d) = k + i
                         /\ \A j \in 1..k : d[j] = c[j]
                         /\ \A j \in 1..i : d[k + j] = L[j]
           T == {i \in 0..n :
                   /\ e(i) \in Seq(Byte) /\ Len(w) <= Len(w \o e(i))
                   /\ \A j \in 1..i : /\ L[j] \in Content
                                      /\ \A b \in L[j].blocks : b * BlockSize < Len(w \o e(i))
                   /\ \E G, d, q : Held(i, d) /\ Laid(G, w \o e(i), d, "closed", q)}
<1>1. n \in Nat /\ k \in Nat /\ Len(w) \in Nat /\ DOMAIN rs = 1..n /\ \A i \in 1..n : rs[i] \in Data
  BY LenProperties, ElementOfSeq
<1>2. e(0) = <<>> /\ \A i \in 0..n - 1 : e(i + 1) = Write(e(i), rs[i + 1])
  <2>1. SubSeq(rs, 1, 0) = <<>>
    BY SubSeqEmpty
  <2> QED
    BY <2>1, EncodedIs
<1>3. DOMAIN L = 1..n /\ L = [i \in 1..n |-> L[i]]
  BY <1>1 DEF Located
<1>4. ASSUME NEW i \in 0..n - 1
      PROVE  L[i + 1] = [data |-> rs[i + 1], blocks |-> Block(first(i))..Block(end(i + 1) - 1)]
  <2>1. i + 1 \in 1..n /\ (i + 1) - 1 = i
    BY <1>1
  <2>2. L[i + 1] = [data |-> rs[i + 1],
                    blocks |-> ((Len(w) + Len(Encoded(SubSeq(rs, 1, (i + 1) - 1))))
                                  + Len(Trailer(Len(w) + Len(Encoded(SubSeq(rs, 1, (i + 1) - 1))))))
                                 \div BlockSize
                               ..((Len(w) + Len(Encoded(SubSeq(rs, 1, i + 1)))) - 1) \div BlockSize]
    BY <1>1, <2>1, Zenon DEF Located
  <2> QED
    BY <2>1, <2>2 DEF Block
<1> HIDE DEF n, L, e
<1>5. 0 \in T
  <2>1. e(0) \in Seq(Byte) /\ w \o e(0) = w
    <3>1. <<>> \in Seq(Byte)
      OBVIOUS
    <3>2. w \o <<>> = w
      BY ConcatEmptySeq
    <3> QED
      BY <1>2, <3>1, <3>2
  <2>2. Held(0, c)
    BY <1>1
  <2>3. Laid(F, w \o e(0), c, "closed", m)
    BY <2>1
  <2>4. 0 \in 0..n /\ Len(w) <= Len(w \o e(0)) /\ 1..0 = {}
    BY <1>1, <2>1
  <2> QED
    BY <2>1, <2>2, <2>3, <2>4
<1>6. ASSUME NEW i \in Nat, i < n, i \in T PROVE i + 1 \in T
  <2>1. i \in 0..n - 1 /\ i + 1 \in 0..n /\ i + 1 \in 1..n
    BY <1>1, <1>6
  <2>2. /\ e(i) \in Seq(Byte) /\ Len(w) <= Len(w \o e(i))
        /\ \A j \in 1..i : /\ L[j] \in Content
                           /\ \A b \in L[j].blocks : b * BlockSize < Len(w \o e(i))
    BY <1>6
  <2>3. PICK G, d, q : Held(i, d) /\ Laid(G, w \o e(i), d, "closed", q)
    BY <1>6
  <2> DEFINE data == rs[i + 1]
             v == w \o e(i)
             u == w \o e(i + 1)
             a == Len(v) + Len(Trailer(Len(v)))
             r == [data |-> data, blocks |-> Block(a)..Block(Len(u) - 1)]
             d2 == Append(d, r)
  <2>4. data \in Data /\ e(i + 1) = Write(e(i), data)
    BY <1>1, <1>2, <2>1
  <2>5. e(i + 1) \in Seq(Byte) /\ u \in Seq(Byte) /\ Len(u) = Len(w) + Len(e(i + 1))
    <3>1. e(i + 1) \in Seq(Byte)
      BY <2>2, <2>4, WriteIs
    <3> QED
      BY <3>1, ConcatProperties
  <2>6. /\ v \in Seq(Byte) /\ Len(v) = Len(w) + Len(e(i)) /\ u = Write(v, data)
    BY <2>2, <2>4, Shifted
  <2>7. L[i + 1] = r
    BY <1>4, <2>1, <2>5, <2>6
  <2>8. d \in Seq(Content) /\ Laid(G, v, d, "closed", q)
    BY <2>3
  <2> HIDE DEF u, v, data, T
  <2>9. /\ Len(v) < Len(u) /\ r \in Content
        /\ \A b \in r.blocks : b * BlockSize < Len(u)
        /\ \E H : Laid(H, u, Append(d, r), "closed", 0)
    BY <2>4, <2>6, <2>8, Written
  <2> HIDE DEF r
  <2>10. Held(i + 1, d2)
    <3>1. /\ d2 \in Seq(Content) /\ Len(d2) = Len(d) + 1 /\ d2[Len(d) + 1] = r
          /\ \A j \in 1..Len(d) : d2[j] = d[j]
      BY <2>8, <2>9, AppendProperties
    <3>2. /\ Len(d) = k + i /\ \A j \in 1..k : d[j] = c[j]
          /\ \A j \in 1..i : d[k + j] = L[j]
      BY <2>3
    <3> HIDE DEF d2
    <3>3. ASSUME NEW j \in 1..k PROVE d2[j] = c[j]
      <4>1. j \in 1..Len(d)
        BY <1>1, <3>2
      <4> QED
        BY <3>1, <3>2, <4>1
    <3>4. ASSUME NEW j \in 1..i + 1 PROVE d2[k + j] = L[j]
      <4>1. CASE j = i + 1
        <5>1. k + j = Len(d) + 1
          BY <1>1, <3>2, <4>1
        <5> QED
          BY <2>7, <3>1, <4>1, <5>1
      <4>2. CASE j # i + 1
        <5>1. j \in 1..i /\ k + j \in 1..Len(d)
          BY <1>1, <3>2, <4>2
        <5> QED
          BY <3>1, <3>2, <5>1
      <4> QED
        BY <4>1, <4>2
    <3>5. Len(d2) = k + (i + 1)
      BY <1>1, <3>1, <3>2
    <3> QED
      BY <3>1, <3>3, <3>4, <3>5
  <2>11. ASSUME NEW j \in 1..i + 1
         PROVE  L[j] \in Content /\ \A b \in L[j].blocks : b * BlockSize < Len(u)
    <3>1. CASE j = i + 1
      BY <2>7, <2>9, <3>1
    <3>2. CASE j # i + 1
      <4>1. j \in 1..i
        BY <3>2
      <4>2. L[j] \in Content /\ \A b \in L[j].blocks : b * BlockSize < Len(v)
        BY <2>2, <4>1 DEF v
      <4>3. L[j].blocks \in SUBSET Nat
        BY <4>2 DEF Content
      <4>4. ASSUME NEW b \in L[j].blocks PROVE b * BlockSize < Len(u)
        <5>1. b * BlockSize \in Nat
          BY <4>3, Sizes
        <5>2. b * BlockSize < Len(v) /\ Len(v) \in Nat /\ Len(u) \in Nat
          BY <2>5, <2>6, <4>2, LenProperties
        <5> DEFINE x == b * BlockSize
        <5> HIDE DEF x
        <5>3. x < Len(u)
          BY <2>9, <5>1, <5>2 DEF x
        <5> QED
          BY <5>3 DEF x
      <4> QED
        BY <4>2, <4>4
    <3> QED
      BY <3>1, <3>2
  <2>12. Len(w) <= Len(u)
    <3>1. Len(v) \in Nat /\ Len(u) \in Nat
      BY <2>5, <2>6, LenProperties
    <3>2. Len(w) <= Len(v)
      BY <2>2 DEF v
    <3> QED
      BY <1>1, <2>9, <3>1, <3>2
  <2>13. PICK H : Laid(H, u, d2, "closed", 0)
    BY <2>9
  <2> HIDE DEF d2
  <2>14. \E G2, d3, q2 : Held(i + 1, d3) /\ Laid(G2, w \o e(i + 1), d3, "closed", q2)
    BY <2>10, <2>13 DEF u
  <2> HIDE DEF Held
  <2> QED
    BY <2>1, <2>5, <2>11, <2>12, <2>14 DEF T, u
<1>7. n \in T
  <2> HIDE DEF T
  <2>1. \A i \in 0..n : i \in T
    BY <1>1, <1>5, <1>6, CountUp
  <2> QED
    BY <1>1, <2>1
<1>8. e(n) = Encoded(rs)
  BY SubSeqFull DEF e, n
<1>9. L \in Seq(Content) /\ Len(L) = n
  <2>1. \A j \in 1..n : L[j] \in Content
    BY <1>7
  <2> QED
    BY <1>1, <1>3, <2>1
<1>10. PICK G, d, q : Held(n, d) /\ Laid(G, w \o e(n), d, "closed", q)
  BY <1>7
<1>11. d = c \o L
  <2>1. c \o L \in Seq(Content) /\ Len(c \o L) = Len(c) + Len(L)
    BY <1>9, JoinIs
  <2>2. \A i \in 1..Len(c) : (c \o L)[i] = c[i]
    BY <1>9, JoinIs
  <2>3. \A i \in 1..Len(L) : (c \o L)[Len(c) + i] = L[i]
    BY <1>9, JoinIs
  <2> DEFINE x == c \o L
  <2> HIDE DEF x
  <2>4. /\ x \in Seq(Content) /\ Len(x) = k + n /\ \A i \in 1..k : x[i] = c[i]
        /\ \A i \in 1..n : x[k + i] = L[i]
    BY <1>9, <2>1, <2>2, <2>3 DEF x
  <2>5. /\ d \in Seq(Content) /\ Len(d) = k + n /\ \A i \in 1..k : d[i] = c[i]
        /\ \A i \in 1..n : d[k + i] = L[i]
    BY <1>10
  <2> HIDE DEF k
  <2>6. ASSUME NEW i \in 1..Len(d) PROVE d[i] = x[i]
    <3>1. CASE i \in 1..k
      BY <2>4, <2>5, <3>1
    <3>2. CASE i \notin 1..k
      <4>1. i - k \in 1..n /\ k + (i - k) = i
        BY <1>1, <2>5, <3>2 DEF k
      <4> QED
        BY <2>4, <2>5, <4>1
    <3> QED
      BY <3>1, <3>2
  <2>7. d = x
    BY <2>4, <2>5, <2>6, SeqEqual
  <2> QED
    BY <2>7 DEF x
<1>12. e(n) \in Seq(Byte) /\ d \in Seq(Content)
  BY <1>7, <1>10
<1> DEFINE u == w \o PadLastBlock(e(n))
<1>13. /\ u \in Seq(Byte) /\ Len(u) % BlockSize = 0 /\ Len(w \o e(n)) <= Len(u)
       /\ Laid(G, u, d, "closed", 0)
  <2> DEFINE buf == e(n)
  <2>1. buf \in Seq(Byte) /\ d \in Seq(Content) /\ Laid(G, w \o buf, d, "closed", q)
    BY <1>10, <1>12
  <2> HIDE DEF buf
  <2>2. /\ w \o PadLastBlock(buf) \in Seq(Byte) /\ Len(w \o PadLastBlock(buf)) % BlockSize = 0
        /\ Len(w \o buf) <= Len(w \o PadLastBlock(buf))
        /\ Laid(G, w \o PadLastBlock(buf), d, "closed", 0)
    BY <2>1, Padded
  <2> QED
    BY <2>2 DEF buf
<1> HIDE DEF u
<1>14. Len(w \o e(n)) \in Nat /\ Len(u) \in Nat /\ Len(w) <= Len(w \o e(n))
  <2>1. w \o e(n) \in Seq(Byte)
    BY <1>12, JoinIs
  <2> QED
    BY <1>7, <1>13, <2>1, LenProperties
<1>15. ASSUME NEW i \in DOMAIN L, NEW b \in L[i].blocks PROVE b * BlockSize < Len(u)
  <2>1. i \in 1..n
    BY <1>3
  <2>2. L[i] \in Content /\ b * BlockSize < Len(w \o e(n))
    BY <1>7, <2>1
  <2>3. b * BlockSize \in Nat
    <3>1. b \in Nat
      BY <2>2 DEF Content
    <3> QED
      BY <3>1, Sizes
  <2> DEFINE x == b * BlockSize
  <2> HIDE DEF x
  <2>4. x < Len(u)
    BY <1>13, <1>14, <2>2, <2>3 DEF x
  <2> QED
    BY <2>4 DEF x
<1>16. Len(w) <= Len(u)
  BY <1>1, <1>13, <1>14
<1> QED
  BY <1>8, <1>9, <1>11, <1>12, <1>13, <1>15, <1>16 DEF u, L

(* The reader, and the invariant.                                          *)

FilesType ==
  /\ exclusive \in BOOLEAN /\ reading \in BOOLEAN /\ eof \in BOOLEAN /\ blanked \in BOOLEAN
  /\ file \in Seq(Byte) /\ Len(file) % BlockSize = 0
  /\ content \in Seq(Content)
  /\ \A i \in DOMAIN content : \A b \in content[i].blocks : b * BlockSize < Len(file)
  /\ buffers \in [Writers -> Seq(Data)] /\ lengths \in Seq(Nat)
  /\ mishaps \in 0..MaxMishaps /\ damaged \in SUBSET Nat
  /\ position \in 0..Len(file) /\ ahead \in 0..Len(file) - position
  /\ (chunk = <<>> \/ \E d \in Data : chunk = <<d>>)
  /\ records \in Seq(Data)

NotRead ==
  /\ position = 0 /\ ahead = 0 /\ chunk = <<>> /\ records = <<>> /\ eof = FALSE
  /\ damaged = {} /\ blanked = FALSE

(* What the reader at pos has returned, and the fragments it keeps.        *)
Kept(F, c, dam, pos, chk) ==
  \A g \in F : g.at = pos /\ ~Opening(g) /\ c[g.rec].blocks \cap dam = {}
                 => chk = <<SubSeq(c[g.rec].data, 1, g.from)>>
Returned(F, c, dam, pos, recs) ==
  \A f \in F : Ending(f) /\ f.at < pos /\ c[f.rec].blocks \cap dam = {}
                 => \E j \in DOMAIN recs : recs[j] = c[f.rec].data
InOrderOf(F, c, blank, pos, recs, where) ==
  /\ \A i, j \in DOMAIN recs : i < j => where[i] < where[j]
  /\ \A i \in DOMAIN recs : /\ \E f \in F : f.rec = where[i] /\ Ending(f) /\ f.at < pos
                            /\ ~blank => recs[i] = c[where[i]].data
Ordered(F, c, blank, pos, recs) ==
  \E where \in [DOMAIN recs -> DOMAIN c] : InOrderOf(F, c, blank, pos, recs, where)
Started(F, c, pos, chk) ==
  chk # <<>> => \E g \in F : /\ g.at = pos /\ ~Opening(g)
                             /\ chk = <<SubSeq(c[g.rec].data, 1, g.from)>>
Seen(F, c, dam, blank, pos, chk, recs) ==
  /\ Stop(F, pos) /\ Kept(F, c, dam, pos, chk) /\ Returned(F, c, dam, pos, recs)
  /\ Ordered(F, c, blank, pos, recs)
  /\ blank \/ Started(F, c, pos, chk)

Holds(F) ==
  /\ Layout(F, Len(file), content, "closed", 0)
  /\ Stored(F, file, content, damaged, blanked) /\ Gaps(F, file)
  /\ Seen(F, content, damaged, blanked, position, chunk, records)
FileInv ==
  /\ FilesType /\ (~reading => NotRead)
  /\ (eof => position = Len(file))
  /\ \E F : Holds(F)

(* No reader has begun. *)
LEMMA NothingSeen ==
  ASSUME NEW F, NEW l \in Nat, NEW c \in Seq(Content), NEW m, Layout(F, l, c, "closed", m),
         NEW dam, NEW blank
  PROVE  /\ Seen(F, c, dam, blank, 0, <<>>, <<>>)
         /\ \A g \in F : g.at \in Nat /\ (g.at = 0 => Opening(g)) /\ ~(g.at < 0)
<1>1. ASSUME NEW g \in F
      PROVE  g.at \in Nat /\ EndOf(g) \in Nat /\ g.at < EndOf(g)
  <2>1. IsPiece(g, l, c)
    BY DEF Layout
  <2> QED
    BY <2>1, PieceIs
<1>2. ASSUME NEW g \in F, g.at = 0, ~Opening(g) PROVE FALSE
  <2>1. PICK f \in F : Follows(f, g)
    BY <1>2 DEF Layout, Linked
  <2>2. EndOf(f) = 0
    BY <1>2, <2>1 DEF Follows
  <2> QED
    BY <1>1, <2>2
<1>3. Stop(F, 0)
  <2>1. 0 % BlockSize = 0
    BY Sizes
  <2> QED
    BY <2>1 DEF Stop
<1>4. Kept(F, c, dam, 0, <<>>)
  BY <1>2 DEF Kept
<1>5. Returned(F, c, dam, 0, <<>>)
  BY <1>1 DEF Returned
<1>6. Ordered(F, c, blank, 0, <<>>)
  <2> DEFINE where == [i \in {} |-> i]
             none == DOMAIN <<>>
  <2>1. none = {}
    OBVIOUS
  <2>2. where \in [none -> DOMAIN c]
    BY <2>1
  <2>3. InOrderOf(F, c, blank, 0, <<>>, where)
    BY <2>1 DEF InOrderOf
  <2> QED
    BY <2>2, <2>3 DEF Ordered
<1>7. Started(F, c, 0, <<>>)
  BY DEF Started
<1> QED
  BY <1>1, <1>2, <1>3, <1>4, <1>5, <1>6, <1>7 DEF Seen

(* Batches ----------------------------------------------------------------*)

GoodFlush(f) ==
  /\ f \in [file : Seq(Byte), content : Seq(Content), refused : Seq(Data)]
  /\ Len(f.file) % BlockSize = 0
  /\ \A i \in DOMAIN f.content : \A b \in f.content[i].blocks : b * BlockSize < Len(f.file)
  /\ \E F : Laid(F, f.file, f.content, "closed", 0)

(* One more batch is in the file, or is refused. *)
LEMMA FlushStepKeeps ==
  ASSUME NEW f, GoodFlush(f), NEW rs \in Seq(Data)
  PROVE  GoodFlush(FlushStep(f, rs))
<1> DEFINE buf == PadLastBlock(Encoded(rs))
           L == Located(rs, Len(f.file))
           u == f.file \o buf
           d == f.content \o L
<1>1. CASE f.refused # <<>>
  BY <1>1 DEF FlushStep
<1>2. CASE f.refused = <<>> /\ ~exclusive /\ Len(buf) > MaxRequest
  <2> DEFINE g == [f EXCEPT !.refused = rs]
  <2>1. FlushStep(f, rs) = g
    BY <1>2 DEF FlushStep
  <2>2. /\ g.file = f.file /\ g.content = f.content
        /\ g \in [file : Seq(Byte), content : Seq(Content), refused : Seq(Data)]
    BY DEF GoodFlush
  <2> HIDE DEF g
  <2> QED
    BY <2>1, <2>2 DEF GoodFlush
<1>3. CASE f.refused = <<>> /\ ~(~exclusive /\ Len(buf) > MaxRequest)
  <2> DEFINE g == [f EXCEPT !.file = @ \o buf, !.content = @ \o Located(rs, Len(f.file))]
  <2>1. FlushStep(f, rs) = g
    BY <1>3 DEF FlushStep
  <2>2. f \in [file : Seq(Byte), content : Seq(Content), refused : Seq(Data)]
    BY DEF GoodFlush
  <2>3. /\ f.file \in Seq(Byte) /\ f.content \in Seq(Content) /\ f.refused \in Seq(Data)
        /\ Len(f.file) \in Nat
    BY <2>2, LenProperties
  <2>4. PICK F : Laid(F, f.file, f.content, "closed", 0)
    BY DEF GoodFlush
  <2> DEFINE w == f.file
             c == f.content
  <2>5. w \in Seq(Byte) /\ c \in Seq(Content) /\ Laid(F, w, c, "closed", 0) /\ Len(w) % BlockSize = 0
    BY <2>3, <2>4 DEF GoodFlush
  <2> HIDE DEF w, c
  <2>6. LET u2 == w \o PadLastBlock(Encoded(rs))
             d2 == c \o Located(rs, Len(w))
         IN  /\ u2 \in Seq(Byte) /\ Len(u2) % BlockSize = 0 /\ Len(w) <= Len(u2)
             /\ d2 \in Seq(Content) /\ Located(rs, Len(w)) \in Seq(Content)
             /\ \A i \in DOMAIN Located(rs, Len(w)) :
                  \A b \in Located(rs, Len(w))[i].blocks : b * BlockSize < Len(u2)
             /\ \E G : Laid(G, u2, d2, "closed", 0)
    BY <2>5, BatchWritten
  <2>7. /\ u \in Seq(Byte) /\ Len(u) % BlockSize = 0 /\ Len(w) <= Len(u)
        /\ d \in Seq(Content) /\ L \in Seq(Content)
        /\ \A i \in DOMAIN L : \A b \in L[i].blocks : b * BlockSize < Len(u)
        /\ \E G : Laid(G, u, d, "closed", 0)
    BY <2>6, Zenon DEF w, c
  <2>8. /\ g.file = u /\ g.content = d /\ g.refused = f.refused
        /\ g \in [file : Seq(Byte), content : Seq(Content), refused : Seq(Data)]
    <3>1. u \in Seq(Byte) /\ d \in Seq(Content)
      BY <2>7
    <3> HIDE DEF u, d
    <3>2. g = [f EXCEPT !.file = u, !.content = d]
      BY DEF u, d
    <3> HIDE DEF g
    <3> QED
      BY <2>2, <3>1, <3>2
  <2>9. ASSUME NEW i \in DOMAIN d, NEW b \in d[i].blocks PROVE b * BlockSize < Len(u)
    <3> DEFINE k == Len(c)
    <3>1. k \in Nat /\ Len(L) \in Nat /\ DOMAIN L = 1..Len(L) /\ DOMAIN c = 1..k
      BY <2>5, <2>7, LenProperties
    <3>2. d = c \o L
      BY DEF c
    <3> HIDE DEF d, L
    <3>3. Len(d) = k + Len(L)
      BY <2>5, <2>7, <3>2, JoinIs
    <3>4. \A j \in 1..k : d[j] = c[j]
      BY <2>5, <2>7, <3>2, JoinIs
    <3>5. \A j \in 1..Len(L) : d[k + j] = L[j]
      BY <2>5, <2>7, <3>2, JoinIs
    <3>6. i \in 1..Len(d)
      BY <2>7, LenProperties
    <3>7. CASE i \in 1..k
      <4>1. d[i] = c[i] /\ i \in DOMAIN c
        BY <3>1, <3>4, <3>7
      <4>2. b * BlockSize < Len(w) /\ c[i] \in Content
        BY <2>9, <3>7, <4>1, <2>5, ElementOfSeq DEF GoodFlush, c, w
      <4>3. b \in Nat
        BY <2>9, <4>1, <4>2 DEF Content
      <4>4. b * BlockSize \in Nat /\ Len(w) \in Nat /\ Len(u) \in Nat
        <5>1. b * BlockSize \in Nat
          BY <4>3, Sizes
        <5> QED
          BY <2>5, <2>7, <5>1, LenProperties
      <4> DEFINE x == b * BlockSize
                 lu == Len(u)
      <4> HIDE DEF x, lu
      <4>5. x < lu
        BY <2>7, <4>2, <4>4 DEF x, lu
      <4> QED
        BY <4>5 DEF x, lu
    <3>8. CASE i \notin 1..k
      <4>1. i - k \in 1..Len(L) /\ k + (i - k) = i
        <5> HIDE DEF k
        <5> QED
          BY <3>1, <3>3, <3>6, <3>8
      <4>2. d[i] = L[i - k] /\ i - k \in DOMAIN L
        BY <3>1, <3>5, <4>1
      <4> QED
        BY <2>7, <2>9, <4>2
    <3> QED
      BY <3>7, <3>8
  <2> HIDE DEF g, u, d
  <2> QED
    BY <2>1, <2>7, <2>8, <2>9 DEF GoodFlush
<1> QED
  BY <1>1, <1>2, <1>3

(* After all the batches the file is laid out as its content says. *)
LEMMA FlushedIs ==
  ASSUME GoodFlush(FlushStart), NEW bs \in Seq(Seq(Data))
  PROVE  GoodFlush(Flushed(bs))
<1> DEFINE n == Len(bs)
           h == CHOOSE g : IsFlushing(bs, 1..n, g)
           T == {i \in 0..n : GoodFlush(h[1..i])}
<1>1. n \in Nat /\ DOMAIN bs = 1..n
  BY LenProperties
<1>2. \A i \in 1..n : bs[i] \in Seq(Data)
  BY ElementOfSeq
<1> HIDE DEF n
<1>3. \E g : IsFlushing(bs, 1..n, g)
  BY <1>1, FlushingExists
<1>4. IsFlushing(bs, 1..n, h)
  BY <1>3, Zenon
<1>5. Flushed(bs) = h[1..n]
  BY <1>1, FlushingIsChosen
<1> HIDE DEF h
<1>6. h[1..0] = FlushStart /\ \A i \in 0..n - 1 : h[1..i + 1] = FlushStep(h[1..i], bs[i + 1])
  BY <1>1, <1>4, FlushingGoes
<1>7. 0 \in T
  BY <1>1, <1>6
<1>8. ASSUME NEW i \in Nat, i < n, i \in T PROVE i + 1 \in T
  <2>1. i \in 0..n - 1 /\ i + 1 \in 1..n /\ i + 1 \in 0..n
    BY <1>1, <1>8
  <2>2. GoodFlush(h[1..i]) /\ bs[i + 1] \in Seq(Data)
    BY <1>2, <1>8, <2>1
  <2>3. GoodFlush(FlushStep(h[1..i], bs[i + 1]))
    BY <2>2, FlushStepKeeps
  <2> QED
    BY <1>6, <2>1, <2>3
<1> HIDE DEF T
<1>9. \A i \in 0..n : i \in T
  BY <1>1, <1>7, <1>8, CountUp
<1> QED
  BY <1>1, <1>5, <1>9 DEF T

(* Steps of the pools.                                                     *)

(* A file is empty at first. *)
LEMMA FileInitHolds == FileInit => FileInv
<1> SUFFICES ASSUME FileInit PROVE FileInv
  OBVIOUS
<1>1. /\ file = <<>> /\ content = <<>> /\ Len(file) = 0 /\ position = 0 /\ ahead = 0
      /\ chunk = <<>> /\ records = <<>> /\ damaged = {} /\ blanked = FALSE /\ eof = FALSE
      /\ reading = FALSE /\ mishaps = 0 /\ lengths = <<>>
      /\ buffers = [w \in Writers |-> <<>>] /\ exclusive \in BOOLEAN
  BY DEF FileInit
<1>2. 0 % BlockSize = 0 /\ MaxMishaps \in Nat
  BY Sizes, RecordFilesAssumption
<1>3. buffers \in [Writers -> Seq(Data)]
  BY <1>1
<1>4. FilesType
  <2>1. /\ file \in Seq(Byte) /\ content \in Seq(Content) /\ lengths \in Seq(Nat)
        /\ records \in Seq(Data) /\ DOMAIN content = {} /\ Len(file) % BlockSize = 0
    BY <1>1, <1>2
  <2>2. position \in 0..Len(file) /\ ahead \in 0..Len(file) - position /\ mishaps \in 0..MaxMishaps
    <3>1. 0 \in 0..0 /\ 0 \in 0..0 - 0 /\ 0 \in 0..MaxMishaps
      BY <1>2
    <3> QED
      BY <1>1, <3>1
  <2>3. reading \in BOOLEAN /\ eof \in BOOLEAN /\ blanked \in BOOLEAN /\ damaged \in SUBSET Nat
    BY <1>1
  <2> QED
    BY <1>1, <1>3, <2>1, <2>2, <2>3, Zenon DEF FilesType
<1>5. Layout({}, 0, <<>>, "closed", 0)
  BY DEF Layout, PiecesInOrder, Linked, Begun
<1>6. Stored({}, <<>>, <<>>, {}, FALSE)
  BY DEF Stored
<1>7. Gaps({}, <<>>)
  BY DEF Gaps
<1>8. Seen({}, <<>>, {}, FALSE, 0, <<>>, <<>>)
  <2>1. <<>> \in Seq(Content) /\ 0 \in Nat
    OBVIOUS
  <2> QED
    BY <1>5, <2>1, NothingSeen
<1>9. Holds({})
  BY <1>1, <1>5, <1>6, <1>7, <1>8 DEF Holds
<1> QED
  BY <1>1, <1>4, <1>9 DEF FileInv, NotRead

(* While the file is written nothing is damaged. *)
LEMMA Unread ==
  ASSUME FileInv, ~reading
  PROVE  /\ NotRead /\ FilesType /\ GoodFlush(FlushStart)
<1>1. NotRead /\ FilesType
  BY DEF FileInv
<1>2. PICK F : Holds(F)
  BY DEF FileInv
<1>3. Laid(F, file, content, "closed", 0)
  BY <1>1, <1>2 DEF Holds, Laid, NotRead
<1>4. /\ FlushStart.file = file /\ FlushStart.content = content
      /\ FlushStart \in [file : Seq(Byte), content : Seq(Content), refused : Seq(Data)]
  BY <1>1 DEF FlushStart, FilesType
<1> QED
  BY <1>1, <1>3, <1>4 DEF GoodFlush, FilesType

(* The batches of a pool are appended, one of them perhaps twice. *)
LEMMA BatchesFlushed ==
  ASSUME FileInv, ~reading, NEW batches \in Seq(Seq(Data)), FlushBatches(batches)
  PROVE  /\ mishaps' \in 0..MaxMishaps
         /\ GoodFlush([file |-> file', content |-> content', refused |-> refused'])
<1>1. GoodFlush(FlushStart) /\ mishaps \in 0..MaxMishaps /\ MaxMishaps \in Nat
  BY Unread, RecordFilesAssumption DEF FilesType
<1> DEFINE sent(i) == IF i = 0 THEN batches
                      ELSE SubSeq(batches, 1, i) \o SubSeq(batches, i, Len(batches))
<1>2. PICK i \in 0..Len(batches) :
        /\ i > 0 => ~exclusive /\ mishaps < MaxMishaps
        /\ mishaps' = mishaps + (IF i = 0 THEN 0 ELSE 1)
        /\ file' = Flushed(sent(i)).file /\ content' = Flushed(sent(i)).content
        /\ refused' = Flushed(sent(i)).refused
  BY Zenon DEF FlushBatches
<1>3. sent(i) \in Seq(Seq(Data))
  <2> DEFINE n == Len(batches)
             a == SubSeq(batches, 1, i)
             b == SubSeq(batches, i, n)
  <2>1. CASE i = 0
    BY <2>1
  <2>2. CASE i # 0
    <3>1. n \in Nat /\ \A j \in 1..n : batches[j] \in Seq(Data)
      BY LenProperties, ElementOfSeq
    <3>2. i \in Int /\ \A j \in 1..i : batches[j] \in Seq(Data)
      <4> HIDE DEF n
      <4> QED
        BY <2>2, <3>1 DEF n
    <3>3. \A j \in i..n : batches[j] \in Seq(Data)
      <4>1. i \in 1..n
        BY <2>2, <3>1
      <4> HIDE DEF n
      <4> QED
        BY <3>1, <4>1
    <3>4. a \in Seq(Seq(Data)) /\ b \in Seq(Seq(Data))
      <4> HIDE DEF n
      <4> QED
        BY <3>1, <3>2, <3>3, SubSeqProperties
    <3> HIDE DEF a, b
    <3>5. a \o b \in Seq(Seq(Data))
      BY <3>4, ConcatProperties
    <3> QED
      BY <2>2, <3>5 DEF a, b
  <2> QED
    BY <2>1, <2>2
<1> DEFINE f == Flushed(sent(i))
<1>4. GoodFlush(f)
  <2> HIDE DEF sent
  <2> QED
    BY <1>1, <1>3, FlushedIs
<1>5. file' = f.file /\ content' = f.content /\ refused' = f.refused
  BY <1>2
<1> HIDE DEF f
<1>6. f = [file |-> file', content |-> content', refused |-> refused']
  BY <1>4, <1>5 DEF GoodFlush
<1>7. mishaps' \in 0..MaxMishaps
  BY <1>1, <1>2
<1> QED
  BY <1>4, <1>6, <1>7

(* What a step that only flushes leaves. *)
LEMMA StillHolds ==
  ASSUME FileInv, ~reading, mishaps' \in 0..MaxMishaps,
         GoodFlush([file |-> file', content |-> content', refused |-> refused']),
         buffers' \in [Writers -> Seq(Data)], lengths' \in Seq(Nat),
         UNCHANGED <<exclusive, reading, scanVars, damaged, blanked>>
  PROVE  FileInv'
<1>1. NotRead /\ FilesType
  BY Unread
<1>2. /\ exclusive' = exclusive /\ reading' = FALSE /\ position' = 0 /\ ahead' = 0
      /\ chunk' = <<>> /\ records' = <<>> /\ eof' = FALSE /\ damaged' = {} /\ blanked' = FALSE
  BY <1>1 DEF NotRead, scanVars, FilesType
<1> DEFINE f == [file |-> file', content |-> content', refused |-> refused']
<1>3. f.file = file' /\ f.content = content'
  OBVIOUS
<1> HIDE DEF f
<1>4. GoodFlush(f)
  BY DEF f
<1>5. /\ file' \in Seq(Byte) /\ content' \in Seq(Content) /\ Len(file') % BlockSize = 0
      /\ \A i \in DOMAIN content' : \A b \in content'[i].blocks : b * BlockSize < Len(file')
      /\ Len(file') \in Nat
  <2>1. /\ file' \in Seq(Byte) /\ content' \in Seq(Content) /\ Len(file') % BlockSize = 0
        /\ \A i \in DOMAIN content' : \A b \in content'[i].blocks : b * BlockSize < Len(file')
    BY <1>3, <1>4 DEF GoodFlush
  <2> QED
    BY <2>1, LenProperties
<1>6. FilesType'
  <2>1. 0 \in 0..Len(file') /\ 0 \in 0..Len(file') - 0
    BY <1>5
  <2>2. exclusive \in BOOLEAN
    BY <1>1 DEF FilesType
  <2>3. position' \in 0..Len(file') /\ ahead' \in 0..Len(file') - position'
    BY <1>2, <2>1
  <2>4. records' \in Seq(Data) /\ damaged' \in SUBSET Nat /\ reading' \in BOOLEAN /\ eof' \in BOOLEAN
        /\ blanked' \in BOOLEAN /\ exclusive' \in BOOLEAN
    <3>1. <<>> \in Seq(Data)
      OBVIOUS
    <3> QED
      BY <1>2, <2>2, <3>1, Zenon
  <2> QED
    BY <1>2, <1>5, <2>3, <2>4, Zenon DEF FilesType
<1>7. PICK F : Laid(F, file', content', "closed", 0)
  BY <1>3, <1>4 DEF GoodFlush
<1>8. /\ Layout(F, Len(file'), content', "closed", 0) /\ Stored(F, file', content', {}, FALSE)
      /\ Gaps(F, file')
  BY <1>7 DEF Laid
<1>9. Seen(F, content', {}, FALSE, 0, <<>>, <<>>)
  BY <1>5, <1>8, NothingSeen
<1>10. Holds(F)'
  BY <1>2, <1>8, <1>9 DEF Holds
<1> QED
  BY <1>2, <1>6, <1>10 DEF FileInv, NotRead

(* The data of a record that is appended. *)
LEMMA NewRecordIs ==
  ASSUME lengths \in Seq(Nat), NEW n \in Nat
  PROVE  NewRecord(n) \in Data
<1> DEFINE k == Len(lengths) + 1
<1>1. k \in Nat
  BY LenProperties
<1> HIDE DEF k
<1>2. \A i \in 1..n : <<"data", k, i>> \in DataByte
  BY <1>1 DEF DataByte
<1>3. [i \in 1..n |-> <<"data", k, i>>] \in Seq(DataByte)
  BY <1>2
<1>4. NewRecord(n) = [i \in 1..n |-> <<"data", k, i>>]
  BY DEF NewRecord, k
<1> QED
  BY <1>3, <1>4 DEF Data

(* A record is appended to a pool. *)
LEMMA RecordAppended ==
  ASSUME FileInv, NEW w \in Writers, NEW n \in Lengths, AppendRecord(w, n)
  PROVE  FileInv'
<1>1. ~reading /\ n \in Nat /\ FilesType
  BY RecordFilesAssumption DEF AppendRecord, StillWriting, FileInv
<1>2. NewRecord(n) \in Data /\ buffers[w] \in Seq(Data) /\ buffers \in [Writers -> Seq(Data)]
  BY <1>1, NewRecordIs DEF FilesType
<1> DEFINE r == NewRecord(n)
           b == buffers[w]
<1> HIDE DEF r, b
<1>3. Batches(w, n) \in Seq(Seq(Data))
  <2> DEFINE x == IF Overflows(w, n) THEN <<b>> ELSE <<>>
             y == IF Large(n) THEN <<<<r>>>> ELSE <<>>
  <2>1. <<r>> \in Seq(Data) /\ b \in Seq(Data)
    BY <1>2 DEF r, b
  <2>2. x \in Seq(Seq(Data)) /\ y \in Seq(Seq(Data))
    BY <2>1
  <2>3. Batches(w, n) = x \o y
    BY DEF Batches, r, b
  <2> HIDE DEF x, y
  <2> QED
    BY <2>2, <2>3, ConcatProperties
<1>4. /\ FlushBatches(Batches(w, n)) /\ lengths' = Append(lengths, n)
      /\ buffers' = [buffers EXCEPT ![w] =
                       IF Large(n) THEN <<>> ELSE Append(IF Overflows(w, n) THEN <<>> ELSE @, r)]
      /\ UNCHANGED <<exclusive, reading, scanVars, damaged, blanked>>
  BY DEF AppendRecord, r
<1>5. /\ mishaps' \in 0..MaxMishaps
      /\ GoodFlush([file |-> file', content |-> content', refused |-> refused'])
  BY <1>1, <1>3, <1>4, BatchesFlushed
<1>6. lengths' \in Seq(Nat)
  <2>1. lengths \in Seq(Nat)
    BY <1>1 DEF FilesType
  <2> QED
    BY <1>1, <1>4, <2>1, AppendProperties
<1>7. buffers' \in [Writers -> Seq(Data)]
  <2> DEFINE v == IF Large(n) THEN <<>> ELSE Append(IF Overflows(w, n) THEN <<>> ELSE b, r)
  <2>1. <<>> \in Seq(Data) /\ b \in Seq(Data) /\ r \in Data
    BY <1>2 DEF b, r
  <2>2. v \in Seq(Data)
    BY <2>1, AppendProperties
  <2>3. buffers' = [buffers EXCEPT ![w] = v]
    BY <1>4 DEF b
  <2> HIDE DEF v
  <2> QED
    BY <1>2, <2>2, <2>3
<1> QED
  BY <1>1, <1>4, <1>5, <1>6, <1>7, StillHolds

(* A pool is flushed when its slice ends. *)
LEMMA PoolFlushed ==
  ASSUME FileInv, NEW w \in Writers, FlushPool(w)
  PROVE  FileInv'
<1>1. ~reading /\ FilesType /\ FlushBatches(<<buffers[w]>>)
      /\ buffers' = [buffers EXCEPT ![w] = <<>>]
      /\ UNCHANGED <<exclusive, lengths, reading, scanVars, damaged, blanked>>
  BY DEF FlushPool, StillWriting, FileInv
<1>2. buffers \in [Writers -> Seq(Data)] /\ lengths \in Seq(Nat)
  BY <1>1 DEF FilesType
<1> DEFINE b == buffers[w]
<1>3. b \in Seq(Data)
  BY <1>2
<1> HIDE DEF b
<1>4. <<b>> \in Seq(Seq(Data))
  BY <1>3
<1>5. /\ mishaps' \in 0..MaxMishaps
      /\ GoodFlush([file |-> file', content |-> content', refused |-> refused'])
  BY <1>1, <1>4, BatchesFlushed DEF b
<1>6. buffers' \in [Writers -> Seq(Data)] /\ lengths' \in Seq(Nat)
  BY <1>1, <1>2
<1> QED
  BY <1>1, <1>5, <1>6, StillHolds

(* The file is finalized and may be read. *)
LEMMA FileFinalized ==
  ASSUME FileInv, Finalize
  PROVE  FileInv'
<1>1. /\ reading' = TRUE /\ exclusive' = exclusive /\ file' = file /\ buffers' = buffers
      /\ lengths' = lengths /\ content' = content /\ position' = position
      /\ ahead' = ahead /\ chunk' = chunk /\ records' = records /\ eof' = eof
      /\ damaged' = damaged /\ blanked' = blanked /\ mishaps' = mishaps
  BY DEF Finalize, writeVars, scanVars
<1>2. FilesType'
  BY <1>1 DEF FileInv, FilesType
<1>3. PICK F : Holds(F)
  BY DEF FileInv
<1>4. Holds(F)'
  BY <1>1, <1>3 DEF Holds
<1> QED
  BY <1>1, <1>2, <1>4 DEF FileInv

(* A slice of the reader ends and the next one goes on from tell(). *)
LEMMA ReaderResumed ==
  ASSUME FileInv, Resume
  PROVE  FileInv'
<1>1. /\ position' = position /\ ahead' = 0 /\ reading
      /\ reading' = reading /\ exclusive' = exclusive /\ file' = file /\ buffers' = buffers
      /\ lengths' = lengths /\ content' = content /\ chunk' = chunk /\ records' = records
      /\ eof' = eof /\ damaged' = damaged /\ blanked' = blanked /\ mishaps' = mishaps
  BY DEF Resume, Tell, writeVars
<1>2. FilesType'
  <2>1. FilesType
    BY DEF FileInv
  <2>2. 0 \in 0..Len(file) - position
    <3>1. Len(file) \in Nat /\ position \in 0..Len(file)
      BY <2>1, LenProperties DEF FilesType
    <3> QED
      BY <3>1
  <2> QED
    BY <1>1, <2>1, <2>2 DEF FilesType
<1>3. PICK F : Holds(F)
  BY DEF FileInv
<1>4. Holds(F)'
  BY <1>1, <1>3 DEF Holds
<1> QED
  BY <1>1, <1>2, <1>4 DEF FileInv

(* Damage.                                                                 *)

(* The bytes of a file. *)
LEMMA ByteIs ==
  ASSUME NEW b \in Byte
  PROVE  b[1] = "head" => \E t \in FragmentTypes \union {"NONE"}, d \in Data : b = <<"head", t, d>>
<1>1. CASE b \in {<<"zero">>, <<"more">>, <<"bad">>}
  BY <1>1
<1>2. CASE b \in DataByte
  <2>1. PICK i \in Nat, j \in Nat : b = <<"data", i, j>>
    BY <1>2 DEF DataByte
  <2> QED
    BY <2>1
<1>3. CASE b \in {"head"} \X (FragmentTypes \union {"NONE"}) \X Data
  BY <1>3
<1> QED
  BY <1>1, <1>2, <1>3 DEF Byte

(* The type in the header of a fragment becomes zero. *)
LEMMA Blanking ==
  ASSUME NEW b \in Byte, b[1] = "head"
  PROVE  /\ [b EXCEPT ![2] = "NONE"] \in Byte
         /\ \A t, d : b = <<"head", t, d>> => [b EXCEPT ![2] = "NONE"] = <<"head", "NONE", d>>
<1>1. ASSUME NEW t, NEW d PROVE [<<"head", t, d>> EXCEPT ![2] = "NONE"] = <<"head", "NONE", d>>
  OBVIOUS
<1>2. PICK t \in FragmentTypes \union {"NONE"}, d \in Data : b = <<"head", t, d>>
  BY ByteIs
<1>3. [b EXCEPT ![2] = "NONE"] = <<"head", "NONE", d>>
  BY <1>1, <1>2
<1>4. <<"head", "NONE", d>> \in Byte
  BY <1>2 DEF Byte
<1>5. ASSUME NEW u, NEW e, b = <<"head", u, e>>
      PROVE  [b EXCEPT ![2] = "NONE"] = <<"head", "NONE", e>>
  BY <1>1, <1>5, Zenon
<1>6. [b EXCEPT ![2] = "NONE"] \in Byte
  BY <1>3, <1>4, Zenon
<1> QED
  BY <1>5, <1>6, Zenon

(* A byte of the file is lost before it is read. *)
LEMMA FileDamaged ==
  ASSUME FileInv, NEW p \in DOMAIN file, Damage(p)
  PROVE  FileInv'
<1> DEFINE l == Len(file)
           x == (p - 1) \div BlockSize
<1>1. /\ reading /\ position = 0 /\ ~eof /\ mishaps < MaxMishaps /\ mishaps' = mishaps + 1
      /\ damaged' = damaged \union {x}
      /\ exclusive' = exclusive /\ buffers' = buffers /\ lengths' = lengths /\ content' = content
      /\ reading' = reading /\ position' = position /\ ahead' = ahead /\ chunk' = chunk
      /\ records' = records /\ eof' = eof
  BY DEF Damage, scanVars
<1>2. FilesType
  BY DEF FileInv
<1>3. file \in Seq(Byte) /\ l \in Nat /\ p \in 1..l /\ p - 1 \in Nat /\ file[p] \in Byte
  <2>1. file \in Seq(Byte) /\ l \in Nat /\ p \in 1..l
    BY <1>2, LenProperties DEF FilesType
  <2>2. file[p] \in Byte
    BY <2>1, ElementOfSeq
  <2> HIDE DEF l
  <2> QED
    BY <2>1, <2>2
<1>4. x = Block(p - 1) /\ x \in Nat
  <2> DEFINE q == p - 1
  <2>1. q \in Nat
    BY <1>3
  <2>2. x = Block(q)
    BY DEF Block
  <2> HIDE DEF q, x
  <2> QED
    BY <2>1, <2>2, BoundIs DEF q
(* The new byte. *)
<1>5. PICK b \in Byte :
        /\ file' = [file EXCEPT ![p] = b]
        /\ \/ b = <<"bad">> /\ blanked' = blanked
           \/ /\ file[p][1] = "head" /\ blanked' = TRUE
              /\ \A t, d : file[p] = <<"head", t, d>> => b = <<"head", "NONE", d>>
  <2>1. CASE file' = [file EXCEPT ![p] = <<"bad">>] /\ UNCHANGED blanked
    <3>1. <<"bad">> \in Byte
      BY DEF Byte
    <3> QED
      BY <2>1, <3>1
  <2>2. CASE file[p][1] = "head" /\ file' = [file EXCEPT ![p][2] = "NONE"] /\ blanked' = TRUE
    <3> DEFINE b == [file[p] EXCEPT ![2] = "NONE"]
    <3>1. b \in Byte /\ \A t, d : file[p] = <<"head", t, d>> => b = <<"head", "NONE", d>>
      BY <1>3, <2>2, Blanking
    <3>2. file' = [file EXCEPT ![p] = b]
      BY <2>2
    <3> HIDE DEF b
    <3> QED
      BY <2>2, <3>1, <3>2
  <2> QED
    BY <2>1, <2>2 DEF Damage
<1>6. /\ file' \in Seq(Byte) /\ Len(file') = l /\ file'[p] = b
      /\ \A i \in 1..l : i # p => file'[i] = file[i]
  BY <1>3, <1>5, ExceptSeq
<1>7. FilesType'
  <2>1. damaged' \in SUBSET Nat /\ blanked' \in BOOLEAN /\ mishaps' \in 0..MaxMishaps
    <3>1. damaged \in SUBSET Nat /\ blanked \in BOOLEAN /\ mishaps \in 0..MaxMishaps
          /\ MaxMishaps \in Nat
      BY <1>2, RecordFilesAssumption DEF FilesType
    <3>2. mishaps' \in 0..MaxMishaps
      BY <1>1, <3>1
    <3>3. blanked' \in BOOLEAN
      BY <1>5, <3>1
    <3> QED
      BY <1>1, <1>4, <3>1, <3>2, <3>3
  <2> QED
    BY <1>1, <1>2, <1>6, <2>1, Zenon DEF FilesType
<1>8. PICK F : Holds(F)
  BY DEF FileInv
<1>9. /\ Layout(F, l, content, "closed", 0) /\ Stored(F, file, content, damaged, blanked)
      /\ Gaps(F, file) /\ Seen(F, content, damaged, blanked, 0, chunk, records)
  BY <1>1, <1>8 DEF Holds
<1>10. content \in Seq(Content)
  BY <1>2 DEF FilesType
<1>11. \A g \in F : g.at \in Nat /\ (g.at = 0 => Opening(g)) /\ ~(g.at < 0)
  BY <1>3, <1>9, <1>10, NothingSeen
<1> HIDE DEF x
<1>12. Stored(F, file', content, damaged', blanked')
  <2> SUFFICES ASSUME NEW f \in F
               PROVE  /\ HeaderKept(f, file', content, blanked')
                      /\ Block(f.at) \notin damaged' => Intact(f, file', content)
    BY DEF Stored
  <2>1. IsPiece(f, l, content)
    BY <1>9 DEF Layout
  <2>2. /\ f.at \in Nat /\ f.from \in Nat /\ f.to \in Nat /\ f.from <= f.to
        /\ EndOf(f) \in Nat /\ f.at < EndOf(f) /\ f.at + HeaderLength <= EndOf(f) /\ EndOf(f) <= l
    BY <1>3, <1>10, <2>1, PieceIs
  <2>3. EndOf(f) <= Bound(f.at)
    BY <2>1 DEF IsPiece
  <2>4. HeaderKept(f, file, content, blanked) /\ (Block(f.at) \notin damaged => Intact(f, file, content))
    BY <1>9 DEF Stored
  <2>5. HeaderKept(f, file', content, blanked')
    <3>1. f.at + 1 \in 1..l
      <4> HIDE DEF l
      <4> QED
        BY <1>3, <2>2
    <3>2. CASE p # f.at + 1
      <4>1. file'[f.at + 1] = file[f.at + 1]
        BY <1>6, <3>1, <3>2
      <4>2. blanked => blanked'
        BY <1>5
      <4> QED
        BY <2>4, <4>1, <4>2 DEF HeaderKept
    <3>3. CASE p = f.at + 1
      <4>1. CASE b = <<"bad">>
        BY <1>6, <3>3, <4>1 DEF HeaderKept
      <4>2. CASE /\ file[p][1] = "head" /\ blanked' = TRUE
                 /\ \A t, d : file[p] = <<"head", t, d>> => b = <<"head", "NONE", d>>
        <5>1. file[p] # <<"bad">>
          <6>1. <<"bad">>[1] # "head"
            OBVIOUS
          <6> QED
            BY <4>2, <6>1
        <5>2. \E t : file[p] = <<"head", t, DataOf(f, content)>>
          BY <2>4, <3>3, <5>1 DEF HeaderKept
        <5>3. b = <<"head", "NONE", DataOf(f, content)>>
          BY <4>2, <5>2
        <5> QED
          BY <1>6, <3>3, <4>2, <5>3 DEF HeaderKept
      <4> QED
        BY <1>5, <4>1, <4>2
    <3> QED
      BY <3>2, <3>3
  <2>6. ASSUME Block(f.at) \notin damaged' PROVE Intact(f, file', content)
    <3>1. Intact(f, file, content) /\ Block(f.at) # x
      BY <1>1, <2>4, <2>6
    <3>2. ASSUME NEW i \in 1..EndOf(f) - f.at
          PROVE  file'[f.at + i] = file[f.at + i]
      <4> DEFINE q == f.at + i - 1
      <4>1. q \in Nat /\ f.at <= q /\ q < EndOf(f) /\ f.at + i = q + 1
        BY <2>2
      <4> HIDE DEF q
      <4>2. q < Bound(f.at)
        <5>1. Bound(f.at) \in Nat
          BY <2>2, BoundIs
        <5> QED
          BY <2>2, <2>3, <4>1, <5>1
      <4>3. Block(q) = Block(f.at)
        BY <2>2, <4>1, <4>2, SameBlock
      <4>4. q # p - 1
        BY <1>4, <3>1, <4>3
      <4>5. q + 1 \in 1..l /\ q + 1 # p
        <5> HIDE DEF l
        <5> QED
          BY <1>3, <2>2, <4>1, <4>4
      <4> QED
        BY <1>6, <4>1, <4>5
    <3>3. EndOf(f) - f.at = HeaderLength + (f.to - f.from)
      <4> DEFINE n == f.to - f.from
                 a == f.at
      <4>1. EndOf(f) = a + HeaderLength + n /\ a \in Nat /\ n \in Int
        BY <2>2 DEF EndOf
      <4> HIDE DEF n, a
      <4>2. EndOf(f) - a = HeaderLength + n
        BY <4>1, Sizes
      <4> QED
        BY <4>2 DEF n, a
    <3> DEFINE n == f.to - f.from
    <3>4. n \in Nat
      BY <2>2
    <3> HIDE DEF n
    <3>5. \A i \in 1..HeaderLength + n : file'[f.at + i] = file[f.at + i]
      BY <3>2, <3>3 DEF n
    <3>6. file'[f.at + 1] = file[f.at + 1]
      <4>1. 1 \in 1..HeaderLength + n
        BY <3>4, Sizes
      <4> QED
        BY <3>5, <4>1
    <3>7. ASSUME NEW i \in 2..HeaderLength PROVE file'[f.at + i] = file[f.at + i]
      <4>1. i \in 1..HeaderLength + n
        BY <3>4, Sizes
      <4> QED
        BY <3>5, <4>1
    <3>8. ASSUME NEW i \in 1..n PROVE file'[f.at + HeaderLength + i] = file[f.at + HeaderLength + i]
      <4>1. HeaderLength + i \in 1..HeaderLength + n /\ f.at + HeaderLength + i = f.at + (HeaderLength + i)
        BY <2>2, <3>4, Sizes
      <4> QED
        BY <3>5, <4>1
    <3> QED
      BY <3>1, <3>6, <3>7, <3>8 DEF Intact, n
  <2> QED
    BY <2>5, <2>6
<1>13. Gaps(F, file')
  <2> SUFFICES ASSUME NEW q \in 0..Len(file') - 1, Stop(F, q)
               PROVE  (\E f \in F : f.at = q) \/ Gap(F, file', q)
    BY DEF Gaps
  <2>1. (\E f \in F : f.at = q) \/ Gap(F, file, q)
    BY <1>6, <1>9 DEF Gaps
  <2>2. ASSUME Gap(F, file, q) PROVE Gap(F, file', q)
    <3>1. q + 1 \in 1..l
      BY <1>3, <1>6
    <3>2. file'[q + 1] \in {<<"zero">>, <<"bad">>}
      <4>1. CASE q + 1 # p
        BY <1>6, <2>2, <3>1, <4>1 DEF Gap
      <4>2. CASE q + 1 = p
        <5>1. file[p] \in {<<"zero">>, <<"bad">>}
          BY <2>2, <4>2 DEF Gap
        <5>2. file[p][1] # "head"
          BY <5>1
        <5>3. b = <<"bad">>
          BY <1>5, <5>2
        <5> QED
          BY <1>6, <4>2, <5>3
      <4> QED
        BY <4>1, <4>2
    <3> QED
      BY <1>6, <2>2, <3>2 DEF Gap
  <2> QED
    BY <2>1, <2>2
<1>14. Seen(F, content, damaged', blanked', 0, chunk, records)
  <2>1. Seen(F, content, damaged, blanked, 0, chunk, records)
    BY <1>9
  <2>2. Kept(F, content, damaged', 0, chunk)
    BY <1>11 DEF Kept
  <2>3. Returned(F, content, damaged', 0, records)
    BY <1>11 DEF Returned
  <2>4. Ordered(F, content, blanked', 0, records)
    <3>1. PICK where \in [DOMAIN records -> DOMAIN content] :
            InOrderOf(F, content, blanked, 0, records, where)
      BY <2>1 DEF Seen, Ordered
    <3>2. InOrderOf(F, content, blanked', 0, records, where)
      BY <1>11, <3>1 DEF InOrderOf
    <3> QED
      BY <3>2 DEF Ordered
  <2>5. blanked' \/ Started(F, content, 0, chunk)
    <3>1. blanked => blanked'
      BY <1>5
    <3> QED
      BY <2>1, <3>1 DEF Seen
  <2> QED
    BY <2>1, <2>2, <2>3, <2>4, <2>5 DEF Seen
<1>15. Holds(F)'
  BY <1>1, <1>6, <1>9, <1>12, <1>13, <1>14 DEF Holds
<1> QED
  BY <1>1, <1>7, <1>15 DEF FileInv

(* Reads.                                                                  *)

IsAt(at) ==
  /\ at \in [position : Nat, ahead : Nat] /\ at.position <= Len(file)
  /\ at.ahead <= Len(file) - at.position

(* A read stops after the bytes that were asked for, or at the end of the file. *)
LEMMA FetchIs ==
  ASSUME file \in Seq(Byte), NEW at, IsAt(at), NEW size \in Nat
  PROVE  LET r == Fetch(at, size)
         IN  /\ IsAt(r) /\ at.position <= r.position
             /\ at.position + size <= Len(file) => r.position = at.position + size
             /\ at.position + size > Len(file) => r.position = Len(file)
<1> DEFINE l == Len(file)
           p == at.position
           a == at.ahead
           need == IF size > a THEN size - a ELSE 0
           w == BufferSize
           most == a + ((need + w - 1) \div w) * w
           rest == l - p
           got == IF most < rest THEN most ELSE rest
           r == Fetch(at, size)
<1>1. l \in Nat /\ p \in Nat /\ a \in Nat /\ p <= l /\ a <= l - p /\ w \in Nat \ {0}
  BY LenProperties, Sizes DEF IsAt
<1> HIDE DEF l, p, a, w
<1>2. need \in Nat /\ a + need >= size
  BY <1>1
<1>3. ((need + w - 1) \div w) * w \in Nat /\ need <= ((need + w - 1) \div w) * w
  <2> HIDE DEF need
  <2> DEFINE b == need + w - 1
             c == b + 1
             n == b \div w
             k == b % w
  <2>1. b \in Nat /\ c \in Nat
    BY <1>1, <1>2
  <2>2. b < c * w
    <3> DEFINE d == w - 1
    <3>1. d \in Nat /\ w = d + 1
      BY <1>1
    <3> HIDE DEF b, d
    <3>2. (b + 1) * (d + 1) = b * d + b + d + 1 /\ b * d \in Nat
      BY <2>1, <3>1
    <3> QED
      BY <2>1, <3>1, <3>2
  <2>3. n \in Nat /\ k \in 0..w - 1 /\ b = w * n + k
    <3> HIDE DEF b, c
    <3> QED
      BY <1>1, <2>1, <2>2, DivMod
  <2>4. b = need + w - 1
    OBVIOUS
  <2> HIDE DEF b, n, k
  <2>5. n * w = w * n /\ n * w \in Nat
    BY <1>1, <2>3
  <2> DEFINE x == n * w
  <2>6. x \in Nat /\ b = x + k
    BY <2>3, <2>5
  <2> HIDE DEF x
  <2>7. need <= x
    BY <1>1, <1>2, <2>3, <2>4, <2>6
  <2> QED
    BY <2>6, <2>7 DEF x, n, b
<1>4. most \in Nat /\ most >= size
  <2> DEFINE x == ((need + w - 1) \div w) * w
  <2>1. x \in Nat /\ need <= x /\ most = a + x
    BY <1>3
  <2> HIDE DEF x, need, most
  <2> QED
    BY <1>1, <1>2, <2>1
<1> HIDE DEF need, most
<1>5. r = IF got < size THEN [position |-> p + got, ahead |-> 0]
          ELSE [position |-> p + size, ahead |-> got - size]
  BY Zenon DEF Fetch, got, rest, most, need, l, p, a, w
<1>6. got \in Nat /\ got <= rest /\ (got < size => got = rest) /\ rest \in Nat /\ rest = l - p
  BY <1>1, <1>4
<1> HIDE DEF got, rest
<1>7. CASE got < size
  <2>1. r.position = p + got /\ r.ahead = 0 /\ r \in [position : Nat, ahead : Nat]
    <3>1. r = [position |-> p + got, ahead |-> 0] /\ p + got \in Nat
      BY <1>1, <1>5, <1>6, <1>7
    <3> HIDE DEF r
    <3> QED
      BY <3>1
  <2> HIDE DEF r
  <2>2. p + got = l /\ p + size > l
    BY <1>1, <1>6, <1>7
  <2>3. IsAt(r)
    BY <1>1, <2>1, <2>2 DEF IsAt, l
  <2> QED
    BY <1>1, <2>1, <2>2, <2>3 DEF r, p, l
<1>8. CASE ~(got < size)
  <2>1. r.position = p + size /\ r.ahead = got - size /\ r \in [position : Nat, ahead : Nat]
    <3>1. r = [position |-> p + size, ahead |-> got - size] /\ p + size \in Nat /\ got - size \in Nat
      BY <1>1, <1>5, <1>6, <1>8
    <3> HIDE DEF r
    <3> QED
      BY <3>1
  <2> HIDE DEF r
  <2>2. p + size <= l /\ got - size <= l - (p + size)
    BY <1>1, <1>6, <1>8
  <2>3. IsAt(r)
    BY <1>1, <2>1, <2>2 DEF IsAt, l
  <2>4. ~(p + size > l) /\ p <= p + size
    BY <1>1, <2>2
  <2> QED
    BY <2>1, <2>2, <2>3, <2>4 DEF r, p, l
<1> QED
  BY <1>7, <1>8

(* The bytes of a file from one place to another. *)
LEMMA BytesAre ==
  ASSUME file \in Seq(Byte), NEW from, NEW to, from.position \in Nat, to.position \in Nat,
         from.position <= to.position, to.position <= Len(file)
  PROVE  LET s == Bytes(from, to)
             n == to.position - from.position
         IN  s \in Seq(Byte) /\ Len(s) = n /\ \A i \in 1..n : s[i] = file[from.position + i]
<1> DEFINE x == from.position + 1
           y == to.position
           s == SubSeq(file, x, y)
<1>1. Len(file) \in Nat /\ \A i \in 1..Len(file) : file[i] \in Byte
  BY LenProperties, ElementOfSeq
<1>2. x \in Int /\ y \in Int /\ \A i \in x..y : file[i] \in Byte
  <2>1. \A i \in x..y : i \in 1..Len(file)
    BY <1>1
  <2> QED
    BY <1>1, <2>1
<1> DEFINE n == y - from.position
<1>3. /\ s \in Seq(Byte) /\ Len(s) = IF x <= y THEN y - x + 1 ELSE 0
      /\ \A i \in 1..y - x + 1 : s[i] = file[x + i - 1]
  <2> HIDE DEF x, y
  <2> QED
    BY <1>2, SubSeqProperties
<1>4. y - x + 1 = n /\ Len(s) = n
  <2> HIDE DEF s
  <2> QED
    BY <1>3
<1>5. ASSUME NEW i \in 1..n PROVE s[i] = file[from.position + i]
  <2>1. x + i - 1 = from.position + i /\ i \in 1..y - x + 1
    BY <1>4
  <2> HIDE DEF s, x, y
  <2> QED
    BY <1>3, <2>1
<1> QED
  BY <1>3, <1>4, <1>5 DEF Bytes

(* To the next block. *)
LEMMA SkippedIs ==
  ASSUME file \in Seq(Byte), NEW p \in Nat, NEW at, IsAt(at), p <= at.position,
         at.position <= Bound(p), at.position = p => p % BlockSize # 0, Bound(p) <= Len(file)
  PROVE  IsAt(Skipped(at)) /\ Skipped(at).position = Bound(p)
<1> DEFINE q == at.position
           r == q % BlockSize
<1>1. q \in Nat /\ p <= q /\ q <= Bound(p) /\ Bound(p) \in Nat /\ Bound(p) % BlockSize = 0
  BY BoundIs, BoundOfMultiple DEF IsAt
<1> HIDE DEF q
<1>2. q < Bound(p) => Bound(q) = Bound(p)
  BY <1>1, SameBlock
<1>3. CASE r = 0
  <2>1. Skipped(at) = at
    BY <1>3 DEF Skipped, q
  <2>2. q = Bound(p)
    <3>1. q # p
      BY <1>3 DEF q
    <3>2. ASSUME q < Bound(p) PROVE FALSE
      <4>1. p < q /\ q % BlockSize = 0
        BY <1>1, <1>3, <3>1
      <4>2. Bound(p) <= q
        BY <1>1, <4>1, SameBlock
      <4> QED
        BY <1>1, <3>2, <4>2
    <3> QED
      BY <1>1, <3>2
  <2> QED
    BY <2>1, <2>2 DEF q
<1>4. CASE r # 0
  <2>1. Skipped(at) = Fetch(at, BlockSize - r)
    BY <1>4 DEF Skipped, q
  <2>2. q < Bound(p)
    BY <1>1, <1>4
  <2>3. r \in 0..BlockSize - 1 /\ Bound(q) - q = BlockSize - r
    BY <1>1, BoundIs
  <2> DEFINE size == BlockSize - r
  <2> HIDE DEF r
  <2>4. size \in Nat /\ q + size = Bound(p)
    BY <1>1, <1>2, <2>2, <2>3, Sizes
  <2> HIDE DEF size
  <2>5. q + size <= Len(file)
    BY <2>4
  <2>6. /\ IsAt(Fetch(at, size))
        /\ at.position + size <= Len(file) => Fetch(at, size).position = at.position + size
    BY <2>4, FetchIs
  <2> QED
    BY <2>1, <2>4, <2>5, <2>6 DEF size, q
<1> QED
  BY <1>3, <1>4

(* A place inside a fragment is none at which a reader stops. *)
LEMMA NotInside ==
  ASSUME NEW F, NEW l \in Nat, NEW c \in Seq(Content), NEW m, Layout(F, l, c, "closed", m),
         NEW p \in Nat, Stop(F, p), NEW f \in F
  PROVE  EndOf(f) <= p \/ p <= f.at
<1>1. ASSUME NEW g \in F
      PROVE  /\ IsPiece(g, l, c) /\ g.at \in Nat /\ EndOf(g) \in Nat /\ g.at < EndOf(g)
             /\ EndOf(g) <= Bound(g.at)
  <2>1. IsPiece(g, l, c)
    BY DEF Layout
  <2> QED
    BY <2>1, PieceIs DEF IsPiece
<1>2. CASE p % BlockSize = 0
  <2>1. f.at < p => Bound(f.at) <= p
    BY <1>1, <1>2, SameBlock
  <2>2. Bound(f.at) \in Nat
    BY <1>1, BoundIs
  <2> QED
    BY <1>1, <2>1, <2>2
<1>3. CASE \E g \in F : EndOf(g) = p
  <2>1. PICK g \in F : EndOf(g) = p
    BY <1>3
  <2>2. /\ f.at < g.at => EndOf(f) <= g.at
        /\ g.at < f.at => EndOf(g) <= f.at
        /\ f.at = g.at => f = g
    BY DEF Layout, PiecesInOrder
  <2> QED
    BY <1>1, <2>1, <2>2
<1> QED
  BY <1>2, <1>3 DEF Stop

(* What the reader finds at its place. *)
Found(got, F) ==
  \/ position = Len(file) /\ got.type = "EOF" /\ got.at.position = position
  \/ /\ position < Len(file) /\ got.type \in {"NONE", "INVALID"}
     /\ position <= got.at.position /\ got.at.position <= Bound(position)
     /\ got.at.position = position => position % BlockSize # 0
     /\ \A f \in F : f.at = position => /\ Block(position) \in damaged
                                        /\ got.type = "NONE" => blanked
  \/ /\ position < Len(file)
     /\ \E f \in F : /\ f.at = position /\ got.type = f.type /\ got.data = DataOf(f, content)
                     /\ got.at.position = EndOf(f)

(* What __try_read_record returns or raises at the place of the reader. *)
LEMMA TryReadIs ==
  ASSUME FilesType, NEW F, Holds(F)
  PROVE  LET got == TryRead([position |-> position, ahead |-> ahead])
         IN  Found(got, F) /\ IsAt(got.at)
<1> DEFINE at == [position |-> position, ahead |-> ahead]
           got == TryRead(at)
           p == position
           l == Len(file)
           left == BlockSize - (p % BlockSize)
           past == Fetch(at, HeaderLength)
           header == Bytes(at, past)
           data == header[1][3]
           end == Fetch(past, Len(data))
           Got(type, d, to) == [type |-> type, data |-> d, at |-> to]
<1> SUFFICES Found(got, F) /\ IsAt(got.at)
  OBVIOUS
<1>1. /\ file \in Seq(Byte) /\ l \in Nat /\ l % BlockSize = 0 /\ p \in Nat /\ p <= l
      /\ ahead \in Nat /\ ahead <= l - p
  <2>1. file \in Seq(Byte) /\ l % BlockSize = 0 /\ p \in 0..l /\ ahead \in 0..l - p
    BY DEF FilesType
  <2>2. l \in Nat
    BY <2>1, LenProperties
  <2> HIDE DEF l, p
  <2> QED
    BY <2>1, <2>2
<1>2. IsAt(at) /\ at.position = p
  BY <1>1 DEF IsAt
<1>3. /\ got = IF left < HeaderLength THEN Got("NONE", <<>>, at)
               ELSE IF Len(header) # HeaderLength THEN Got("EOF", <<>>, past)
               ELSE IF header = Zeros(HeaderLength) THEN Got("NONE", <<>>, past)
               ELSE IF \/ header[1][1] # "head"
                       \/ \E i \in 2..HeaderLength : header[i] # <<"more">>
                       \/ Len(data) + HeaderLength > left THEN Got("INVALID", <<>>, past)
               ELSE IF Len(Bytes(past, end)) # Len(data) THEN Got("EOF", <<>>, end)
               ELSE IF header[1][2] = "NONE" THEN Got("NONE", <<>>, end)
               ELSE IF Bytes(past, end) # data THEN Got("INVALID", <<>>, end)
               ELSE Got(header[1][2], data, end)
  <2>1. at.position = p
    BY <1>2
  <2> QED
    BY <2>1, Zenon DEF TryRead
<1> HIDE DEF at, got
<1>4. /\ left \in Nat /\ Bound(p) = p + left /\ Bound(p) \in Nat /\ left > 0
      /\ p % BlockSize = 0 => left = BlockSize
  <2> DEFINE r == p % BlockSize
  <2>1. r \in 0..BlockSize - 1 /\ Bound(p) \in Nat /\ Bound(p) - p = BlockSize - r
    BY <1>1, BoundIs
  <2> HIDE DEF r, p
  <2>2. left = BlockSize - r
    BY DEF r
  <2> HIDE DEF left
  <2> QED
    BY <1>1, <2>1, <2>2, Sizes DEF r
<1>5. IsAt(past) /\ p <= past.position
      /\ (p + HeaderLength <= l => past.position = p + HeaderLength)
      /\ (p + HeaderLength > l => past.position = l)
  <2>1. HeaderLength \in Nat
    BY Sizes
  <2> QED
    BY <1>1, <1>2, <2>1, FetchIs
<1> HIDE DEF past, p
<1>6. past.position \in Nat /\ past.position <= l
  BY <1>5 DEF IsAt
<1>7. /\ header \in Seq(Byte) /\ Len(header) = past.position - p
      /\ \A i \in 1..past.position - p : header[i] = file[p + i]
  BY <1>1, <1>2, <1>5, <1>6, BytesAre
<1>8. Layout(F, l, content, "closed", 0) /\ Stored(F, file, content, damaged, blanked)
      /\ Gaps(F, file) /\ Stop(F, p) /\ content \in Seq(Content)
  BY DEF Holds, Seen, FilesType, p
<1>9. CASE p = l
  <2>1. left = BlockSize /\ ~(left < HeaderLength)
    <3> HIDE DEF left, l
    <3> QED
      BY <1>1, <1>4, <1>9, Sizes
  <2>2. past.position = p
    <3> HIDE DEF l
    <3> QED
      BY <1>1, <1>5, <1>9, Sizes
  <2>3. Len(header) # HeaderLength
    <3> HIDE DEF header
    <3> QED
      BY <1>1, <1>7, <2>2, Sizes
  <2>4. got = Got("EOF", <<>>, past)
    BY <1>3, <2>1, <2>3, Zenon
  <2>5. got.type = "EOF" /\ got.at = past
    BY <2>4
  <2> QED
    BY <1>5, <1>9, <2>2, <2>5 DEF Found, p
<1>10. CASE p < l
  <2>1. Bound(p) <= l
    BY <1>1, <1>10, SameBlock
  <2>2. (\E f \in F : f.at = p) \/ Gap(F, file, p)
    <3>1. p \in 0..l - 1
      <4> HIDE DEF l
      <4> QED
        BY <1>1, <1>10
    <3> QED
      BY <1>8, <3>1 DEF Gaps
  <2>3. ASSUME NEW f \in F, f.at = p
        PROVE  /\ IsPiece(f, l, content) /\ EndOf(f) <= Bound(p) /\ Block(p) \in content[f.rec].blocks
               /\ EndOf(f) = p + HeaderLength + Len(DataOf(f, content))
               /\ DataOf(f, content) \in Data /\ Len(DataOf(f, content)) \in Nat
               /\ f.type \in FragmentTypes
               /\ HeaderKept(f, file, content, blanked)
               /\ Block(p) \notin damaged => Intact(f, file, content)
               /\ Len(DataOf(f, content)) = f.to - f.from /\ EndOf(f) <= l
               /\ \A i \in 1..f.to - f.from : DataOf(f, content)[i] = content[f.rec].data[f.from + i]
    <3>1. IsPiece(f, l, content)
      BY <1>8 DEF Layout
    <3>2. /\ DataOf(f, content) \in Data /\ Len(DataOf(f, content)) = f.to - f.from
          /\ f.type \in FragmentTypes /\ EndOf(f) <= l
          /\ \A i \in 1..f.to - f.from : DataOf(f, content)[i] = content[f.rec].data[f.from + i]
      BY <1>1, <1>8, <3>1, PieceIs
    <3>3. Len(DataOf(f, content)) \in Nat
      BY <3>2, LenProperties DEF Data
    <3>4. EndOf(f) = p + HeaderLength + Len(DataOf(f, content))
      BY <2>3, <3>2 DEF EndOf
    <3> QED
      BY <1>8, <2>3, <3>1, <3>2, <3>3, <3>4 DEF IsPiece, Stored
  <2>4. CASE left < HeaderLength
    <3>1. got = Got("NONE", <<>>, at)
      BY <1>3, <2>4, Zenon
    <3>2. got.type = "NONE" /\ got.at = at
      BY <3>1
    <3>3. p % BlockSize # 0
      <4> HIDE DEF left
      <4> QED
        BY <1>4, <2>4, Sizes
    <3>4. ASSUME NEW f \in F, f.at = p PROVE FALSE
      <4>1. EndOf(f) <= p + left /\ EndOf(f) = p + HeaderLength + Len(DataOf(f, content))
            /\ Len(DataOf(f, content)) \in Nat
        BY <1>4, <2>3, <3>4
      <4> HIDE DEF left
      <4> QED
        BY <1>1, <1>4, <2>4, <4>1, Sizes
    <3>5. p <= Bound(p)
      BY <1>1, BoundIs
    <3> QED
      BY <1>1, <1>2, <1>10, <3>2, <3>3, <3>4, <3>5 DEF Found, p
  <2>5. CASE ~(left < HeaderLength)
    <3>1. p + HeaderLength <= Bound(p) /\ past.position = p + HeaderLength
      <4> HIDE DEF left, l
      <4> QED
        BY <1>1, <1>4, <1>5, <2>1, <2>5, Sizes
    <3>2. Len(header) = HeaderLength /\ \A i \in 1..HeaderLength : header[i] = file[p + i]
      <4>1. past.position - p = HeaderLength
        BY <1>1, <3>1, Sizes
      <4> QED
        BY <1>7, <4>1
    <3>3. header[1] = file[p + 1] /\ 1 \in 1..HeaderLength
      BY <3>2, Sizes
    <3> HIDE DEF header
    <3>4. p <= past.position /\ past.position <= Bound(p) /\ past.position # p
      BY <1>1, <3>1, Sizes
    (* Nothing can be read. *)
    <3>5. ASSUME NEW type \in {"NONE", "INVALID"}, NEW to, got = Got(type, <<>>, to), IsAt(to),
                 p <= to.position, to.position <= Bound(p), to.position # p,
                 \A f \in F : f.at = p => Block(p) \in damaged /\ (type = "NONE" => blanked)
          PROVE  Found(got, F) /\ IsAt(got.at)
      <4>1. got.type = type /\ got.at = to
        BY <3>5
      <4> QED
        BY <1>10, <3>5, <4>1 DEF Found, p
    <3>6. CASE Gap(F, file, p)
      <4>1. ASSUME NEW f \in F, f.at = p PROVE FALSE
        <5>1. p <= p
          BY <1>1
        <5> QED
          BY <3>6, <4>1, <5>1 DEF Gap
      <4>2. header[1] \in {<<"zero">>, <<"bad">>}
        BY <3>3, <3>6 DEF Gap
      <4>3. header[1][1] # "head"
        BY <4>2
      <4>4. got = Got("NONE", <<>>, past) \/ got = Got("INVALID", <<>>, past)
        BY <1>3, <2>5, <3>2, <4>3, Zenon
      <4> QED
        BY <1>5, <3>4, <3>5, <4>1, <4>4
    <3>7. CASE \E f \in F : f.at = p
      <4>1. PICK f \in F : f.at = p
        BY <3>7
      <4> DEFINE D == DataOf(f, content)
      <4>2. /\ HeaderKept(f, file, content, blanked) /\ f.type \in FragmentTypes
            /\ EndOf(f) <= Bound(p) /\ EndOf(f) = p + HeaderLength + Len(D) /\ Len(D) \in Nat
            /\ D \in Data /\ EndOf(f) <= l
            /\ Block(p) \notin damaged => Intact(f, file, content)
        BY <2>3, <4>1
      <4>3. \A g \in F : g.at = p => g = f
        BY <1>8, <4>1 DEF Layout, PiecesInOrder
      <4>4. header # Zeros(HeaderLength)
        <5>1. header[1] # <<"zero">>
          <6>1. \/ header[1] = <<"bad">> \/ header[1] = <<"head", f.type, D>>
                \/ header[1] = <<"head", "NONE", D>>
            BY <3>3, <4>1, <4>2 DEF HeaderKept
          <6>2. <<"zero">>[1] = "zero"
            OBVIOUS
          <6>3. header[1][1] \in {"bad", "head"}
            BY <6>1
          <6> QED
            BY <6>2, <6>3
        <5>2. Zeros(HeaderLength)[1] = <<"zero">>
          BY <3>3, Sizes, ZerosAre
        <5> QED
          BY <5>1, <5>2
      <4>5. CASE header[1] = <<"bad">>
        <5>1. header[1][1] # "head"
          BY <4>5
        <5>2. got = Got("INVALID", <<>>, past)
          BY <1>3, <2>5, <3>2, <4>4, <5>1, Zenon
        <5>3. Block(p) \in damaged
          <6>1. ASSUME Intact(f, file, content) PROVE FALSE
            <7>1. header[1] = <<"head", f.type, D>>
              BY <3>3, <4>1, <6>1 DEF Intact
            <7> QED
              BY <5>1, <7>1
          <6> QED
            BY <4>2, <6>1
        <5> QED
          BY <1>5, <3>4, <3>5, <5>2, <5>3
      <4>6. CASE header[1] # <<"bad">>
        <5>1. \/ header[1] = <<"head", f.type, D>>
              \/ blanked /\ header[1] = <<"head", "NONE", D>>
          BY <3>3, <4>1, <4>2, <4>6 DEF HeaderKept
        <5> HIDE DEF D
        <5>2. /\ header[1][1] = "head" /\ header[1][3] = D
              /\ header[1][2] = f.type \/ (blanked /\ header[1][2] = "NONE")
          BY <5>1
        <5>3. data = D
          BY <5>2
        <5> HIDE DEF data
        <5>4. ~(Len(data) + HeaderLength > left)
          <6> HIDE DEF left
          <6> QED
            BY <1>1, <1>4, <4>2, <5>3, Sizes
        <5>5. IsAt(end) /\ end.position = EndOf(f)
          <6>1. past.position + Len(data) = EndOf(f)
            BY <1>1, <3>1, <4>2, <5>3, Sizes
          <6>2. Len(data) \in Nat
            BY <4>2, <5>3
          <6>3. /\ IsAt(end)
                /\ past.position + Len(data) <= l => end.position = past.position + Len(data)
            BY <1>1, <1>5, <6>2, FetchIs
          <6> QED
            BY <4>2, <6>1, <6>3
        <5> HIDE DEF end
        <5>6. /\ Bytes(past, end) \in Seq(Byte) /\ Len(Bytes(past, end)) = Len(data)
              /\ \A i \in 1..Len(data) : Bytes(past, end)[i] = file[p + HeaderLength + i]
          <6>1. past.position <= end.position /\ end.position <= l /\ end.position \in Nat
                /\ end.position - past.position = Len(data)
            <7> HIDE DEF l
            <7> QED
              BY <1>1, <3>1, <4>2, <5>3, <5>5, Sizes
          <6>2. /\ Bytes(past, end) \in Seq(Byte)
                /\ Len(Bytes(past, end)) = end.position - past.position
                /\ \A i \in 1..end.position - past.position :
                     Bytes(past, end)[i] = file[past.position + i]
            BY <1>1, <1>6, <6>1, BytesAre
          <6> QED
            BY <3>1, <6>1, <6>2
        <5>7. p <= end.position /\ end.position <= Bound(p) /\ end.position # p
          BY <1>1, <4>2, <5>5, Sizes
        <5>8. CASE \E i \in 2..HeaderLength : header[i] # <<"more">>
          <6>1. got = Got("INVALID", <<>>, past)
            BY <1>3, <2>5, <3>2, <4>4, <5>8, Zenon
          <6>2. PICK i \in 2..HeaderLength : header[i] # <<"more">>
            BY <5>8
          <6>3. i \in 1..HeaderLength
            BY Sizes
          <6>4. file[f.at + i] # <<"more">>
            BY <3>2, <4>1, <6>2, <6>3
          <6>5. ~Intact(f, file, content)
            BY <6>4 DEF Intact
          <6>6. Block(p) \in damaged
            BY <4>2, <6>5
          <6> QED
            BY <1>5, <3>4, <3>5, <6>1, <6>6
        <5>9. CASE ~\E i \in 2..HeaderLength : header[i] # <<"more">>
          <6>1. got = IF header[1][2] = "NONE" THEN Got("NONE", <<>>, end)
                      ELSE IF Bytes(past, end) # data THEN Got("INVALID", <<>>, end)
                      ELSE Got(header[1][2], data, end)
            BY <1>3, <2>5, <3>2, <4>4, <5>2, <5>4, <5>6, <5>9, Zenon
          <6>2. f.type # "NONE"
            BY <4>2 DEF FragmentTypes
          <6>3. CASE header[1][2] = "NONE"
            <7>1. got = Got("NONE", <<>>, end) /\ blanked
              BY <5>2, <6>1, <6>2, <6>3
            <7>2. ASSUME Intact(f, file, content) PROVE FALSE
              <8>1. header[1] = <<"head", f.type, D>>
                BY <3>3, <4>1, <7>2 DEF Intact, D
              <8> QED
                BY <6>2, <6>3, <8>1
            <7>3. Block(p) \in damaged
              BY <4>2, <7>2
            <7> QED
              BY <3>5, <5>5, <5>7, <7>1, <7>3
          <6>4. CASE header[1][2] # "NONE" /\ Bytes(past, end) # data
            <7>1. got = Got("INVALID", <<>>, end)
              BY <6>1, <6>4, Zenon
            <7>2. ASSUME Intact(f, file, content) PROVE FALSE
              <8> DEFINE s == Bytes(past, end)
              <8>1. data \in Seq(Byte)
                <9>1. data \in Seq(DataByte) /\ DataByte \subseteq Byte
                  BY <4>2, <5>3 DEF Data, Byte
                <9> QED
                  BY <9>1, SeqMonotonic
              <8>2. ASSUME NEW i \in 1..Len(s) PROVE s[i] = data[i]
                <9>1. i \in 1..Len(data) /\ Len(data) = f.to - f.from
                  BY <2>3, <4>1, <5>3, <5>6 DEF D
                <9>2. s[i] = file[p + HeaderLength + i]
                  BY <5>6, <9>1
                <9>3. file[p + HeaderLength + i] = content[f.rec].data[f.from + i]
                  BY <4>1, <7>2, <9>1 DEF Intact
                <9>4. data[i] = content[f.rec].data[f.from + i]
                  BY <2>3, <4>1, <5>3, <9>1 DEF D
                <9> QED
                  BY <9>2, <9>3, <9>4
              <8> HIDE DEF s
              <8>3. s = data
                BY <5>6, <8>1, <8>2, SeqEqual DEF s
              <8> QED
                BY <6>4, <8>3 DEF s
            <7>3. Block(p) \in damaged
              BY <4>2, <7>2
            <7> QED
              BY <3>5, <5>5, <5>7, <7>1, <7>3
          <6>5. CASE header[1][2] # "NONE" /\ Bytes(past, end) = data
            <7>1. got = Got(f.type, D, end)
              BY <5>2, <5>3, <6>1, <6>5
            <7>2. got.type = f.type /\ got.data = D /\ got.at = end
              BY <7>1
            <7> QED
              BY <1>10, <4>1, <5>5, <7>2 DEF Found, p, D
          <6> QED
            BY <6>3, <6>4, <6>5
        <5> QED
          BY <5>8, <5>9
      <4> QED
        BY <4>5, <4>6
    <3> QED
      BY <2>2, <3>6, <3>7
  <2> QED
    BY <2>4, <2>5
<1> HIDE DEF l
<1> QED
  BY <1>1, <1>9, <1>10

(* Steps of the reader.                                                    *)

(* The pieces of a file, for a reader. *)
LEMMA PiecesAre ==
  ASSUME NEW F, NEW l \in Nat, NEW c \in Seq(Content), Layout(F, l, c, "closed", 0), NEW f \in F
  PROVE  /\ f.at \in Nat /\ EndOf(f) \in Nat /\ f.at < EndOf(f) /\ EndOf(f) <= l
         /\ EndOf(f) <= Bound(f.at) /\ f.rec \in DOMAIN c /\ f.rec \in Nat
         /\ c[f.rec].data \in Data /\ Block(f.at) \in c[f.rec].blocks
         /\ f.type \in FragmentTypes
         /\ Ending(f) => f.to = Len(c[f.rec].data)
         /\ Opening(f) => f.from = 0
         /\ f.from \in Nat /\ f.to \in Nat /\ f.from <= f.to /\ f.to <= Len(c[f.rec].data)
         /\ DataOf(f, c) \in Data
         /\ \A g \in F : f.at = g.at => f = g
         /\ \A g \in F : f.at < g.at => EndOf(f) <= g.at
         /\ \A g \in F : f.at < g.at /\ Ending(f) => f.rec < g.rec
         /\ \A g \in F : EndOf(f) = EndOf(g) => f = g
         /\ ~Ending(f) => \E g \in F : Follows(f, g)
         /\ ~Opening(f) => \E g \in F : Follows(g, f)
<1>1. \A g \in F : IsPiece(g, l, c)
  BY DEF Layout
<1>2. /\ f.at \in Nat /\ EndOf(f) \in Nat /\ f.at < EndOf(f) /\ EndOf(f) <= l
      /\ f.rec \in 1..Len(c) /\ f.rec \in Nat /\ c[f.rec].data \in Data /\ f.type \in FragmentTypes
      /\ f.from \in Nat /\ f.to \in Nat /\ f.from <= f.to /\ f.to <= Len(c[f.rec].data)
      /\ DataOf(f, c) \in Data
  BY <1>1, PieceIs
<1>3. \A g \in F : g.at \in Nat /\ EndOf(g) \in Nat /\ g.at < EndOf(g)
  BY <1>1, PieceIs
<1>4. DOMAIN c = 1..Len(c)
  BY LenProperties
<1>5. /\ \A g \in F : f.at = g.at => f = g
      /\ \A g \in F : f.at < g.at => EndOf(f) <= g.at
      /\ \A g \in F : f.at < g.at /\ Ending(f) => f.rec < g.rec
  BY DEF Layout, PiecesInOrder
<1>6. ASSUME NEW g \in F, EndOf(f) = EndOf(g) PROVE f = g
  <2>1. g.at < f.at => EndOf(g) <= f.at
    BY DEF Layout, PiecesInOrder
  <2> QED
    BY <1>2, <1>3, <1>5, <1>6, <2>1
<1>7. /\ ~Ending(f) => \E g \in F : Follows(f, g)
      /\ ~Opening(f) => \E g \in F : Follows(g, f)
  BY DEF Layout, Linked
<1>8. /\ EndOf(f) <= Bound(f.at) /\ Block(f.at) \in c[f.rec].blocks
      /\ Ending(f) => f.to = Len(c[f.rec].data)
      /\ Opening(f) => f.from = 0
  BY <1>1 DEF IsPiece
<1> QED
  BY <1>2, <1>4, <1>5, <1>6, <1>7, <1>8

(* A reader goes further. *)
LEMMA FurtherOn ==
  ASSUME NEW F, NEW l \in Nat, NEW c \in Seq(Content), Layout(F, l, c, "closed", 0),
         NEW blank, NEW p \in Nat, NEW q \in Nat, p <= q, NEW recs, Ordered(F, c, blank, p, recs)
  PROVE  Ordered(F, c, blank, q, recs)
<1>1. PICK where \in [DOMAIN recs -> DOMAIN c] : InOrderOf(F, c, blank, p, recs, where)
  BY DEF Ordered
<1>2. \A f \in F : f.at < p => f.at < q
  BY PiecesAre
<1>3. InOrderOf(F, c, blank, q, recs, where)
  BY <1>1, <1>2 DEF InOrderOf
<1> QED
  BY <1>3 DEF Ordered

(* A record is returned after the fragment at p. *)
LEMMA OneMore ==
  ASSUME NEW F, NEW l \in Nat, NEW c \in Seq(Content), Layout(F, l, c, "closed", 0),
         NEW blank, NEW f \in F, Ending(f), NEW recs \in Seq(Data), NEW v \in Data,
         Ordered(F, c, blank, f.at, recs), blank \/ v = c[f.rec].data
  PROVE  Ordered(F, c, blank, EndOf(f), Append(recs, v))
<1> DEFINE n == Len(recs)
           s == Append(recs, v)
           q == EndOf(f)
<1>1. PICK where \in [DOMAIN recs -> DOMAIN c] : InOrderOf(F, c, blank, f.at, recs, where)
  BY DEF Ordered
<1>2. /\ n \in Nat /\ DOMAIN recs = 1..n /\ s \in Seq(Data) /\ Len(s) = n + 1
      /\ s[n + 1] = v /\ \A i \in 1..n : s[i] = recs[i]
  BY AppendProperties, LenProperties
<1>3. DOMAIN s = 1..n + 1
  BY <1>2, LenProperties
<1> HIDE DEF n, s
<1> DEFINE more == [i \in 1..n + 1 |-> IF i = n + 1 THEN f.rec ELSE where[i]]
<1>4. f.rec \in DOMAIN c /\ f.at < q /\ f.at \in Nat /\ q \in Nat
  BY PiecesAre
<1>5. \A i \in 1..n + 1 : i = n + 1 \/ i \in 1..n
  BY <1>2
<1>6. more \in [1..n + 1 -> DOMAIN c]
  BY <1>1, <1>2, <1>4, <1>5
<1>7. more[n + 1] = f.rec /\ \A i \in 1..n : more[i] = where[i]
  BY <1>2
<1> HIDE DEF more
<1>8. ASSUME NEW i \in 1..n
      PROVE  /\ \E h \in F : h.rec = where[i] /\ Ending(h) /\ h.at < f.at
             /\ where[i] < f.rec
             /\ ~blank => recs[i] = c[where[i]].data
  <2>1. /\ \E h \in F : h.rec = where[i] /\ Ending(h) /\ h.at < f.at
        /\ ~blank => recs[i] = c[where[i]].data
    BY <1>1, <1>2 DEF InOrderOf
  <2> QED
    BY <2>1, PiecesAre
<1>9. ASSUME NEW i \in 1..n + 1, NEW j \in 1..n + 1, i < j PROVE more[i] < more[j]
  <2>1. i \in 1..n
    BY <1>2, <1>9
  <2>2. CASE j = n + 1
    BY <1>7, <1>8, <2>1, <2>2
  <2>3. CASE j \in 1..n
    BY <1>1, <1>2, <1>7, <1>9, <2>1, <2>3 DEF InOrderOf
  <2> QED
    BY <1>5, <2>2, <2>3
<1>10. ASSUME NEW i \in 1..n + 1
       PROVE  /\ \E h \in F : h.rec = more[i] /\ Ending(h) /\ h.at < q
              /\ ~blank => s[i] = c[more[i]].data
  <2>1. CASE i = n + 1
    BY <1>2, <1>4, <1>7, <2>1
  <2>2. CASE i \in 1..n
    <3>1. PICK h \in F : h.rec = where[i] /\ Ending(h) /\ h.at < f.at
      BY <1>8, <2>2
    <3>2. h.at < q
      <4>1. h.at \in Nat
        BY PiecesAre
      <4> HIDE DEF q
      <4> QED
        BY <1>4, <3>1, <4>1
    <3>3. ~blank => s[i] = c[where[i]].data
      BY <1>2, <1>8, <2>2
    <3> QED
      BY <1>7, <2>2, <3>1, <3>2, <3>3
  <2> QED
    BY <1>5, <2>1, <2>2
<1>11. InOrderOf(F, c, blank, q, s, more)
  BY <1>3, <1>9, <1>10 DEF InOrderOf
<1>12. Ordered(F, c, blank, q, s)
  BY <1>3, <1>6, <1>11 DEF Ordered
<1> QED
  BY <1>12 DEF s

(* The reader skips the rest of a block. *)
LEMMA RestSkipped ==
  ASSUME NEW F, NEW l \in Nat, NEW w, NEW c \in Seq(Content), Layout(F, l, c, "closed", 0),
         NEW dam, NEW blank, NEW p \in Nat, NEW chk, NEW recs, Seen(F, c, dam, blank, p, chk, recs),
         (\E f \in F : f.at = p) \/ Gap(F, w, p),
         \A f \in F : f.at = p => Block(p) \in dam,
         NEW chk2, chk2 = <<>> \/ (chk2 = chk /\ (blank \/ \A f \in F : f.at # p))
  PROVE  Seen(F, c, dam, blank, Bound(p), chk2, recs)
<1> DEFINE q == Bound(p)
<1>1. q \in Nat /\ p < q /\ q % BlockSize = 0
  BY BoundIs, BoundOfMultiple
<1> HIDE DEF q
<1>2. /\ Stop(F, p) /\ Returned(F, c, dam, p, recs) /\ Ordered(F, c, blank, p, recs)
      /\ blank \/ Started(F, c, p, chk)
  BY DEF Seen
<1>3. ASSUME NEW f \in F, p <= f.at, f.at < q
      PROVE  c[f.rec].blocks \cap dam # {}
  <2>1. Block(f.at) = Block(p)
    <3>1. f.at \in Nat
      BY PiecesAre
    <3> QED
      BY <1>3, <3>1, SameBlock DEF q
  <2>2. Block(p) \in dam
    <3>1. ~Gap(F, w, p)
      BY <1>3, <2>1 DEF Gap
    <3> QED
      BY <3>1
  <2>3. Block(f.at) \in c[f.rec].blocks
    BY PiecesAre
  <2> QED
    BY <2>1, <2>2, <2>3
<1>4. Stop(F, q)
  BY <1>1 DEF Stop
<1>5. Kept(F, c, dam, q, chk2)
  <2> SUFFICES ASSUME NEW g \in F, g.at = q, ~Opening(g), c[g.rec].blocks \cap dam = {}
               PROVE  FALSE
    BY DEF Kept
  <2>1. PICK f \in F : Follows(f, g)
    BY PiecesAre
  <2>2. EndOf(f) = q /\ g.rec = f.rec
    BY <2>1 DEF Follows
  <2>3. f.at \in Nat /\ f.at < EndOf(f)
    BY PiecesAre
  <2>4. EndOf(f) <= p \/ p <= f.at
    BY <1>2, NotInside
  <2>5. p <= f.at /\ f.at < q
    BY <1>1, <2>2, <2>3, <2>4
  <2> QED
    BY <1>3, <2>2, <2>5
<1>6. Returned(F, c, dam, q, recs)
  <2> SUFFICES ASSUME NEW f \in F, Ending(f), f.at < q, c[f.rec].blocks \cap dam = {}
               PROVE  \E j \in DOMAIN recs : recs[j] = c[f.rec].data
    BY DEF Returned
  <2>1. f.at < p
    <3>1. f.at \in Nat /\ ~(p <= f.at)
      BY <1>3, PiecesAre
    <3> QED
      BY <3>1
  <2> QED
    BY <1>2, <2>1 DEF Returned
<1>7. Ordered(F, c, blank, q, recs)
  <2>1. p <= q
    BY <1>1
  <2> QED
    BY <1>1, <1>2, <2>1, FurtherOn
<1>8. blank \/ Started(F, c, q, chk2)
  <2>1. CASE chk2 = <<>>
    BY <2>1 DEF Started
  <2>2. CASE chk2 = chk /\ ~blank /\ \A f \in F : f.at # p
    <3>1. chk = <<>>
      BY <1>2, <2>2 DEF Started
    <3> QED
      BY <2>2, <3>1 DEF Started
  <2> QED
    BY <2>1, <2>2
<1>9. Seen(F, c, dam, blank, q, chk2, recs)
  BY <1>4, <1>5, <1>6, <1>7, <1>8 DEF Seen
<1> QED
  BY <1>9 DEF q

(* What the reader has after a fragment, and what it has returned.         *)
Reads(f, c, chk, recs, chk2, recs2) ==
  \/ f.type = "FULL" /\ recs2 = Append(recs, DataOf(f, c)) /\ chk2 = <<>>
  \/ f.type = "FIRST" /\ chk2 = <<DataOf(f, c)>> /\ recs2 = recs
  \/ /\ f.type = "MIDDLE" /\ recs2 = recs
     /\ chk2 = IF chk = <<>> THEN <<>> ELSE <<chk[1] \o DataOf(f, c)>>
  \/ /\ f.type = "LAST" /\ chk2 = <<>>
     /\ recs2 = IF chk = <<>> THEN recs ELSE Append(recs, chk[1] \o DataOf(f, c))

(* The reader reads a fragment. *)
LEMMA FragmentRead ==
  ASSUME NEW F, NEW l \in Nat, NEW c \in Seq(Content), Layout(F, l, c, "closed", 0),
         NEW dam, NEW blank, NEW f \in F, NEW chk, NEW recs \in Seq(Data),
         Seen(F, c, dam, blank, f.at, chk, recs),
         chk = <<>> \/ \E d \in Data : chk = <<d>>,
         NEW chk2, NEW recs2,
         Reads(f, c, chk, recs, chk2, recs2)
  PROVE  /\ Seen(F, c, dam, blank, EndOf(f), chk2, recs2)
         /\ recs2 \in Seq(Data) /\ (chk2 = <<>> \/ \E d \in Data : chk2 = <<d>>)
<1> SUFFICES ASSUME
      \/ f.type = "FULL" /\ recs2 = Append(recs, DataOf(f, c)) /\ chk2 = <<>>
      \/ f.type = "FIRST" /\ chk2 = <<DataOf(f, c)>> /\ recs2 = recs
      \/ /\ f.type = "MIDDLE" /\ recs2 = recs
         /\ chk2 = IF chk = <<>> THEN <<>> ELSE <<chk[1] \o DataOf(f, c)>>
      \/ /\ f.type = "LAST" /\ chk2 = <<>>
         /\ recs2 = IF chk = <<>> THEN recs ELSE Append(recs, chk[1] \o DataOf(f, c))
    PROVE  /\ Seen(F, c, dam, blank, EndOf(f), chk2, recs2)
           /\ recs2 \in Seq(Data) /\ (chk2 = <<>> \/ \E d \in Data : chk2 = <<d>>)
  BY DEF Reads
<1> DEFINE p == f.at
           q == EndOf(f)
           data == c[f.rec].data
           D == DataOf(f, c)
<1>1. /\ p \in Nat /\ q \in Nat /\ p < q /\ data \in Data /\ D \in Data
      /\ f.from \in Nat /\ f.to \in Nat /\ f.from <= f.to /\ f.to <= Len(data)
      /\ Ending(f) => f.to = Len(data)
      /\ Opening(f) => f.from = 0
      /\ f.type \in FragmentTypes
  BY PiecesAre
<1>2. /\ Kept(F, c, dam, p, chk) /\ Returned(F, c, dam, p, recs) /\ Ordered(F, c, blank, p, recs)
      /\ blank \/ Started(F, c, p, chk)
  BY DEF Seen
<1> DEFINE before == SubSeq(data, 1, f.from)
           upto == SubSeq(data, 1, f.to)
<1>3. before \o D = upto /\ before \in Data /\ (f.from = 0 => D = upto)
  <2> DEFINE k == Len(data)
             a == f.from
             b == f.to
  <2>1. k \in Nat /\ a \in Nat /\ b \in Nat /\ a <= b /\ b <= k
    BY <1>1, LenProperties DEF Data
  <2>2. D = SubSeq(data, a + 1, b)
    BY DEF DataOf
  <2>3. 0 + 1 = 1
    OBVIOUS
  <2> HIDE DEF data, k, D, a, b
  <2>4. before \in Data
    <3>1. SubSeq(data, 0 + 1, a) \in Data
      <4>1. 0 \in Nat /\ 0 <= a /\ a <= Len(data)
        BY <2>1 DEF k
      <4> QED
        BY <1>1, <2>1, <4>1, PartOfData
    <3> QED
      BY <2>3, <3>1 DEF a
  <2>5. SubSeq(data, 1, a) \o SubSeq(data, a + 1, b) = SubSeq(data, 1, b)
    <3>1. 1 \in 1..Len(data) + 1 /\ a \in 1 - 1..Len(data) /\ b \in a..Len(data)
      BY <2>1 DEF k
    <3> QED
      BY <1>1, <3>1, ConcatAdjacentSubSeq DEF Data
  <2>6. a = 0 => D = SubSeq(data, 1, b)
    BY <2>2, <2>3
  <2> QED
    BY <2>2, <2>4, <2>5, <2>6 DEF a, b
<1>4. Ending(f) => upto = data
  BY <1>1, SubSeqFull DEF Data
<1>5. Opening(f) <=> f.type \in {"FULL", "FIRST"}
  BY DEF Opening
<1>6. Ending(f) <=> f.type \in {"FULL", "LAST"}
  BY DEF Ending
<1> HIDE DEF q, p, D, data, before, upto
(* What the reader kept is the record's data before this fragment. *)
<1>7. ~Opening(f) /\ c[f.rec].blocks \cap dam = {} => chk = <<before>>
  BY <1>2 DEF Kept, before, p, data
<1>8. ASSUME ~blank, chk # <<>> PROVE ~Opening(f) /\ chk = <<before>>
  <2>1. PICK g \in F : g.at = p /\ ~Opening(g) /\ chk = <<SubSeq(c[g.rec].data, 1, g.from)>>
    BY <1>2, <1>8 DEF Started
  <2>2. g = f
    BY <2>1, PiecesAre DEF p
  <2> QED
    BY <2>1, <2>2 DEF before, data
<1>9. ASSUME NEW g \in F, g.at = q, ~Opening(g)
      PROVE  ~Ending(f) /\ g.rec = f.rec /\ g.from = f.to
  <2>1. PICK h \in F : Follows(h, g)
    BY <1>9, PiecesAre
  <2>2. EndOf(h) = EndOf(f)
    BY <1>9, <2>1 DEF Follows, q
  <2>3. h = f
    BY <2>2, PiecesAre
  <2> QED
    BY <2>1, <2>3 DEF Follows
<1>10. ~Ending(f) => \E g \in F : g.at = q /\ ~Opening(g) /\ g.rec = f.rec /\ g.from = f.to
  <2> SUFFICES ASSUME ~Ending(f)
               PROVE  \E g \in F : g.at = q /\ ~Opening(g) /\ g.rec = f.rec /\ g.from = f.to
    OBVIOUS
  <2>1. PICK g \in F : Follows(f, g)
    BY PiecesAre
  <2> QED
    BY <2>1 DEF Follows, q
<1>11. ASSUME NEW e \in F, e.at < q PROVE e.at < p \/ e = f
  <2>1. /\ f.at < e.at => EndOf(f) <= e.at
        /\ f.at = e.at => f = e
    BY PiecesAre
  <2>2. e.at \in Nat
    BY PiecesAre
  <2> QED
    BY <1>1, <1>11, <2>1, <2>2 DEF p, q
<1>12. Stop(F, q)
  BY DEF Stop, q
(* What is kept. *)
<1>13. recs2 \in Seq(Data) /\ (chk2 = <<>> \/ \E d \in Data : chk2 = <<d>>)
  <2>1. chk # <<>> => chk[1] \in Data /\ chk[1] \o D \in Data
    <3> SUFFICES ASSUME chk # <<>> PROVE chk[1] \in Data /\ chk[1] \o D \in Data
      OBVIOUS
    <3>1. PICK d \in Data : chk = <<d>>
      OBVIOUS
    <3>2. chk[1] = d
      BY <3>1
    <3>3. d \o D \in Data
      BY <1>1, ConcatProperties DEF Data
    <3> QED
      BY <3>2, <3>3
  <2>2. Append(recs, D) \in Seq(Data)
    BY <1>1, AppendProperties
  <2>3. chk # <<>> => Append(recs, chk[1] \o D) \in Seq(Data)
    BY <2>1, AppendProperties
  <2>4. recs2 \in Seq(Data)
    BY <2>2, <2>3 DEF D
  <2>5. chk2 = <<>> \/ \E d \in Data : chk2 = <<d>>
    <3>1. CASE f.type \in {"FULL", "LAST"}
      BY <3>1
    <3>2. CASE f.type = "FIRST"
      BY <1>1, <3>2 DEF D
    <3>3. CASE f.type = "MIDDLE"
      BY <2>1, <3>3 DEF D
    <3> QED
      BY <1>1, <3>1, <3>2, <3>3 DEF FragmentTypes
  <2> QED
    BY <2>4, <2>5
<1>14. Kept(F, c, dam, q, chk2)
  <2> SUFFICES ASSUME NEW g \in F, g.at = q, ~Opening(g), c[g.rec].blocks \cap dam = {}
               PROVE  chk2 = <<SubSeq(c[g.rec].data, 1, g.from)>>
    BY DEF Kept
  <2>1. ~Ending(f) /\ g.rec = f.rec /\ g.from = f.to
    BY <1>9
  <2>2. SubSeq(c[g.rec].data, 1, g.from) = upto
    BY <2>1 DEF upto, data
  <2>3. CASE f.type = "FIRST"
    <3>1. chk2 = <<D>>
      BY <2>3 DEF D
    <3> QED
      BY <1>1, <1>3, <1>5, <2>2, <2>3, <3>1
  <2>4. CASE f.type = "MIDDLE"
    <3>1. chk2 = IF chk = <<>> THEN <<>> ELSE <<chk[1] \o D>>
      BY <2>4 DEF D
    <3>2. chk = <<before>>
      BY <1>5, <1>7, <2>1, <2>4
    <3>3. chk # <<>> /\ chk[1] = before
      BY <3>2
    <3> QED
      BY <1>3, <2>2, <3>1, <3>3
  <2> QED
    BY <1>1, <1>6, <2>1, <2>3, <2>4 DEF FragmentTypes
<1>15. blank \/ Started(F, c, q, chk2)
  <2> SUFFICES ASSUME ~blank, chk2 # <<>>
               PROVE  \E g \in F : g.at = q /\ ~Opening(g) /\ chk2 = <<SubSeq(c[g.rec].data, 1, g.from)>>
    BY DEF Started
  <2>1. f.type \in {"FIRST", "MIDDLE"}
    BY <1>1 DEF FragmentTypes
  <2>2. PICK g \in F : g.at = q /\ ~Opening(g) /\ g.rec = f.rec /\ g.from = f.to
    BY <1>6, <1>10, <2>1
  <2>3. SubSeq(c[g.rec].data, 1, g.from) = upto
    BY <2>2 DEF upto, data
  <2>4. chk2 = <<upto>>
    <3>1. CASE f.type = "FIRST"
      <4>1. chk2 = <<D>>
        BY <3>1 DEF D
      <4> QED
        BY <1>1, <1>3, <1>5, <3>1, <4>1
    <3>2. CASE f.type = "MIDDLE"
      <4>1. chk2 = IF chk = <<>> THEN <<>> ELSE <<chk[1] \o D>>
        BY <3>2 DEF D
      <4>2. chk = <<before>>
        BY <1>8, <4>1
      <4>3. chk # <<>> /\ chk[1] = before
        BY <4>2
      <4> QED
        BY <1>3, <4>1, <4>3
    <3> QED
      BY <2>1, <3>1, <3>2
  <2> QED
    BY <2>2, <2>3, <2>4
(* What is returned. *)
<1>16. CASE recs2 = recs /\ (Ending(f) => f.type = "LAST" /\ chk = <<>>)
  <2>1. Returned(F, c, dam, q, recs2)
    <3> SUFFICES ASSUME NEW e \in F, Ending(e), e.at < q, c[e.rec].blocks \cap dam = {}
                 PROVE  \E j \in DOMAIN recs : recs[j] = c[e.rec].data
      BY <1>16 DEF Returned
    <3>1. CASE e.at < p
      BY <1>2, <3>1 DEF Returned
    <3>2. CASE e = f
      <4>1. f.type = "LAST" /\ chk = <<>> /\ ~Opening(f)
        BY <1>5, <1>16, <3>2
      <4>2. chk = <<before>>
        BY <1>7, <3>2, <4>1
      <4> QED
        BY <4>1, <4>2
    <3> QED
      BY <1>11, <3>1, <3>2
  <2>2. Ordered(F, c, blank, q, recs2)
    <3>1. p <= q
      BY <1>1
    <3> QED
      BY <1>1, <1>2, <1>16, <3>1, FurtherOn
  <2> QED
    BY <1>12, <1>13, <1>14, <1>15, <2>1, <2>2 DEF Seen, q
<1>17. ASSUME NEW v \in Data, recs2 = Append(recs, v), Ending(f), blank \/ v = data,
              c[f.rec].blocks \cap dam = {} => v = data
       PROVE  /\ Seen(F, c, dam, blank, EndOf(f), chk2, recs2)
              /\ recs2 \in Seq(Data) /\ (chk2 = <<>> \/ \E d \in Data : chk2 = <<d>>)
  <2> DEFINE n == Len(recs)
  <2>1. /\ DOMAIN recs = 1..n /\ n \in Nat /\ recs2[n + 1] = v /\ Len(recs2) = n + 1
        /\ \A i \in 1..n : recs2[i] = recs[i]
    BY <1>17, AppendProperties, LenProperties
  <2>2. DOMAIN recs2 = 1..n + 1
    BY <1>13, <2>1, LenProperties
  <2> HIDE DEF n
  <2>3. n + 1 \in DOMAIN recs2 /\ \A i \in DOMAIN recs : i \in DOMAIN recs2 /\ recs2[i] = recs[i]
    BY <2>1, <2>2
  <2>4. Returned(F, c, dam, q, recs2)
    <3> SUFFICES ASSUME NEW e \in F, Ending(e), e.at < q, c[e.rec].blocks \cap dam = {}
                 PROVE  \E j \in DOMAIN recs2 : recs2[j] = c[e.rec].data
      BY DEF Returned
    <3>1. CASE e.at < p
      <4>1. \E j \in DOMAIN recs : recs[j] = c[e.rec].data
        BY <1>2, <3>1 DEF Returned
      <4> QED
        BY <2>3, <4>1
    <3>2. CASE e = f
      <4>1. v = c[e.rec].data
        BY <1>17, <3>2 DEF data
      <4> QED
        BY <2>1, <2>3, <4>1
    <3> QED
      BY <1>11, <3>1, <3>2
  <2>5. Ordered(F, c, blank, q, recs2)
    <3>1. Ordered(F, c, blank, f.at, recs) /\ (blank \/ v = c[f.rec].data)
      BY <1>2, <1>17 DEF p, data
    <3>2. Ordered(F, c, blank, EndOf(f), Append(recs, v))
      BY <1>17, <3>1, OneMore
    <3> QED
      BY <1>17, <3>2 DEF q
  <2> QED
    BY <1>12, <1>13, <1>14, <1>15, <2>4, <2>5 DEF Seen, q
<1>18. CASE f.type = "FULL"
  <2>1. recs2 = Append(recs, D) /\ Ending(f) /\ Opening(f)
    BY <1>5, <1>6, <1>18 DEF D
  <2>2. D = data
    BY <1>1, <1>3, <1>4, <2>1
  <2> QED
    BY <1>1, <1>17, <2>1, <2>2
<1>19. CASE f.type = "LAST" /\ chk # <<>>
  <2> DEFINE v == chk[1] \o D
  <2>1. recs2 = Append(recs, v) /\ Ending(f) /\ ~Opening(f)
    BY <1>5, <1>6, <1>19 DEF D
  <2>2. v \in Data
    <3>1. PICK d \in Data : chk = <<d>>
      BY <1>19
    <3>2. chk[1] = d
      BY <3>1
    <3>3. d \o D \in Data
      BY <1>1, ConcatProperties DEF Data
    <3> QED
      BY <3>2, <3>3
  <2>3. chk = <<before>> => v = data
    <3> SUFFICES ASSUME chk = <<before>> PROVE v = data
      OBVIOUS
    <3>1. chk[1] = before
      OBVIOUS
    <3> QED
      BY <1>3, <1>4, <2>1, <3>1
  <2>4. blank \/ v = data
    BY <1>8, <1>19, <2>3
  <2>5. c[f.rec].blocks \cap dam = {} => v = data
    BY <1>7, <2>1, <2>3
  <2> HIDE DEF v
  <2> QED
    BY <1>17, <2>1, <2>2, <2>4, <2>5
<1>20. CASE ~(f.type = "FULL") /\ ~(f.type = "LAST" /\ chk # <<>>)
  <2>1. recs2 = recs /\ (Ending(f) => f.type = "LAST" /\ chk = <<>>)
    BY <1>1, <1>6, <1>20 DEF FragmentTypes
  <2> QED
    BY <1>16, <2>1
<1> QED
  BY <1>18, <1>19, <1>20

(* One round of the reader. *)
LEMMA FragmentStep ==
  ASSUME FileInv, ReadFragment
  PROVE  FileInv'
<1> DEFINE got == TryRead([position |-> position, ahead |-> ahead])
           l == Len(file)
           p == position
<1>1. /\ FilesType /\ reading /\ ~eof
      /\ reading' = reading /\ exclusive' = exclusive /\ file' = file /\ buffers' = buffers
      /\ lengths' = lengths /\ refused' = refused /\ content' = content
      /\ damaged' = damaged /\ blanked' = blanked /\ mishaps' = mishaps
  BY DEF ReadFragment, writeVars, FileInv
<1>2. PICK F : Holds(F)
  BY DEF FileInv
<1>3. Found(got, F) /\ IsAt(got.at)
  BY <1>1, <1>2, TryReadIs
<1>4. \/ /\ got.type = "EOF"
         /\ eof' = TRUE /\ chunk' = <<>>
         /\ MoveTo(got.at) /\ records' = records
      \/ /\ got.type \in {"NONE", "INVALID"}
         /\ MoveTo(Skipped(got.at))
         /\ chunk' = AfterSkip(got.type)
         /\ eof' = (Skipped(got.at).position % BlockSize # 0)
         /\ records' = records
      \/ /\ got.type \in {"FULL", "FIRST", "MIDDLE", "LAST"}
         /\ MoveTo(got.at) /\ eof' = eof
         /\ \/ /\ got.type = "FULL"
               /\ records' = Append(records, got.data) /\ chunk' = <<>>
            \/ /\ got.type = "FIRST"
               /\ chunk' = <<got.data>> /\ records' = records
            \/ /\ got.type = "MIDDLE"
               /\ chunk' = IF chunk = <<>> THEN <<>> ELSE <<chunk[1] \o got.data>>
               /\ records' = records
            \/ /\ got.type = "LAST"
               /\ records' = IF chunk = <<>> THEN records
                             ELSE Append(records, chunk[1] \o got.data)
               /\ chunk' = <<>>
  BY Zenon DEF ReadFragment
<1> HIDE DEF got
<1>5. /\ file \in Seq(Byte) /\ l \in Nat /\ l % BlockSize = 0 /\ p \in Nat /\ p <= l
      /\ content \in Seq(Content) /\ records \in Seq(Data)
      /\ chunk = <<>> \/ \E d \in Data : chunk = <<d>>
  <2>1. file \in Seq(Byte) /\ l % BlockSize = 0 /\ p \in 0..l
    BY <1>1 DEF FilesType
  <2>2. l \in Nat
    BY <2>1, LenProperties
  <2> HIDE DEF l, p
  <2>3. p \in Nat /\ p <= l
    BY <2>1, <2>2
  <2> QED
    BY <1>1, <2>1, <2>2, <2>3 DEF FilesType
<1>6. /\ Layout(F, l, content, "closed", 0)
      /\ Stored(F, file, content, damaged, blanked) /\ Gaps(F, file)
      /\ Seen(F, content, damaged, blanked, p, chunk, records)
  BY <1>2 DEF Holds
(* Where the reader goes to, and what it then has. *)
<1>7. ASSUME NEW at, IsAt(at), MoveTo(at), eof' \in BOOLEAN, eof' => at.position = l,
             chunk' = <<>> \/ \E d \in Data : chunk' = <<d>>, records' \in Seq(Data),
             Seen(F, content, damaged, blanked, at.position, chunk', records')
      PROVE  FileInv'
  <2>1. position' = at.position /\ ahead' = at.ahead
    BY <1>7 DEF MoveTo
  <2>2. position' \in 0..l /\ ahead' \in 0..l - position'
    <3>1. at.position \in Nat /\ at.ahead \in Nat /\ at.position <= l /\ at.ahead <= l - at.position
      BY <1>7 DEF IsAt
    <3> HIDE DEF l
    <3> QED
      BY <1>5, <2>1, <3>1
  <2>3. FilesType'
    BY <1>1, <1>7, <2>2 DEF FilesType
  <2>4. Holds(F)'
    BY <1>1, <1>6, <1>7, <2>1 DEF Holds
  <2>5. (eof => position = Len(file))'
    BY <1>1, <1>7, <2>1
  <2> QED
    BY <1>1, <2>3, <2>4, <2>5 DEF FileInv
<1>8. CASE got.type = "EOF"
  <2>1. eof' = TRUE /\ chunk' = <<>> /\ MoveTo(got.at) /\ records' = records
    BY <1>4, <1>8
  <2>2. p = l /\ got.at.position = l
    <3>1. \A f \in F : f.type \in FragmentTypes
      BY <1>5, <1>6, PiecesAre
    <3>2. \A f \in F : f.type # got.type
      BY <1>8, <3>1 DEF FragmentTypes
    <3> QED
      BY <1>3, <1>8, <3>2 DEF Found
  <2>3. \A g \in F : g.at < EndOf(g) /\ EndOf(g) <= l /\ g.at \in Nat /\ EndOf(g) \in Nat
    BY <1>5, <1>6, PiecesAre
  <2>4. \A g \in F : g.at # l
    <3> HIDE DEF l
    <3> QED
      BY <1>5, <2>3
  <2>5. Seen(F, content, damaged, blanked, l, chunk', records')
    <3>1. Kept(F, content, damaged, l, <<>>) /\ Started(F, content, l, <<>>)
      BY <2>4 DEF Kept, Started
    <3> QED
      BY <1>6, <2>1, <2>2, <3>1 DEF Seen
  <2> QED
    BY <1>3, <1>5, <1>7, <2>1, <2>2, <2>5
<1>9. CASE got.type \in {"NONE", "INVALID"}
  <2> DEFINE to == Skipped(got.at)
  <2>1. /\ MoveTo(to) /\ chunk' = AfterSkip(got.type)
        /\ eof' = (to.position % BlockSize # 0) /\ records' = records
    BY <1>4, <1>9
  <2>2. \A f \in F : f.type \in FragmentTypes
    BY <1>5, <1>6, PiecesAre
  <2>3. /\ p < l /\ p <= got.at.position /\ got.at.position <= Bound(p)
        /\ got.at.position = p => p % BlockSize # 0
        /\ \A f \in F : f.at = p => Block(p) \in damaged /\ (got.type = "NONE" => blanked)
    BY <1>3, <1>9, <2>2 DEF Found, FragmentTypes
  <2>4. Bound(p) <= l /\ Bound(p) \in Nat
    BY <1>5, <2>3, SameBlock, BoundIs
  <2>5. IsAt(to) /\ to.position = Bound(p)
    <3> HIDE DEF p, l
    <3> QED
      BY <1>3, <1>5, <2>3, <2>4, SkippedIs DEF l
  <2>6. eof' = FALSE
    <3>1. Bound(p) % BlockSize = 0
      BY <1>5, BoundOfMultiple
    <3> HIDE DEF to
    <3> QED
      BY <2>1, <2>5, <3>1
  <2>7. chunk' = <<>> \/ (chunk' = chunk /\ (blanked \/ \A f \in F : f.at # p))
    BY <1>9, <2>1, <2>3 DEF AfterSkip
  <2>8. (\E f \in F : f.at = p) \/ Gap(F, file, p)
    <3>1. p \in 0..l - 1
      <4> HIDE DEF l, p
      <4> QED
        BY <1>5, <2>3
    <3>2. Stop(F, p)
      BY <1>6 DEF Seen
    <3> QED
      BY <1>6, <3>1, <3>2 DEF Gaps
  <2>9. Seen(F, content, damaged, blanked, Bound(p), chunk', records)
    <3> HIDE DEF p, l
    <3> QED
      BY <1>5, <1>6, <2>3, <2>7, <2>8, RestSkipped
  <2>10. records' \in Seq(Data) /\ (chunk' = <<>> \/ \E d \in Data : chunk' = <<d>>)
    BY <1>5, <2>1, <2>7
  <2> HIDE DEF to
  <2> QED
    BY <1>7, <2>1, <2>5, <2>6, <2>9, <2>10
<1>10. CASE got.type \in {"FULL", "FIRST", "MIDDLE", "LAST"}
  <2>1. PICK f \in F : /\ f.at = p /\ got.type = f.type /\ got.data = DataOf(f, content)
                       /\ got.at.position = EndOf(f)
    BY <1>3, <1>10 DEF Found
  <2>2. MoveTo(got.at) /\ eof' = eof
    BY <1>4, <1>10
  <2> DEFINE D == DataOf(f, content)
  <2>3. \/ f.type = "FULL" /\ records' = Append(records, D) /\ chunk' = <<>>
        \/ f.type = "FIRST" /\ chunk' = <<D>> /\ records' = records
        \/ /\ f.type = "MIDDLE" /\ records' = records
           /\ chunk' = IF chunk = <<>> THEN <<>> ELSE <<chunk[1] \o D>>
        \/ /\ f.type = "LAST" /\ chunk' = <<>>
           /\ records' = IF chunk = <<>> THEN records ELSE Append(records, chunk[1] \o D)
    <3> HIDE DEF D
    <3>1. got.data = D
      BY <2>1 DEF D
    <3> QED
      BY <1>4, <1>10, <2>1, <3>1
  <2>4. Seen(F, content, damaged, blanked, f.at, chunk, records)
    BY <1>6, <2>1
  <2>5. /\ Seen(F, content, damaged, blanked, EndOf(f), chunk', records')
        /\ records' \in Seq(Data) /\ (chunk' = <<>> \/ \E d \in Data : chunk' = <<d>>)
    <3> DEFINE k == chunk'
               r == records'
    <3>1. Reads(f, content, chunk, records, k, r)
      BY <2>3, Zenon DEF Reads
    <3> HIDE DEF l, k, r
    <3>2. /\ Seen(F, content, damaged, blanked, EndOf(f), k, r)
          /\ r \in Seq(Data) /\ (k = <<>> \/ \E d \in Data : k = <<d>>)
      BY <1>5, <1>6, <2>4, <3>1, FragmentRead
    <3> QED
      BY <3>2 DEF k, r
  <2>6. eof' = FALSE /\ eof' \in BOOLEAN
    BY <1>1, <2>2 DEF FilesType
  <2>7. Seen(F, content, damaged, blanked, got.at.position, chunk', records')
    BY <2>1, <2>5
  <2> QED
    BY <1>3, <1>7, <2>2, <2>5, <2>6, <2>7
<1> QED
  BY <1>4, <1>8, <1>9, <1>10

(* Every step keeps the invariant. *)
LEMMA FileStep ==
  ASSUME FileInv, [FileNext]_fileVars
  PROVE  FileInv'
<1>1. CASE UNCHANGED fileVars
  <2>1. /\ exclusive' = exclusive /\ file' = file /\ buffers' = buffers
        /\ lengths' = lengths /\ content' = content /\ position' = position
        /\ ahead' = ahead /\ chunk' = chunk /\ records' = records /\ eof' = eof
        /\ reading' = reading /\ damaged' = damaged /\ blanked' = blanked /\ mishaps' = mishaps
    BY <1>1 DEF fileVars, writeVars, scanVars
  <2>2. PICK F : Holds(F)
    BY DEF FileInv
  <2>3. FilesType' /\ NotRead' = NotRead
    BY <2>1 DEF FileInv, FilesType, NotRead
  <2>4. Holds(F)'
    BY <2>1, <2>2 DEF Holds
  <2> QED
    BY <2>1, <2>3, <2>4 DEF FileInv
<1>2. ASSUME NEW w \in (IF exclusive THEN {1} ELSE Writers),
             (\E n \in Lengths : AppendRecord(w, n)) \/ FlushPool(w)
      PROVE  FileInv'
  <2>1. w \in Writers
    BY RecordFilesAssumption DEF Writers
  <2> QED
    BY <1>2, <2>1, RecordAppended, PoolFlushed
<1>3. CASE Finalize
  BY <1>3, FileFinalized
<1>4. ASSUME NEW q \in DOMAIN file, Damage(q) PROVE FileInv'
  BY <1>4, FileDamaged
<1>5. CASE ReadFragment
  BY <1>5, FragmentStep
<1>6. CASE Resume
  BY <1>6, ReaderResumed
<1> QED
  BY <1>1, <1>2, <1>3, <1>4, <1>5, <1>6 DEF FileNext

(* The file is laid out as its content says: a sequence of pieces that are *)
(* the fragments of the records in their order, with nothing but zeros and *)
(* damaged bytes between them; and the reader stands at the end of a piece *)
(* or of a block, with what it has returned and kept (records.py).         *)
THEOREM FileInvariance == FileSpec => []FileInv
<1>1. FileInit => FileInv
  BY FileInitHolds
<1>2. FileInv /\ [FileNext]_fileVars => FileInv'
  BY FileStep
<1> QED
  BY <1>1, <1>2, PTL DEF FileSpec

(* A record that the reader returned was written in its place. *)
LEMMA WhatIsRead ==
  ASSUME FileInv
  PROVE  ReadIsWritten
<1>1. PICK F : Holds(F)
  BY DEF FileInv
<1>2. /\ content \in Seq(Content) /\ records \in Seq(Data) /\ file \in Seq(Byte)
      /\ Len(file) \in Nat
  BY LenProperties DEF FileInv, FilesType
<1>3. /\ Layout(F, Len(file), content, "closed", 0)
      /\ Ordered(F, content, blanked, position, records)
      /\ Returned(F, content, damaged, position, records)
  BY <1>1 DEF Holds, Seen
<1>4. ASSUME ~blanked
      PROVE  \E where \in [DOMAIN records -> DOMAIN content] :
               /\ \A i \in DOMAIN records : records[i] = Contents[where[i]]
               /\ \A i, j \in DOMAIN records : i < j => where[i] < where[j]
  <2>1. PICK where \in [DOMAIN records -> DOMAIN content] :
          InOrderOf(F, content, blanked, position, records, where)
    BY <1>3 DEF Ordered
  <2>2. \A i \in DOMAIN records : where[i] \in DOMAIN content
    OBVIOUS
  <2>3. \A i \in DOMAIN content : Contents[i] = content[i].data
    BY DEF Contents
  <2> QED
    BY <1>4, <2>1, <2>2, <2>3 DEF InOrderOf
<1>5. ASSUME eof, NEW i \in DOMAIN content, content[i].blocks \cap damaged = {}
      PROVE  \E j \in DOMAIN records : records[j] = content[i].data
  <2>1. i \in 1..Len(content)
    BY <1>2, LenProperties
  <2>2. PICK f \in F : f.rec = i /\ Ending(f)
    BY <1>3, <2>1 DEF Layout, Linked
  <2>3. f.at < position
    <3>1. f.at \in Nat /\ EndOf(f) \in Nat /\ f.at < EndOf(f) /\ EndOf(f) <= Len(file)
      BY <1>2, <1>3, PiecesAre
    <3>2. position = Len(file)
      BY <1>5 DEF FileInv
    <3> QED
      BY <1>2, <3>1, <3>2
  <2> QED
    BY <1>3, <1>5, <2>2, <2>3 DEF Returned
<1> QED
  BY <1>4, <1>5 DEF ReadIsWritten

(* The reader of a record file returns records that were written, in their *)
(* order and each once, whatever the appends of several pools, repeated    *)
(* appends, damaged bytes and the ends of slices; at the end of the file   *)
(* it has returned every record without a fragment in a damaged block      *)
(* (RecordsReader.read, RecordsWriter.write, RecordsPool.flush).           *)
THEOREM RecordsAreWritten == FileSpec => []ReadIsWritten
<1>1. FileInv => ReadIsWritten
  BY WhatIsRead
<1> QED
  BY <1>1, FileInvariance, PTL

(* Rising places are not fewer than the numbers they have. *)
LEMMA RisingIs ==
  ASSUME NEW n \in Nat, NEW m \in Nat, NEW where \in [1..n -> 1..m],
         \A i, j \in 1..n : i < j => where[i] < where[j]
  PROVE  n <= m
<1> DEFINE T == {i \in 0..n : i = 0 \/ where[i] >= i}
<1>1. 0 \in T
  OBVIOUS
<1>2. ASSUME NEW i \in Nat, i < n, i \in T PROVE i + 1 \in T
  <2>1. i + 1 \in 1..n /\ i + 1 \in 0..n /\ where[i + 1] \in 1..m
    BY <1>2
  <2>2. CASE i = 0
    BY <2>1, <2>2
  <2>3. CASE i # 0
    <3>1. i \in 1..n /\ i < i + 1
      BY <1>2, <2>3
    <3>2. where[i] < where[i + 1] /\ where[i] \in 1..m /\ where[i] >= i
      BY <1>2, <2>1, <2>3, <3>1
    <3>3. where[i + 1] >= i + 1
      BY <2>1, <3>2, <1>2
    <3> QED
      BY <2>1, <3>3
  <2> QED
    BY <2>2, <2>3
<1> HIDE DEF T
<1>3. n \in T
  <2>1. \A i \in 0..n : i \in T
    BY <1>1, <1>2, CountUp
  <2> QED
    BY <2>1
<1>4. n = 0 \/ (n \in 1..n /\ where[n] >= n)
  BY <1>3 DEF T
<1> QED
  BY <1>4

(* The types that the runs check. *)
LEMMA FilesAreTyped ==
  ASSUME FileInv
  PROVE  FilesTypeOK
<1>1. PICK F : Holds(F)
  BY DEF FileInv
<1>2. FilesType
  BY DEF FileInv
<1>3. Len(chunk) <= 1
  <2>1. chunk = <<>> \/ \E d \in Data : chunk = <<d>>
    BY <1>2 DEF FilesType
  <2>2. CASE chunk = <<>>
    BY <2>2
  <2>3. ASSUME NEW d \in Data, chunk = <<d>> PROVE Len(chunk) <= 1
    <3>1. Len(chunk) = 1
      BY <2>3
    <3> QED
      BY <3>1
  <2> QED
    BY <2>1, <2>2, <2>3
<1>4. Len(records) <= Len(content)
  <2>1. /\ Len(records) \in Nat /\ Len(content) \in Nat
        /\ DOMAIN records = 1..Len(records) /\ DOMAIN content = 1..Len(content)
    BY <1>2, LenProperties DEF FilesType
  <2>2. PICK where \in [DOMAIN records -> DOMAIN content] :
          InOrderOf(F, content, blanked, position, records, where)
    BY <1>1 DEF Holds, Seen, Ordered
  <2>3. \A i, j \in DOMAIN records : i < j => where[i] < where[j]
    BY <2>2 DEF InOrderOf
  <2> QED
    BY <2>1, <2>2, <2>3, RisingIs
<1> QED
  BY <1>2, <1>3, <1>4 DEF FilesType, FilesTypeOK

(* The variables of RecordFiles have their types: the reader is within the *)
(* file, which consists of whole blocks, and has returned no more records  *)
(* than were written.                                                      *)
THEOREM FilesTypeCorrect == FileSpec => []FilesTypeOK
<1>1. FileInv => FilesTypeOK
  BY FilesAreTyped
<1> QED
  BY <1>1, FileInvariance, PTL
=============================================================================
