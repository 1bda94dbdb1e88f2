SPECIFICATION Spec
CONSTANTS
  Packages = {a, c}
  NoPackage = NoPackage
  Blobs = {b1, b2}
  Uploads = {u1, u2}
  Deletions = {d1, d2}
  Installs = {i1}
SYMMETRY MCSymmetry
INVARIANTS FilesHaveBlobs BlobsAccountedFor InstallIsWholeOrEmpty
