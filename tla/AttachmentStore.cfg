SPECIFICATION Spec
CONSTANTS
  Materials = {m1}
  Archives = {a1}
  Hashes = {h1}
  UploadIds = {u1}
  Clients = {c1, c2}
  MaxVersions = 3
  None = None
  m1 = m1
  a1 = a1
  h1 = h1
  u1 = u1
  c1 = c1
  c2 = c2
SYMMETRY Symmetry
INVARIANTS
  OneFinalVersion
  UploadsAreIdempotent
  MissingFilesAreExposed
PROPERTIES
  SealedMaterialsGainNothing
