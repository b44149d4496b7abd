SPECIFICATION Spec
CONSTANTS
  p1 = p1  p2 = p2
  a = a  b = b
  r1 = r1  r2 = r2  r3 = r3
  None = None
  Providers = {p1, p2}
  HasManifest = {p1}
  Files = {a, b}
  Releases = {r1, r2, r3}
  ProviderOf <- MCProviderOf
  Epoch <- MCEpoch
  FilesOf <- MCFilesOf
INVARIANTS NeverMixed NeverPartial NoDowngrade KeepsASet
