SPECIFICATION Spec
CONSTANTS
  s1 = s1
  s2 = s2
  s3 = s3
  layer = layer
  base = base
  q1 = q1
  q2 = q2
  q3 = q3
  Session = {s1, s2}
  Digest = {layer}
  Request = {q1, q2, q3}
  DigestOf <- Uploads
  SizeOf <- TwoChunks
  Monolithic = {}
  Hangups = {}
SYMMETRY AnyRequest
INVARIANTS
  ListedBlobsWhole
