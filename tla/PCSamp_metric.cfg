CONSTANTS
  t1 = t1  t2 = t2
  Threads <- MCThreads
  Rates = {50, 200}
  Blobs <- MCBlobs
  Subextents <- MCSubextents
SPECIFICATION Spec
INVARIANT TimeConserved
