\* One document with two records: crashes, failures, sweeps and migration;
\* and two documents, with tables of one of them put back once.
SPECIFICATION MCSpec
CONSTANTS
  d1 = d1  d2 = d2  d3 = d3  a1 = a1  a2 = a2  v1 = v1  v2 = v2
  Docs = {d1, d2, d3}
  Addrs = {a1, a2}
  Values = {v1, v2}
  Deadlines = {1, 2}
  Never = Never
  NoRecord = NoRecord
  Absent = Absent
  MaxTime = 2
  Exhausted = 4
  Rollbacks = 1
  Restorable = {d2, d3}
SYMMETRY Swapped
INVARIANTS
  StoreStaysReadable
PROPERTIES
  CertifiedStateAdvances
  Promise
