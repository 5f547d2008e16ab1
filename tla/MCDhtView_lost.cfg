SPECIFICATION Spec
CONSTANTS
  m1 = m1 o1 = o1 t1 = t1 t2 = t2 d1 = d1 d2 = d2
  a1 = a1 a2 = a2 a3 = a3 a4 = a4 e1 = e1 e2 = e2 None = None
  Links = {m1, o1} Own = {m1}
  Types = {t1, t2} TypeOf <- TwoTypes
  Actions = {a1, a2, a3, a4} Mine = {a1} Entries = {e1, e2} EntryOf <- TwoEntries
  MaxLinkKeys = 2 MaxRecords = 2
  Dnas = {d1} DnaOf <- OneDna
  Formats = {"links"} Zomes = {"links"}
  Callers = {"zome", "nested"}
  MaxCalls = 2 MaxWrites = 2 MaxRestarts = 0
\* Callers = {"zome", "post"} violates it, too.
INVARIANT CommittedDeletesHidden
CHECK_DEADLOCK FALSE
