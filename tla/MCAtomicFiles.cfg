\* Two writers and a reader of a workspace, a workflow's session and a linked run.
CONSTANTS
  None = None
  Writers = {w1, w2}
  Readers = {r}
  Replaced = {workspace}
  Guarded = {session}
  Linked = {run}
  Documents = {d1, d2}
  Inodes = {i1, i2, i3}
SPECIFICATION Spec
SYMMETRY Alike
INVARIANTS ReadWhole SavedIsThere
PROPERTY ImplementsRegister
