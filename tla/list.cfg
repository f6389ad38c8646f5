SPECIFICATION Spec
CONSTANTS
  Entries = {a, b}
  Nodes = {1, 2, 3, 4}
  Client = "fresh"
INVARIANTS ListIsOrder CursorInOrder ListInv
