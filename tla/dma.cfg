SPECIFICATION Spec
CONSTANTS
  Places = 2
  Tags = {0, 1}
  Masks = {1, 3}
  Addresses = {0}
  MaxCalls = 3
  MaxAdds = 2
INVARIANTS TypeOK WaitedIsDone AsIfInOrder 
