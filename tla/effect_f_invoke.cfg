SPECIFICATION Spec
CONSTANTS
  First = First
  Again = Again
  Rival = Rival
  Blind = Blind
  Post = Post
  Invoke = Invoke
  Trigger = Trigger
  Seats = Seats
  Notes = Notes
  K1 = K1
  K2 = K2
  T1 = T1
  T2 = T2
  NoTag = NoTag
  Requests = {First, Again, Rival, Blind}
  Calls = {Post, Invoke}
  Invokes = {Invoke}
  Invocations = {Trigger}
  Slices = {Seats, Notes}
  Tags = {K1, K2, T1, T2}
  Reads <- MCReads
  Writes <- MCWrites
  Emits <- MCEmits
  Cap <- MCCap
  Full <- MCFull
  Key <- MCKey
  Script <- MCScript
  MaxAttempts = 2
  MaxSends = 2
  MaxFaults = 1
CHECK_DEADLOCK FALSE
INVARIANT
  InvokeRecovers
