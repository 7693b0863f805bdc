\* Three slots of room and blocks of up to three frames: copies that wrap
\* after one frame and after two, a full ring, and a block cut short.
CONSTANTS
  Capacity = 3
  Silence = silence
  Frame = {silence, a}
  MaxBlock = 3
SPECIFICATION Spec
INVARIANT NoSharedSlot
PROPERTY ImplementsQueue
