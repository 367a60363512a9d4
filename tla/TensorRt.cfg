\* Three calls of the worker, in any order and with any failures.
SPECIFICATION Spec
CONSTANTS
  vision = vision
  voice = voice
  depth = depth
  probe = probe
  shared = shared
  small = small
  blind = blind
  image = image
  boxes = boxes
  scores = scores
  Task <- MCTask
  Path <- MCPath
  EnginePath <- MCEnginePath
  Name <- MCName
  InputName <- MCInputName
  IoTensors <- MCIoTensors
  MaxCalls = 3
INVARIANTS
  TypeOK
  ResultIsOfFrame
  BoundToBuffers
  RejectedNeverExecuted
\* The calls are bounded.
CHECK_DEADLOCK FALSE
