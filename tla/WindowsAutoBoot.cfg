CONSTANTS
  Volumes = {v1, v2, usb}
  Internal = {v1, v2}
  WithLoader = {v1, v2, usb}
  Mountable = {v1, v2, usb}
  None = None
  MaxInstalls = 2
SPECIFICATION FairSpec
INVARIANTS FlagTracksLoader NoneOverlooked AttemptsBounded
PROPERTY BdsResumes
CHECK_DEADLOCK FALSE
