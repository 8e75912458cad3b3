\* The images of the platforms, in debug and release builds, with the ECAM range
\* added by another driver or not.
CONSTANTS Images <- AllImages
SPECIFICATION Spec
INVARIANTS NoSectionSkipped PoolsBalanced DeviceFadtPrevails
CHECK_DEADLOCK FALSE
