\* Two boot options, one of which the library may have to add; every service may fail,
\* a reset may keep the variables or lose them, and a failing ASSERT stop the boot or
\* not.
SPECIFICATION Spec
CONSTANTS
    Numbers = {b0, b1}
    NoNumber = NoNumber
    MayFail = {"event", "create", "add", "remove", "build", "policy", "delete", "indications", "buttons", "clear"}
    VariablesKept = {TRUE, FALSE}
    Builds = {"debug", "release"}
INVARIANTS FrontPageUnlocked PressActedOnce ShellRegistered
PROPERTIES SequenceSealed
