SPECIFICATION Spec
CONSTANTS
    Absent = Absent
    ConvertError = ConvertError
    Down = Down
    NodeId = 1
    OtherNode = 2
    Users = {u1, u2}
    OtherUsers = {u3}
    Src = "dev"
    NewEnv = "prod"
    Old = old
    New = new
    Others = others
    Invocations <- MCInvocations
    MaxRuns = 2
    MaxDraws = 2
    MaxFaults = 1
SYMMETRY Symmetry
INVARIANTS TypeOK KeyKept RotatedIsReadable RunsAgain
