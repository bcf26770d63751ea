SPECIFICATION Spec
CONSTANTS
    Connectors = {connect}
    Others = {other}
    Services = {wifi, ethernet}
    Dead = Dead
    Stranger = Stranger
    None = None
    Faults = {"kill", "error", "skip", "mismatch"}
SYMMETRY ServiceSymmetry
INVARIANTS
    Recoverable
    SnapshotIsTheUsers
PROPERTY
    LaunchRepairs
