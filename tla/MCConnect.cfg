SPECIFICATION Spec
CONSTANTS
    Texts = {"t"}
    Hosts <- MCHosts
    Commands = {"up", "remove", "rotate"}
    MaxKeys = 2
    MaxStops = 1
    MaxEdits = 1
INVARIANTS
    ConnectTypeOK
    FilesComeBack
    GatewayCanStart
    NoKeyIsLost
PROPERTIES
    RemoveFinishes
    UpFinishes
