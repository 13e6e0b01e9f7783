CONSTANTS
    a = a
    b = b
    x = x
    Stranger = Stranger
    Nodes = {a, b}
    Conns = {x}
    Routes <- AllRoutes
    Streams <- StrangeStreams
    Request <- Asked
    Responses <- Answers
    MaxBinds <- Binds
    HeaderBytes = 2
    ByteValues = 2
    MaxPayload = 2
SPECIFICATION Spec
CHECK_DEADLOCK FALSE
INVARIANTS
    Sound
    NothingLeftBehind
PROPERTIES
    QuietAfterClose
    EverythingSettles
