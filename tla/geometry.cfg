\* Every kind of file against a second request for the shapefile parser.
SPECIFICATION Spec
CONSTANTS
    None = None
    h1 = h1
    h2 = h2
    a = a
    b = b
    c = c
    Handlers = {h1, h2}
    Coordinates <- MCCoordinates
    Uploads <- MCUploads
    Faults = {"import", "crash"}
INVARIANTS
    GeometryTypeOK
    PartsPreserved
    PlacemarksKept
    ArchiveReadsLikeDocument
    OneParserPerProcess
PROPERTIES
    EveryFileAnswered
