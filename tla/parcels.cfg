\* One parcel, two uploads, two requests in flight.
SPECIFICATION Spec
CONSTANTS
    None = None
    ParcelIds = {l1}
    Files = {f1, f2}
    MaxImages = 2
    Shapes = {g1, g2}
    Names = {n1}
    Bodies <- FewBodies
    Handlers = {h1, h2}
    Faults = {"save", "crash"}
SYMMETRY Interchangeable
INVARIANTS
    ParcelsTypeOK
    MeasuresFitGeometry
    ImagesOnDisk
PROPERTIES
    PartialUpdates
    ImagesLeaveWithFiles
    GeometryFollowsFile
