\* An update in flight while the parcel is deleted.
SPECIFICATION Spec
CONSTANTS
    None = None
    ParcelIds = {l1}
    Files = {f1}
    MaxImages = 2
    Shapes = {g1, g2}
    Names = {n1}
    Bodies <- FewBodies
    Handlers = {h1, h2}
    Faults = {}
PROPERTIES
    DeletionIsFinal
