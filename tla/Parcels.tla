------------------------------- MODULE Parcels -------------------------------
(***************************************************************************)
(* ParcelsService with the uploads of ParcelsController: the table parcels *)
(* and the files of uploads/parcels it names.                              *)
(*                                                                         *)
(* multer stores the uploads before the handler runs.  update and          *)
(* softDelete read the whole row, change the entity and save it; save is a *)
(* SELECT, to find the columns that differ, and an UPDATE of those.  The   *)
(* files of replaced images are unlinked in the background.                *)
(*                                                                         *)
(* name stands for the scalar columns, measures for area and perimeter: it *)
(* is the shape they were computed from.  GeometryFiles says what shape a  *)
(* file holds; here it is any.  Authentication is AuthService's.           *)
(***************************************************************************)
EXTENDS Naturals, FiniteSets

CONSTANTS
    ParcelIds,
    Files,     \* file names; Date.now() makes them distinct
    MaxImages, \* images in one request; the controller takes five
    Shapes,
    Names,
    Bodies,    \* what clients send besides files
    Handlers,  \* slots of requests in flight
    Faults,    \* what may go wrong
    None

ASSUME AbsentAssumption == None \notin Names \cup Shapes \cup Files \cup ParcelIds
ASSUME MaxImagesAssumption == MaxImages \in Nat
ASSUME ParcelFaultsAssumption == Faults \subseteq {"save", "crash"}

VARIABLES
    parcels,    \* the rows of the table parcels
    stored,     \* the ids that have a row
    disk,       \* the files of uploads/parcels
    used,       \* file names given out
    doomed,     \* files about to be unlinked
    req,        \* the request in each slot
    overlapped, \* history: rows saved by a request that had not read the latest
    drawn,      \* history: the shape that was found in a file
    torn        \* history: rows whose save did not happen after their images
                \* were doomed

vars == <<parcels, stored, disk, used, doomed, req, overlapped, drawn, torn>>

NoRow == [name |-> None, geometry |-> None, measures |-> None, imageUrls |-> {},
          shapefileUrl |-> None, deleted |-> FALSE]
Columns == DOMAIN NoRow

Row == [name: Names \cup {None}, geometry: Shapes \cup {None},
        measures: Shapes \cup {None}, imageUrls: SUBSET Files,
        shapefileUrl: Files \cup {None}, deleted: BOOLEAN]
Dto == [name: Names \cup {None}, geometry: Shapes \cup {None},
        deleteOldImage: {"absent", "false", "true"}]
Upload == [images: SUBSET Files, shapefile: Files \cup {None}]

ASSUME BodiesAssumption == Bodies \subseteq Dto

Request == [at: {"idle", "create", "update", "diff", "write"},
            kind: {"none", "create", "update", "delete"},
            p: ParcelIds \cup {None}, dto: Dto, up: Upload, row: Row,
            cols: SUBSET Columns, fresh: BOOLEAN]

\* Rows, requests and files are well formed; a stored parcel has the columns
\* the table requires, name and geometry.
ParcelsTypeOK ==
    /\ parcels \in [ParcelIds -> Row]
    /\ stored \subseteq ParcelIds
    /\ \A p \in stored : parcels[p].name # None /\ parcels[p].geometry # None
    /\ disk \subseteq used /\ used \subseteq Files /\ doomed \subseteq used
    /\ req \in [Handlers -> Request]
    /\ drawn \in [Files -> Shapes \cup {None}]
    /\ overlapped \subseteq stored /\ torn \subseteq stored

NoDto == [name |-> None, geometry |-> None, deleteOldImage |-> "absent"]
NoUpload == [images |-> {}, shapefile |-> None]
Blank == [at |-> "idle", kind |-> "none", p |-> None, dto |-> NoDto,
          up |-> NoUpload, row |-> NoRow, cols |-> {}, fresh |-> TRUE]

Enter(h, r) == req' = [req EXCEPT ![h] = r]

-----------------------------------------------------------------------------
(* Uploads *)

FilesOf(up) == up.images \cup ({up.shapefile} \ {None})

\* What FileFieldsInterceptor lets through, under names not given out before.
Uploads ==
    {up \in Upload : /\ FilesOf(up) \subseteq Files \ used
                     /\ Cardinality(up.images) <= MaxImages
                     /\ up.shapefile \notin up.images}

\* The files of a request are on disk before its handler starts.
StoreFiles(up) ==
    /\ disk' = disk \cup FilesOf(up)
    /\ used' = used \cup FilesOf(up)

Receive(h, r) ==
    /\ req[h].at = "idle"
    /\ StoreFiles(r.up)
    /\ Enter(h, r)

\* A body that is not valid or an id that does not exist: the uploads stay.
Misdirected ==
    /\ \E up \in Uploads : StoreFiles(up)
    /\ UNCHANGED <<parcels, stored, doomed, req, overlapped, drawn, torn>>

\* Mutation: nobody asks for a geometry.
ParsedIfAny(r) == IF r.dto.geometry # None THEN {r.dto.geometry}
                  ELSE IF r.up.shapefile # None THEN Shapes ELSE {None}

\* The shapes a request may end up with: the one in its body, or whatever its
\* file holds.
Parsed(r) == IF r.dto.geometry # None THEN {r.dto.geometry}
             ELSE IF r.up.shapefile # None THEN Shapes ELSE {}

\* parseGeometryFile runs only when the body brings no geometry.
ReadsFile(r) == r.dto.geometry = None /\ r.up.shapefile # None

\* The file of the request, if it is parsed, turns out to hold the shape.
Learn(r, shape) ==
    drawn' = IF ReadsFile(r) THEN [drawn EXCEPT ![r.up.shapefile] = shape] ELSE drawn

-----------------------------------------------------------------------------
(* create *)

\* CreateParcelDto has no deleteOldImage.
Create(h) ==
    /\ stored # ParcelIds   \* bound
    /\ \E dto \in Bodies, up \in Uploads :
        /\ dto.name # None /\ dto.deleteOldImage = "absent"
        /\ Receive(h, [Blank EXCEPT !.at = "create", !.kind = "create",
                                    !.dto = dto, !.up = up])
    /\ UNCHANGED <<parcels, stored, doomed, overlapped, drawn, torn>>

NewRow(r, shape) ==
    [name |-> r.dto.name, geometry |-> shape, measures |-> shape,
     imageUrls |-> r.up.images, shapefileUrl |-> r.up.shapefile, deleted |-> FALSE]

Insert(h) ==
    LET r == req[h] IN
    /\ r.at = "create"
    /\ \E p \in ParcelIds \ stored, shape \in Parsed(r) :
        /\ parcels' = [parcels EXCEPT ![p] = NewRow(r, shape)]
        /\ stored' = stored \cup {p}
        /\ Learn(r, shape)
    /\ Enter(h, Blank)
    /\ UNCHANGED <<disk, used, doomed, overlapped, torn>>

\* There is no geometry, it is invalid, or the file cannot be parsed.  The
\* uploads stay.
Refuse(h) ==
    LET r == req[h] IN
    /\ r.at = "create" \/ (r.at = "update" /\ Parsed(r) # {})
    /\ Enter(h, Blank)
    /\ UNCHANGED <<parcels, stored, disk, used, doomed, overlapped, drawn, torn>>

-----------------------------------------------------------------------------
(* update and softDelete *)

\* update up to its SELECT, which does not exclude deleted parcels
Update(h) ==
    /\ \E p \in stored, dto \in Bodies, up \in Uploads :
        Receive(h, [Blank EXCEPT !.at = "update", !.kind = "update", !.p = p,
                         !.dto = dto, !.up = up, !.row = parcels[p]])
    /\ UNCHANGED <<parcels, stored, doomed, overlapped, drawn, torn>>

\* Boolean(value) of a form field: every string that is not empty is true.
Coerced(flag) == flag # "absent"

Replaces(r) == r.kind = "update" /\ r.up.images # {} /\ Coerced(r.dto.deleteOldImage)

\* Mutations: the old files go whenever there are new images; the entity has
\* the new images by the time the old are to be unlinked.
UnlinkedOnAppend(r) == IF r.up.images # {} THEN r.row.imageUrls ELSE {}
UnlinkedTooLate(r) == IF Replaces(r) THEN r.up.images ELSE {}

ToUnlink(r) == IF Replaces(r) THEN r.row.imageUrls ELSE {}

\* Mutations: the measures are those of the old shape; the entity is built
\* anew and misses deletedAt; the file is recorded though the body brings the
\* geometry.
EditedUnmeasured(r, shape) ==
    [r.row EXCEPT
        !.name = IF r.dto.name # None THEN r.dto.name ELSE @,
        !.geometry = IF Parsed(r) # {} THEN shape ELSE @,
        !.imageUrls = r.up.images \cup (IF Replaces(r) THEN {} ELSE @)]
EditedAnew(r, shape) ==
    [r.row EXCEPT
        !.name = IF r.dto.name # None THEN r.dto.name ELSE @,
        !.geometry = IF Parsed(r) # {} THEN shape ELSE @,
        !.measures = IF Parsed(r) # {} THEN shape ELSE @,
        !.imageUrls = r.up.images \cup (IF Replaces(r) THEN {} ELSE @),
        !.deleted = FALSE]
EditedAnyFile(r, shape) ==
    [r.row EXCEPT
        !.geometry = IF Parsed(r) # {} THEN shape ELSE @,
        !.measures = IF Parsed(r) # {} THEN shape ELSE @,
        !.shapefileUrl = IF r.up.shapefile # None THEN r.up.shapefile ELSE @,
        !.imageUrls = r.up.images \cup (IF Replaces(r) THEN {} ELSE @)]

\* The entity with the changes of the request.
Edited(r, shape) ==
    [r.row EXCEPT
        !.name = IF r.dto.name # None THEN r.dto.name ELSE @,
        !.geometry = IF Parsed(r) # {} THEN shape ELSE @,
        !.measures = IF Parsed(r) # {} THEN shape ELSE @,
        !.shapefileUrl = IF ReadsFile(r) THEN r.up.shapefile ELSE @,
        !.imageUrls = r.up.images \cup (IF Replaces(r) THEN {} ELSE @)]

\* The unlinking starts before the save does and is not awaited.
Apply(h) ==
    LET r == req[h] IN
    /\ r.at = "update"
    /\ \E shape \in IF Parsed(r) = {} THEN {None} ELSE Parsed(r) :
        /\ Enter(h, [r EXCEPT !.at = "diff", !.row = Edited(r, shape)])
        /\ Learn(r, shape)
    /\ doomed' = doomed \cup ToUnlink(r)
    /\ UNCHANGED <<parcels, stored, disk, used, overlapped, torn>>

Unlink(f) ==
    /\ f \in doomed
    /\ disk' = disk \ {f}
    /\ doomed' = doomed \ {f}
    /\ UNCHANGED <<parcels, stored, used, req, overlapped, drawn, torn>>

SoftDelete(h) ==
    /\ req[h].at = "idle"
    /\ \E p \in stored :
        /\ ~ parcels[p].deleted
        /\ Enter(h, [Blank EXCEPT !.at = "diff", !.kind = "delete", !.p = p,
                                  !.row = [parcels[p] EXCEPT !.deleted = TRUE]])
    /\ UNCHANGED <<parcels, stored, disk, used, doomed, overlapped, drawn, torn>>

\* What the client asked to change.
Asked(r) ==
    IF r.kind = "delete" THEN {"deleted"}
    ELSE {c \in Columns :
            \/ c = "name" /\ r.dto.name # None
            \/ c \in {"geometry", "measures"} /\ Parsed(r) # {}
            \/ c = "shapefileUrl" /\ ReadsFile(r)
            \/ c = "imageUrls" /\ r.up.images # {}}

\* The columns TypeORM writes: those that differ.  Areas are numbers in the
\* entity and strings in the table, so new ones always do; whether equal
\* arrays and geometries count as equal is left open.
Differing(r) == {c \in Columns : r.row[c] # parcels[r.p][c]} \cup (Asked(r) \cap {"measures"})

Only(row, cols) == [c \in Columns |-> IF c \in cols THEN row[c] ELSE NoRow[c]]

\* From here on only the columns to be written matter.
SaveDiff(h) ==
    LET r == req[h] IN
    /\ r.at = "diff"
    /\ \E extra \in {{}, {"geometry", "imageUrls"}} :
        LET cols == Differing(r) \cup extra IN
        Enter(h, [r EXCEPT !.at = "write", !.cols = cols, !.row = Only(r.row, cols)])
    /\ UNCHANGED <<parcels, stored, disk, used, doomed, overlapped, drawn, torn>>

Written(r) == [c \in Columns |-> IF c \in r.cols THEN r.row[c] ELSE parcels[r.p][c]]

SaveWrite(h) ==
    LET r == req[h] IN
    /\ r.at = "write"
    /\ parcels' = [parcels EXCEPT ![r.p] = Written(r)]
    /\ req' = [g \in Handlers |->
                IF g = h THEN Blank
                ELSE IF req[g].p = r.p /\ Written(r) # parcels[r.p]
                THEN [req[g] EXCEPT !.fresh = FALSE] ELSE req[g]]
    /\ overlapped' = IF r.fresh \/ Written(r) = parcels[r.p] THEN overlapped
                     ELSE overlapped \cup {r.p}
    /\ UNCHANGED <<stored, disk, used, doomed, drawn, torn>>

-----------------------------------------------------------------------------
(* Failures *)

\* the requests whose old images are doomed and whose save is still to come
Replacing(h) == req[h].at \in {"diff", "write"} /\ Replaces(req[h])

SaveFails(h) ==
    /\ "save" \in Faults
    /\ req[h].at \in {"create", "diff", "write"}
    /\ torn' = IF Replacing(h) THEN torn \cup {req[h].p} ELSE torn
    /\ Enter(h, Blank)
    /\ UNCHANGED <<parcels, stored, disk, used, doomed, overlapped, drawn>>

\* The process dies, and with it its requests and what it was about to unlink.
Crash ==
    /\ "crash" \in Faults
    /\ torn' = torn \cup {req[h].p : h \in {g \in Handlers : Replacing(g)}}
    /\ req' = [h \in Handlers |-> Blank]
    /\ doomed' = {}
    /\ UNCHANGED <<parcels, stored, disk, used, overlapped, drawn>>

-----------------------------------------------------------------------------
(* find *)

\* findAll returns the parcels that are not deleted, findOne refuses the others.
Listed == {p \in stored : ~ parcels[p].deleted}

-----------------------------------------------------------------------------
Init ==
    /\ parcels = [p \in ParcelIds |-> NoRow]
    /\ stored = {}
    /\ disk = {} /\ used = {} /\ doomed = {}
    /\ req = [h \in Handlers |-> Blank]
    /\ drawn = [f \in Files |-> None]
    /\ overlapped = {} /\ torn = {}

\* The routes of ParcelsController that change something, for any session.
Arrive(h) == Create(h) \/ Update(h) \/ SoftDelete(h)

Next ==
    \/ \E h \in Handlers :
        \/ Arrive(h)
        \/ Insert(h) \/ Refuse(h) \/ Apply(h)
        \/ SaveDiff(h) \/ SaveWrite(h) \/ SaveFails(h)
    \/ \E f \in Files : Unlink(f)
    \/ Misdirected
    \/ Crash

Spec == Init /\ [][Next]_vars

-----------------------------------------------------------------------------
(* Properties *)

\* A deleted parcel "will be excluded from normal queries": nothing the service
\* does brings it back.
DeletionIsFinal == [][\A p \in stored \ Listed : p \notin Listed']_vars

\* update "allows partial updates": unless saves of the parcel overlap, a
\* column changes only in the save of a request that asked to change it.  In
\* particular an update neither deletes nor restores.
PartialUpdates ==
    [][\A p \in stored \ overlapped', c \in Columns :
        parcels'[p][c] # parcels[p][c] =>
            \E h \in Handlers : /\ req[h].at = "write" /\ req'[h].at = "idle"
                                /\ req[h].p = p /\ c \in Asked(req[h])]_vars

\* area and perimeter are those of the geometry they are stored with, however
\* the geometry came in, unless saves of the parcel overlap.
MeasuresFitGeometry ==
    \A p \in stored \ overlapped : parcels[p].measures = parcels[p].geometry

\* Every image a parcel names is there to be served and not about to go, except
\* while a request that replaces it is on its way, after such a request failed,
\* and where saves overlap.
ImagesOnDisk ==
    \A p \in stored \ (overlapped \cup torn) :
        (\A h \in Handlers : req[h].p = p => ~ Replacing(h))
            => parcels[p].imageUrls \subseteq disk \ doomed

\* An image leaves a parcel together with its file: unless saves of the parcel
\* overlap, only a request that brings new images and the flag takes any out of
\* the row, and by then their files are gone or about to go, though nobody waits
\* for it.
ImagesLeaveWithFiles ==
    [][\A p \in stored \ overlapped' :
        LET gone == parcels[p].imageUrls \ parcels'[p].imageUrls IN
        gone # {} =>
            /\ gone \cap disk \subseteq doomed
            /\ \E h \in Handlers : /\ req[h].at = "write" /\ req[h].p = p
                                   /\ req[h].up.images # {}
                                   /\ req[h].dto.deleteOldImage # "absent"]_vars

\* A geometry file uploaded to a parcel "replaces geometry": unless saves of the
\* parcel overlap, it names another file only together with the shape in it.
GeometryFollowsFile ==
    [][\A p \in stored \ overlapped' :
        parcels'[p].shapefileUrl # parcels[p].shapefileUrl =>
            parcels'[p].geometry = drawn[parcels'[p].shapefileUrl]]_vars
=============================================================================
