---------------------------- MODULE ParcelsProofs ----------------------------
(***************************************************************************)
(* Theorems about Parcels for every value of its constants.                *)
(***************************************************************************)
EXTENDS Parcels, TLAPS

-----------------------------------------------------------------------------
(* Type correctness *)

LEMMA ColumnNames ==
    Columns = {"name", "geometry", "measures", "imageUrls", "shapefileUrl", "deleted"}
BY DEF Columns, NoRow

LEMMA NoRowTyped == NoRow \in Row
BY DEF NoRow, Row

\* A row may be put together from the columns of two.
LEMMA MixedRow ==
    ASSUME NEW a \in Row, NEW b \in Row, NEW cols, NEW m, m = [c \in Columns |-> m[c]],
           \A c \in Columns : m[c] = IF c \in cols THEN a[c] ELSE b[c]
    PROVE  m \in Row
<1>1. /\ m["name"] \in Names \cup {None} /\ m["geometry"] \in Shapes \cup {None}
      /\ m["measures"] \in Shapes \cup {None} /\ m["imageUrls"] \in SUBSET Files
      /\ m["shapefileUrl"] \in Files \cup {None} /\ m["deleted"] \in BOOLEAN
  BY ColumnNames DEF Row
<1>2. m = [c \in {"name", "geometry", "measures", "imageUrls", "shapefileUrl", "deleted"} |-> m[c]]
  BY ColumnNames
<1>3. QED
  BY <1>1, <1>2 DEF Row

\* What each stage of a request knows: which parcel it is about, that the row it
\* holds is complete, and that the files it names were given out.
StageInv(r) ==
    /\ r.row.imageUrls \subseteq used /\ r.up.images \subseteq used
    /\ r.up.shapefile \in used \cup {None}
    /\ r.at \in {"idle", "create"} => r.p = None
    /\ r.at \in {"update", "diff", "write"} => r.p \in stored
    /\ r.at = "create" => r.dto.name # None /\ r.kind = "create"
    /\ r.at = "update" => r.kind = "update"
    /\ r.at \in {"update", "diff"} => r.row.name # None /\ r.row.geometry # None
    /\ r.at = "write" => /\ "name" \in r.cols => r.row.name # None
                         /\ "geometry" \in r.cols => r.row.geometry # None

ParcelsInv ==
    /\ ParcelsTypeOK
    /\ \A p \in ParcelIds : parcels[p].imageUrls \subseteq used
    /\ \A h \in Handlers : StageInv(req[h])

LEMMA BlankTyped == Blank \in Request /\ StageInv(Blank)
<1>1. NoDto \in Dto /\ NoUpload \in Upload
  BY DEF NoDto, Dto, NoUpload, Upload
<1>2. Blank \in Request
  BY <1>1, NoRowTyped DEF Blank, Request
<1>3. StageInv(Blank)
  BY DEF Blank, StageInv, NoRow, NoUpload
<1>4. QED
  BY <1>2, <1>3

LEMMA ParcelsInit == Init => ParcelsInv
<1> SUFFICES ASSUME Init PROVE ParcelsInv
  OBVIOUS
<1>1. parcels \in [ParcelIds -> Row] /\ \A p \in ParcelIds : parcels[p].imageUrls = {}
  BY NoRowTyped DEF Init, NoRow
<1>2. req \in [Handlers -> Request] /\ \A h \in Handlers : StageInv(req[h])
  BY BlankTyped DEF Init
<1>3. QED
  BY <1>1, <1>2 DEF Init, ParcelsInv, ParcelsTypeOK

\* What a request knows stays true while files are given out and parcels stored.
LEMMA StageKept ==
    ASSUME NEW r, StageInv(r), used \subseteq used', stored \subseteq stored'
    PROVE  StageInv(r)'
BY DEF StageInv

LEMMA EnterTyped ==
    ASSUME ParcelsInv, NEW h \in Handlers, NEW r \in Request, Enter(h, r), StageInv(r)',
           used \subseteq used', stored \subseteq stored'
    PROVE  req' \in [Handlers -> Request] /\ \A g \in Handlers : StageInv(req[g])'
<1>1. \A g \in Handlers : req'[g] = IF g = h THEN r ELSE req[g]
  BY DEF Enter, ParcelsInv, ParcelsTypeOK
<1>2. \A g \in Handlers : StageInv(req[g])
  BY DEF ParcelsInv
<1>3. ASSUME NEW g \in Handlers PROVE StageInv(req[g])'
  <2>1. CASE g = h
    <3>1. req'[g] = r
      BY <1>1, <2>1
    <3>2. QED
      BY <3>1 DEF StageInv
  <2>2. CASE g # h
    <3>1. req'[g] = req[g]
      BY <1>1, <2>2
    <3>2. StageInv(req[g])
      BY <1>2
    <3>3. QED
      BY <3>1, <3>2 DEF StageInv
  <2>3. QED
    BY <2>1, <2>2
<1>4. QED
  BY <1>3 DEF Enter, ParcelsInv, ParcelsTypeOK

\* A request may always give up.
LEMMA BlankEntered ==
    ASSUME ParcelsInv, NEW h \in Handlers, Enter(h, Blank),
           used \subseteq used', stored \subseteq stored'
    PROVE  req' \in [Handlers -> Request] /\ \A g \in Handlers : StageInv(req[g])'
<1>1. Blank \in Request /\ StageInv(Blank)'
  BY BlankTyped, StageKept
<1>2. QED
  BY <1>1, EnterTyped

\* Uploads are new files, which the request has for itself.
LEMMA UploadsTyped ==
    ASSUME ParcelsTypeOK, NEW up \in Uploads
    PROVE  /\ up \in Upload
           /\ up.images \cap used = {} /\ up.shapefile \notin used
           /\ up.shapefile \in Files \cup {None} /\ up.images \subseteq Files
<1>1. None \notin used
  BY AbsentAssumption DEF ParcelsTypeOK
<1>2. QED
  BY <1>1 DEF Uploads, FilesOf, Upload

LEMMA Stored ==
    ASSUME ParcelsTypeOK, NEW up \in Uploads, StoreFiles(up)
    PROVE  /\ used \subseteq used' /\ used' \subseteq Files
           /\ disk \subseteq disk' /\ disk' \subseteq used'
           /\ up.images \subseteq disk' /\ up.shapefile \in used' \cup {None}
BY UploadsTyped DEF StoreFiles, FilesOf, ParcelsTypeOK

\* A request holds well-formed data.
LEMMA RequestParts ==
    ASSUME NEW r \in Request
    PROVE  /\ r.dto \in Dto /\ r.up \in Upload /\ r.row \in Row /\ r.cols \subseteq Columns
           /\ r.dto.name \in Names \cup {None} /\ r.dto.geometry \in Shapes \cup {None}
           /\ r.up.images \subseteq Files /\ r.up.shapefile \in Files \cup {None}
           /\ Parsed(r) \subseteq Shapes
           /\ r.row.name \in Names \cup {None} /\ r.row.geometry \in Shapes \cup {None}
           /\ r.row.measures \in Shapes \cup {None} /\ r.row.imageUrls \subseteq Files
BY DEF Request, Dto, Upload, Row, Parsed

\* The entity after the changes, column by column.
LEMMA EditedRow ==
    ASSUME NEW r \in Request, NEW shape, Parsed(r) # {} => shape \in Shapes
    PROVE  LET e == Edited(r, shape) IN
           /\ e \in Row
           /\ e.name = IF r.dto.name # None THEN r.dto.name ELSE r.row.name
           /\ e.geometry = IF Parsed(r) # {} THEN shape ELSE r.row.geometry
           /\ e.measures = IF Parsed(r) # {} THEN shape ELSE r.row.measures
           /\ e.shapefileUrl = IF ReadsFile(r) THEN r.up.shapefile ELSE r.row.shapefileUrl
           /\ e.imageUrls = r.up.images \cup (IF Replaces(r) THEN {} ELSE r.row.imageUrls)
           /\ e.deleted = r.row.deleted
<1>1. r.row \in Row
  BY RequestParts
<1>2. /\ (IF r.dto.name # None THEN r.dto.name ELSE r.row.name) \in Names \cup {None}
      /\ (IF Parsed(r) # {} THEN shape ELSE r.row.geometry) \in Shapes \cup {None}
      /\ (IF Parsed(r) # {} THEN shape ELSE r.row.measures) \in Shapes \cup {None}
      /\ (IF ReadsFile(r) THEN r.up.shapefile ELSE r.row.shapefileUrl) \in Files \cup {None}
      /\ r.up.images \cup (IF Replaces(r) THEN {} ELSE r.row.imageUrls) \in SUBSET Files
  BY RequestParts DEF Row
<1>3. QED
  BY <1>1, <1>2 DEF Edited, Row

\* What save is about to write, and the row it leaves.
LEMMA OnlyRow ==
    ASSUME NEW row \in Row, NEW cols
    PROVE  /\ Only(row, cols) \in Row
           /\ \A c \in Columns : Only(row, cols)[c] = IF c \in cols THEN row[c] ELSE NoRow[c]
<1> DEFINE m == Only(row, cols)
<1>1. m = [c \in Columns |-> m[c]] /\ \A c \in Columns : m[c] = IF c \in cols THEN row[c] ELSE NoRow[c]
  BY DEF Only
<1> HIDE DEF m
<1>2. m \in Row
  BY <1>1, NoRowTyped, MixedRow
<1>3. QED
  BY <1>1, <1>2 DEF m

LEMMA WrittenRow ==
    ASSUME ParcelsTypeOK, NEW r \in Request, r.p \in ParcelIds
    PROVE  /\ Written(r) \in Row
           /\ \A c \in Columns :
                Written(r)[c] = IF c \in r.cols THEN r.row[c] ELSE parcels[r.p][c]
<1> DEFINE m == Written(r)
<1>1. PICK a \in Row, b \in Row, cols \in {r.cols} : a = r.row /\ b = parcels[r.p] /\ cols = r.cols
  BY RequestParts DEF ParcelsTypeOK
<1>2. m = [c \in Columns |-> m[c]] /\ \A c \in Columns : m[c] = IF c \in cols THEN a[c] ELSE b[c]
  BY <1>1 DEF Written
<1> HIDE DEF m
<1>3. m \in Row
  BY <1>2, MixedRow
<1>4. QED
  BY <1>1, <1>2, <1>3 DEF m

LEMMA ParcelsStep == ParcelsInv /\ [Next]_vars => ParcelsInv'
<1> SUFFICES ASSUME ParcelsInv, [Next]_vars PROVE ParcelsInv'
  OBVIOUS
<1> DEFINE Requests == req' \in [Handlers -> Request] /\ \A g \in Handlers : StageInv(req[g])'
           Rows == /\ parcels' \in [ParcelIds -> Row] /\ stored' \subseteq ParcelIds
                   /\ \A p \in stored' : parcels'[p].name # None /\ parcels'[p].geometry # None
                   /\ \A p \in ParcelIds : parcels'[p].imageUrls \subseteq used'
           Disk == disk' \subseteq used' /\ used' \subseteq Files /\ doomed' \subseteq used'
           History == /\ drawn' \in [Files -> Shapes \cup {None}]
                      /\ overlapped' \subseteq stored' /\ torn' \subseteq stored'
<1>a. ParcelsTypeOK /\ \A h \in Handlers : req[h] \in Request /\ StageInv(req[h])
  BY DEF ParcelsInv, ParcelsTypeOK
<1>b. ASSUME Requests, Rows, Disk, History PROVE ParcelsInv'
  BY <1>b DEF ParcelsInv, ParcelsTypeOK
<1>c. ASSUME UNCHANGED <<parcels, stored>>, used \subseteq used' PROVE Rows
  BY <1>c DEF ParcelsInv, ParcelsTypeOK
<1>d. ASSUME UNCHANGED <<stored, overlapped, drawn, torn>> PROVE History
  BY <1>d DEF ParcelsInv, ParcelsTypeOK
<1>e. ASSUME UNCHANGED <<disk, used, doomed>> PROVE Disk
  BY <1>e DEF ParcelsInv, ParcelsTypeOK
<1>1. ASSUME NEW h \in Handlers, Create(h) PROVE ParcelsInv'
  <2>1. PICK dto \in Bodies, up \in Uploads :
            /\ dto.name # None
            /\ Receive(h, [Blank EXCEPT !.at = "create", !.kind = "create",
                                        !.dto = dto, !.up = up])
    BY <1>1 DEF Create
  <2> DEFINE r == [Blank EXCEPT !.at = "create", !.kind = "create", !.dto = dto, !.up = up]
  <2>2. StoreFiles(up) /\ Enter(h, r) /\ used \subseteq used' /\ Disk
    BY <1>1, <1>a, <2>1, Stored DEF Receive, Blank, Create, ParcelsTypeOK
  <2>3. r \in Request
    BY <1>a, UploadsTyped, BlankTyped, BodiesAssumption DEF Request, Blank
  <2>4. StageInv(r)'
    BY <1>a, <2>1, <2>2, Stored DEF StageInv, Blank, NoRow
  <2>5. QED
    BY <1>1, <1>b, <1>c, <1>d, <2>2, <2>3, <2>4, EnterTyped DEF Create
<1>2. ASSUME NEW h \in Handlers, Insert(h) PROVE ParcelsInv'
  <2> DEFINE r == req[h]
  <2>1. PICK p \in ParcelIds \ stored, shape \in Parsed(r) :
            /\ parcels' = [parcels EXCEPT ![p] = NewRow(r, shape)]
            /\ stored' = stored \cup {p}
            /\ Learn(r, shape)
    BY <1>2 DEF Insert
  <2>2. Disk /\ used' = used /\ Requests
    BY <1>2, <1>e, <2>1, BlankEntered DEF Insert
  <2>3. r \in Request /\ StageInv(r) /\ r.at = "create"
    BY <1>2, <1>a DEF Insert
  <2>4. shape \in Shapes /\ shape # None
    BY <2>3, RequestParts, AbsentAssumption
  <2>5. NewRow(r, shape) \in Row
    BY <2>3, <2>4, RequestParts DEF NewRow, Row
  <2>6. /\ NewRow(r, shape).name # None /\ NewRow(r, shape).geometry # None
        /\ NewRow(r, shape).imageUrls \subseteq used
    BY <2>3, <2>4 DEF NewRow, StageInv
  <2>7. Rows
    BY <1>a, <2>1, <2>2, <2>5, <2>6 DEF ParcelsInv, ParcelsTypeOK
  <2>8. History
    BY <1>2, <1>a, <2>1, <2>4 DEF Insert, Learn, ParcelsTypeOK
  <2>9. QED
    BY <1>b, <2>2, <2>7, <2>8
<1>3. ASSUME NEW h \in Handlers, Refuse(h) PROVE ParcelsInv'
  <2>1. Requests
    BY <1>3, BlankEntered DEF Refuse
  <2>2. QED
    BY <1>3, <1>b, <1>c, <1>d, <1>e, <2>1 DEF Refuse
<1>4. ASSUME NEW h \in Handlers, Update(h) PROVE ParcelsInv'
  <2>1. PICK p \in stored, dto \in Bodies, up \in Uploads :
            Receive(h, [Blank EXCEPT !.at = "update", !.kind = "update", !.p = p,
                            !.dto = dto, !.up = up, !.row = parcels[p]])
    BY <1>4 DEF Update
  <2> DEFINE r == [Blank EXCEPT !.at = "update", !.kind = "update", !.p = p,
                                !.dto = dto, !.up = up, !.row = parcels[p]]
  <2>2. StoreFiles(up) /\ Enter(h, r) /\ used \subseteq used' /\ Disk
    BY <1>4, <1>a, <2>1, Stored DEF Receive, Blank, Update, ParcelsTypeOK
  <2>3. r \in Request
    BY <1>a, UploadsTyped, BlankTyped, BodiesAssumption DEF Request, Blank, ParcelsTypeOK
  <2>4. p \in ParcelIds /\ parcels[p].imageUrls \subseteq used'
        /\ parcels[p].name # None /\ parcels[p].geometry # None
    BY <2>2 DEF ParcelsInv, ParcelsTypeOK
  <2>5. StageInv(r)'
    BY <1>4, <1>a, <2>2, <2>4, Stored DEF StageInv, Blank, Update
  <2>6. QED
    BY <1>4, <1>b, <1>c, <1>d, <2>2, <2>3, <2>5, EnterTyped DEF Update
<1>5. ASSUME NEW h \in Handlers, Apply(h) PROVE ParcelsInv'
  <2> DEFINE r == req[h]
  <2>1. PICK shape \in IF Parsed(r) = {} THEN {None} ELSE Parsed(r) :
            /\ Enter(h, [r EXCEPT !.at = "diff", !.row = Edited(r, shape)])
            /\ Learn(r, shape)
    BY <1>5 DEF Apply
  <2> DEFINE q == [r EXCEPT !.at = "diff", !.row = Edited(r, shape)]
  <2>2. r \in Request /\ StageInv(r) /\ r.at = "update"
    BY <1>5, <1>a DEF Apply
  <2>3. Parsed(r) # {} => shape \in Shapes /\ shape # None
    BY <2>1, <2>2, RequestParts, AbsentAssumption
  <2>4. /\ q \in Request /\ q.at = "diff" /\ q.row = Edited(r, shape)
        /\ q.up = r.up /\ q.p = r.p
    BY <2>2, <2>3, EditedRow DEF Request
  <2>5. StageInv(q)
    BY <2>2, <2>3, <2>4, EditedRow DEF StageInv
  <2>6. Requests
    BY <1>5, <2>1, <2>4, <2>5, EnterTyped, StageKept DEF Apply
  <2>7. Disk
    BY <1>5, <1>a, <2>2 DEF Apply, ToUnlink, StageInv, ParcelsTypeOK
  <2>8. History
    BY <1>5, <1>a, <2>1, <2>2, <2>3 DEF Apply, Learn, ReadsFile, Parsed, ParcelsTypeOK
  <2>9. QED
    BY <1>5, <1>b, <1>c, <2>6, <2>7, <2>8 DEF Apply
<1>6. ASSUME NEW f \in Files, Unlink(f) PROVE ParcelsInv'
  BY <1>6 DEF Unlink, ParcelsInv, ParcelsTypeOK, StageInv
<1>7. ASSUME NEW h \in Handlers, SoftDelete(h) PROVE ParcelsInv'
  <2>1. PICK p \in stored :
            Enter(h, [Blank EXCEPT !.at = "diff", !.kind = "delete", !.p = p,
                                   !.row = [parcels[p] EXCEPT !.deleted = TRUE]])
    BY <1>7 DEF SoftDelete
  <2> DEFINE row == [parcels[p] EXCEPT !.deleted = TRUE]
             r == [Blank EXCEPT !.at = "diff", !.kind = "delete", !.p = p, !.row = row]
  <2>2. p \in ParcelIds /\ parcels[p] \in Row /\ parcels[p].imageUrls \subseteq used
        /\ parcels[p].name # None /\ parcels[p].geometry # None
    BY DEF ParcelsInv, ParcelsTypeOK
  <2>3. row \in Row /\ row.imageUrls = parcels[p].imageUrls /\ row.name = parcels[p].name
        /\ row.geometry = parcels[p].geometry
    BY <2>2 DEF Row
  <2>4. r \in Request /\ StageInv(r)
    BY <2>2, <2>3, BlankTyped DEF Request, Blank, StageInv
  <2>5. Requests
    BY <1>7, <2>1, <2>4, EnterTyped, StageKept DEF SoftDelete
  <2>6. QED
    BY <1>7, <1>b, <1>c, <1>d, <1>e, <2>5 DEF SoftDelete
<1>8. ASSUME NEW h \in Handlers, SaveDiff(h) PROVE ParcelsInv'
  <2> DEFINE r == req[h]
  <2>1. r \in Request /\ StageInv(r) /\ r.at = "diff" /\ r.row \in Row
    BY <1>8, <1>a, RequestParts DEF SaveDiff
  <2>2. PICK extra \in {{}, {"geometry", "imageUrls"}} :
            LET cols == Differing(r) \cup extra IN
            Enter(h, [r EXCEPT !.at = "write", !.cols = cols, !.row = Only(r.row, cols)])
    BY <1>8 DEF SaveDiff
  <2> DEFINE cols == Differing(r) \cup extra
             q == [r EXCEPT !.at = "write", !.cols = cols, !.row = Only(r.row, cols)]
  <2>3. cols \subseteq Columns
    BY ColumnNames DEF Differing
  <2> HIDE DEF cols
  <2>4. /\ Only(r.row, cols) \in Row
        /\ \A c \in Columns : Only(r.row, cols)[c] = IF c \in cols THEN r.row[c] ELSE NoRow[c]
    BY <2>1, OnlyRow
  <2>5. /\ Only(r.row, cols).imageUrls \subseteq r.row.imageUrls
        /\ "name" \in cols => Only(r.row, cols).name = r.row.name
        /\ "geometry" \in cols => Only(r.row, cols).geometry = r.row.geometry
    BY <2>4, ColumnNames DEF NoRow
  <2>6. /\ q \in Request /\ q.at = "write" /\ q.cols = cols /\ q.row = Only(r.row, cols)
        /\ q.up = r.up /\ q.p = r.p
    BY <2>1, <2>3, <2>4 DEF Request
  <2>7. StageInv(q)
    BY <2>1, <2>5, <2>6 DEF StageInv
  <2>8. Requests
    BY <1>8, <2>2, <2>6, <2>7, EnterTyped, StageKept DEF SaveDiff, cols
  <2>9. QED
    BY <1>8, <1>b, <1>c, <1>d, <1>e, <2>8 DEF SaveDiff
<1>9. ASSUME NEW h \in Handlers, SaveWrite(h) PROVE ParcelsInv'
  <2> DEFINE r == req[h]
  <2>1. r \in Request /\ StageInv(r) /\ r.at = "write" /\ r.row \in Row
        /\ r.p \in stored /\ r.p \in ParcelIds /\ parcels[r.p] \in Row
    BY <1>9, <1>a, RequestParts DEF SaveWrite, StageInv, ParcelsTypeOK
  <2>2. /\ Written(r) \in Row
        /\ \A c \in Columns : Written(r)[c] = IF c \in r.cols THEN r.row[c] ELSE parcels[r.p][c]
    BY <1>a, <2>1, WrittenRow
  <2>3. /\ Written(r).name # None /\ Written(r).geometry # None
        /\ Written(r).imageUrls \subseteq used
    BY <1>a, <2>1, <2>2, ColumnNames DEF StageInv, ParcelsInv, ParcelsTypeOK
  <2>4. Rows
    BY <1>9, <1>a, <2>1, <2>2, <2>3 DEF SaveWrite, ParcelsInv, ParcelsTypeOK
  <2>5. ASSUME NEW g \in Handlers PROVE req'[g] \in Request /\ StageInv(req[g])'
    <3>1. req'[g] \in {Blank, req[g], [req[g] EXCEPT !.fresh = FALSE]}
      BY <1>9 DEF SaveWrite
    <3>2. used' = used /\ stored' = stored
      BY <1>9 DEF SaveWrite
    <3>3. req[g] \in Request /\ StageInv(req[g])
      BY <1>a
    <3>4. [req[g] EXCEPT !.fresh = FALSE] \in Request /\ StageInv([req[g] EXCEPT !.fresh = FALSE])
      BY <3>3 DEF Request, StageInv
    <3>5. PICK r2 \in Request : StageInv(r2) /\ req'[g] = r2
      BY <3>1, <3>3, <3>4, BlankTyped
    <3>6. QED
      BY <3>2, <3>5 DEF StageInv
  <2>6. Requests
    BY <1>9, <2>5 DEF SaveWrite
  <2>7. History /\ Disk
    BY <1>9, <1>a, <2>1 DEF SaveWrite, ParcelsTypeOK
  <2>8. QED
    BY <1>b, <2>4, <2>6, <2>7
<1>10. ASSUME NEW h \in Handlers, SaveFails(h) PROVE ParcelsInv'
  <2>1. Requests
    BY <1>10, BlankEntered DEF SaveFails
  <2>2. History
    BY <1>10, <1>a DEF SaveFails, Replacing, StageInv, ParcelsTypeOK
  <2>3. QED
    BY <1>10, <1>b, <1>c, <1>e, <2>1, <2>2 DEF SaveFails
<1>11. CASE Misdirected
  <2>1. PICK up \in Uploads : StoreFiles(up)
    BY <1>11 DEF Misdirected
  <2>2. used \subseteq used' /\ Disk
    BY <1>11, <1>a, <2>1, Stored DEF Misdirected, ParcelsTypeOK
  <2>3. Requests
    BY <1>11, <1>a, <2>2, StageKept DEF Misdirected, ParcelsTypeOK, StageInv
  <2>4. QED
    BY <1>11, <1>b, <1>c, <1>d, <2>2, <2>3 DEF Misdirected
<1>12. CASE Crash
  <2>1. Requests
    BY <1>12, BlankTyped, StageKept DEF Crash, StageInv
  <2>2. torn' \subseteq stored
    BY <1>12, <1>a DEF Crash, Replacing, StageInv, ParcelsTypeOK
  <2>3. History /\ Disk
    BY <1>12, <1>a, <2>2 DEF Crash, ParcelsTypeOK
  <2>4. QED
    BY <1>12, <1>b, <1>c, <2>1, <2>3 DEF Crash
<1>13. CASE UNCHANGED vars
  BY <1>13 DEF vars, ParcelsInv, ParcelsTypeOK, StageInv
<1>14. QED
  BY <1>1, <1>2, <1>3, <1>4, <1>5, <1>6, <1>7, <1>8, <1>9, <1>10, <1>11, <1>12, <1>13
     DEF Next, Arrive

\* Rows, requests and files are well formed, and a stored parcel has its name and
\* geometry, whatever overlaps and fails.
THEOREM ParcelsTypeCorrect == Spec => []ParcelsTypeOK
<1>1. ParcelsInv => ParcelsTypeOK
  BY DEF ParcelsInv
<1>2. QED
  BY <1>1, ParcelsInit, ParcelsStep, PTL DEF Spec

-----------------------------------------------------------------------------
(* What a save leaves *)

\* A request whose outcome o, over the row P and with d as what files were found
\* to hold, changes what was asked, as it was asked, and nothing else.
Sound(r, o, P, d) ==
    /\ \A c \in Columns \ Asked(r) : o[c] = P[c]
    /\ "measures" \in Asked(r) => o["measures"] = o["geometry"]
    /\ "shapefileUrl" \in Asked(r) => /\ o["shapefileUrl"] = r.up.shapefile
                                      /\ o["geometry"] = d[r.up.shapefile]
    /\ "imageUrls" \in Asked(r) =>
          o["imageUrls"] = r.up.images \cup (IF Replaces(r) THEN {} ELSE P["imageUrls"])

\* The row a write of r makes of P.
Outcome(r, P) == [c \in Columns |-> IF c \in r.cols THEN r.row[c] ELSE P[c]]

\* A request that has read the latest will leave a sound outcome.
FreshSound(r, P, d) ==
    r.fresh => /\ r.at = "update" => r.row = P
               /\ r.at = "diff" => Sound(r, r.row, P, d)
               /\ r.at = "write" => Sound(r, Outcome(r, P), P, d)

\* An uploaded file belongs to one request.
OwnShapefile ==
    \A g, h \in Handlers : req[g].up.shapefile = req[h].up.shapefile =>
        g = h \/ req[g].up.shapefile = None

SaveInv ==
    /\ OwnShapefile
    /\ \A h \in Handlers : req[h].p \in ParcelIds =>
          FreshSound(req[h], parcels[req[h].p], drawn)

LEMMA AskedColumns == \A r : Asked(r) \subseteq Columns
BY ColumnNames DEF Asked

\* The handler of an update leaves a sound entity.
LEMMA EditedSound ==
    ASSUME NEW r \in Request, r.kind = "update", NEW shape, NEW d, Shapes # {},
           Parsed(r) # {} => shape \in Shapes, ReadsFile(r) => d[r.up.shapefile] = shape
    PROVE  Sound(r, Edited(r, shape), r.row, d)
<1> DEFINE e == Edited(r, shape)
<1>1. ReadsFile(r) => Parsed(r) # {}
  BY DEF ReadsFile, Parsed
<1>2. /\ "name" \in Asked(r) <=> r.dto.name # None
      /\ "geometry" \in Asked(r) <=> Parsed(r) # {}
      /\ "measures" \in Asked(r) <=> Parsed(r) # {}
      /\ "shapefileUrl" \in Asked(r) <=> ReadsFile(r)
      /\ "imageUrls" \in Asked(r) <=> r.up.images # {}
  BY ColumnNames DEF Asked
<1>3. /\ e.name = IF r.dto.name # None THEN r.dto.name ELSE r.row.name
      /\ e.geometry = IF Parsed(r) # {} THEN shape ELSE r.row.geometry
      /\ e.measures = IF Parsed(r) # {} THEN shape ELSE r.row.measures
      /\ e.shapefileUrl = IF ReadsFile(r) THEN r.up.shapefile ELSE r.row.shapefileUrl
      /\ e.imageUrls = r.up.images \cup (IF Replaces(r) THEN {} ELSE r.row.imageUrls)
      /\ e.deleted = r.row.deleted
  BY EditedRow
<1> HIDE DEF e
<1>4. Replaces(r) => r.up.images # {}
  BY DEF Replaces
<1>5. ASSUME NEW c \in Columns \ Asked(r) PROVE e[c] = r.row[c]
  <2>1. CASE c = "name"
    BY <1>2, <1>3, <1>5, <2>1
  <2>2. CASE c = "geometry"
    BY <1>2, <1>3, <1>5, <2>2
  <2>3. CASE c = "measures"
    BY <1>2, <1>3, <1>5, <2>3
  <2>4. CASE c = "shapefileUrl"
    BY <1>2, <1>3, <1>5, <2>4
  <2>5. CASE c = "imageUrls"
    BY <1>2, <1>3, <1>4, <1>5, <2>5
  <2>6. CASE c = "deleted"
    BY <1>3, <2>6
  <2>7. QED
    BY <2>1, <2>2, <2>3, <2>4, <2>5, <2>6, ColumnNames
<1>6. Sound(r, e, r.row, d)
  BY <1>1, <1>2, <1>3, <1>5 DEF Sound
<1>7. QED
  BY <1>6 DEF e

LEMMA SaveInit == Init => SaveInv
<1> SUFFICES ASSUME Init PROVE SaveInv
  OBVIOUS
<1>1. \A h \in Handlers : req[h] = Blank
  BY DEF Init
<1>2. \A h \in Handlers : req[h].p \notin ParcelIds /\ req[h].up.shapefile = None
  BY <1>1, AbsentAssumption DEF Blank, NoUpload
<1>3. QED
  BY <1>2 DEF SaveInv, OwnShapefile

\* What other files hold does not matter to a request.
LEMMA OtherFiles ==
    ASSUME NEW r \in Request, NEW P, NEW d, NEW e, FreshSound(r, P, d),
           r.up.shapefile \in Files => e[r.up.shapefile] = d[r.up.shapefile]
    PROVE  FreshSound(r, P, e)
<1>1. "shapefileUrl" \in Asked(r) => r.up.shapefile \in Files
  BY RequestParts, ColumnNames DEF Asked, ReadsFile
<1>2. \A o : Sound(r, o, P, d) => Sound(r, o, P, e)
  BY <1>1 DEF Sound
<1>3. QED
  BY <1>2 DEF FreshSound

\* A request that is about a parcel is about a stored one.
LEMMA AboutStored ==
    ASSUME ParcelsInv, NEW h \in Handlers, req[h].p \in ParcelIds
    PROVE  req[h].p \in stored /\ req[h] \in Request /\ req[h].at \in {"update", "diff", "write"}
<1>1. req[h] \in Request /\ StageInv(req[h])
  BY DEF ParcelsInv, ParcelsTypeOK
<1>2. req[h].at \in {"idle", "create", "update", "diff", "write"}
  BY <1>1 DEF Request
<1>3. QED
  BY <1>1, <1>2, AbsentAssumption DEF StageInv

\* A request moves on and no stored parcel changes: only its own file may turn
\* out to hold something.
LEMMA EnterSound ==
    ASSUME ParcelsInv, SaveInv, NEW h \in Handlers, NEW r \in Request, Enter(h, r),
           \A p \in stored : parcels'[p] = parcels[p],
           \A f \in Files : drawn'[f] = drawn[f] \/ f = req[h].up.shapefile,
           r.up.shapefile \in {None, req[h].up.shapefile} \/ r.up.shapefile \notin used,
           r.p \in ParcelIds => FreshSound(r, parcels'[r.p], drawn')
    PROVE  SaveInv'
<1>1. \A g \in Handlers : req'[g] = IF g = h THEN r ELSE req[g]
  BY DEF Enter, ParcelsInv, ParcelsTypeOK
<1>2. \A g \in Handlers : req[g].up.shapefile \in used \cup {None}
  BY DEF ParcelsInv, StageInv
<1>3. OwnShapefile'
  <2>1. \A f, g \in Handlers : req[f].up.shapefile = req[g].up.shapefile =>
            f = g \/ req[f].up.shapefile = None
    BY DEF SaveInv, OwnShapefile
  <2>2. QED
    BY <1>1, <1>2, <2>1 DEF OwnShapefile
<1>4. ASSUME NEW g \in Handlers, req'[g].p \in ParcelIds
      PROVE  FreshSound(req'[g], parcels'[req'[g].p], drawn')
  <2>1. CASE g = h
    BY <1>1, <1>4, <2>1
  <2>2. CASE g # h
    <3>1. req'[g] = req[g] /\ req[g].p \in stored /\ req[g] \in Request
      BY <1>1, <1>4, <2>2, AboutStored
    <3>2. parcels'[req[g].p] = parcels[req[g].p]
      BY <3>1
    <3>3. FreshSound(req[g], parcels[req[g].p], drawn)
      BY <1>4, <3>1 DEF SaveInv
    <3>4. req[g].up.shapefile \in Files => drawn'[req[g].up.shapefile] = drawn[req[g].up.shapefile]
      BY <2>2, AbsentAssumption DEF SaveInv, OwnShapefile
    <3>5. FreshSound(req[g], parcels[req[g].p], drawn')
      BY <3>1, <3>3, <3>4, OtherFiles
    <3>6. QED
      BY <3>1, <3>2, <3>5
  <2>3. QED
    BY <2>1, <2>2
<1>5. QED
  BY <1>3, <1>4 DEF SaveInv

\* A save over a change the request has not seen is overlapped; otherwise its
\* outcome is sound or it changes nothing.
LEMMA WriteSound ==
    ASSUME ParcelsInv, SaveInv, NEW h \in Handlers, SaveWrite(h)
    PROVE  LET r == req[h] IN
           /\ r.p \in stored /\ parcels' = [parcels EXCEPT ![r.p] = Written(r)]
           /\ \/ r.p \in overlapped'
              \/ Written(r) = parcels[r.p]
              \/ r.fresh /\ Sound(r, Written(r), parcels[r.p], drawn)
<1> DEFINE r == req[h]
<1>1. r.p \in stored /\ r.p \in ParcelIds /\ r.at = "write"
  BY DEF ParcelsInv, StageInv, SaveWrite, ParcelsTypeOK
<1>2. parcels' = [parcels EXCEPT ![r.p] = Written(r)]
      /\ (r.fresh \/ Written(r) = parcels[r.p] \/ r.p \in overlapped')
  BY DEF SaveWrite
<1>3. r.fresh => Sound(r, Outcome(r, parcels[r.p]), parcels[r.p], drawn)
  BY <1>1 DEF SaveInv, FreshSound
<1>4. Written(r) = Outcome(r, parcels[r.p])
  BY DEF Written, Outcome
<1>5. QED
  BY <1>1, <1>2, <1>3, <1>4

\* Soundness looks at what was asked and at the columns only.
LEMMA SameSound ==
    ASSUME NEW r, NEW q, q.kind = r.kind, q.dto = r.dto, q.up = r.up, NEW o, NEW n,
           \A c \in Columns : n[c] = o[c], NEW P, NEW d, Sound(r, o, P, d)
    PROVE  Sound(q, n, P, d)
<1>1. Asked(q) = Asked(r) /\ (Replaces(q) <=> Replaces(r))
  BY DEF Asked, Parsed, ReadsFile, Replaces
<1>2. QED
  BY <1>1, ColumnNames DEF Sound

LEMMA SaveStep == ParcelsInv /\ SaveInv /\ [Next]_vars => SaveInv'
<1> SUFFICES ASSUME ParcelsInv, SaveInv, [Next]_vars PROVE SaveInv'
  OBVIOUS
<1>a. ParcelsTypeOK /\ \A h \in Handlers : req[h] \in Request /\ StageInv(req[h])
  BY DEF ParcelsInv, ParcelsTypeOK
<1>b. None \notin ParcelIds /\ Blank \in Request /\ Blank.p = None /\ Blank.up.shapefile = None
  BY AbsentAssumption, BlankTyped DEF Blank, NoUpload
<1>c. ASSUME NEW h \in Handlers, Enter(h, Blank), \A p \in stored : parcels'[p] = parcels[p],
             \A f \in Files : drawn'[f] = drawn[f] \/ f = req[h].up.shapefile
      PROVE  SaveInv'
  BY <1>b, <1>c, EnterSound
<1>1. ASSUME NEW h \in Handlers, Create(h) PROVE SaveInv'
  <2>1. PICK dto \in Bodies, up \in Uploads :
            Receive(h, [Blank EXCEPT !.at = "create", !.kind = "create",
                                     !.dto = dto, !.up = up])
    BY <1>1 DEF Create
  <2> DEFINE r == [Blank EXCEPT !.at = "create", !.kind = "create", !.dto = dto, !.up = up]
  <2>2. /\ r \in Request /\ r.p \notin ParcelIds /\ r.up = up
        /\ up.shapefile \notin used
    BY <1>a, <1>b, UploadsTyped, BodiesAssumption DEF Request, Blank
  <2>3. QED
    BY <1>1, <2>1, <2>2, EnterSound DEF Create, Receive
<1>2. ASSUME NEW h \in Handlers, Insert(h) PROVE SaveInv'
  <2>1. PICK p \in ParcelIds \ stored, shape \in Parsed(req[h]) :
            /\ parcels' = [parcels EXCEPT ![p] = NewRow(req[h], shape)]
            /\ Learn(req[h], shape)
    BY <1>2 DEF Insert
  <2>2. \A q \in stored : parcels'[q] = parcels[q]
    BY <1>a, <2>1 DEF ParcelsTypeOK
  <2>3. \A f \in Files : drawn'[f] = drawn[f] \/ f = req[h].up.shapefile
    BY <1>a, <2>1 DEF Learn, ParcelsTypeOK
  <2>4. QED
    BY <1>2, <1>c, <2>2, <2>3 DEF Insert
<1>3. ASSUME NEW h \in Handlers, Refuse(h) PROVE SaveInv'
  BY <1>3, <1>c DEF Refuse
<1>4. ASSUME NEW h \in Handlers, Update(h) PROVE SaveInv'
  <2>1. PICK p \in stored, dto \in Bodies, up \in Uploads :
            Receive(h, [Blank EXCEPT !.at = "update", !.kind = "update", !.p = p,
                            !.dto = dto, !.up = up, !.row = parcels[p]])
    BY <1>4 DEF Update
  <2> DEFINE r == [Blank EXCEPT !.at = "update", !.kind = "update", !.p = p,
                                !.dto = dto, !.up = up, !.row = parcels[p]]
  <2>2. /\ r \in Request /\ r.p = p /\ r.up = up /\ r.at = "update" /\ r.row = parcels[p]
        /\ up.shapefile \notin used
    BY <1>a, <1>b, UploadsTyped, BodiesAssumption DEF Request, Blank, ParcelsTypeOK
  <2>3. UNCHANGED <<parcels, drawn>> /\ Enter(h, r)
    BY <1>4, <2>1 DEF Update, Receive
  <2>4. FreshSound(r, parcels'[r.p], drawn')
    BY <2>2, <2>3 DEF FreshSound
  <2>5. QED
    BY <2>2, <2>3, <2>4, EnterSound
<1>5. ASSUME NEW h \in Handlers, Apply(h) PROVE SaveInv'
  <2> DEFINE r == req[h]
  <2>1. PICK shape \in IF Parsed(r) = {} THEN {None} ELSE Parsed(r) :
            /\ Enter(h, [r EXCEPT !.at = "diff", !.row = Edited(r, shape)])
            /\ Learn(r, shape)
    BY <1>5 DEF Apply
  <2> DEFINE q == [r EXCEPT !.at = "diff", !.row = Edited(r, shape)]
  <2>2. r \in Request /\ StageInv(r) /\ r.at = "update" /\ r.kind = "update" /\ r.p \in stored
        /\ parcels' = parcels
    BY <1>5, <1>a DEF Apply, StageInv
  <2>3. Parsed(r) # {} => shape \in Shapes
    BY <2>1, <2>2, RequestParts
  <2>4. Shapes # {}
    BY <2>2, <1>a, RequestParts DEF StageInv
  <2>5. ReadsFile(r) => r.up.shapefile \in Files /\ drawn'[r.up.shapefile] = shape
    BY <1>a, <2>1, <2>2, RequestParts DEF Learn, ReadsFile, ParcelsTypeOK
  <2>6. \A f \in Files : drawn'[f] = drawn[f] \/ f = r.up.shapefile
    BY <1>a, <2>1 DEF Learn, ParcelsTypeOK
  <2>7. Sound(r, Edited(r, shape), r.row, drawn')
    BY <2>2, <2>3, <2>4, <2>5, EditedSound
  <2>8. /\ q \in Request /\ q.at = "diff" /\ q.row = Edited(r, shape) /\ q.up = r.up
        /\ q.p = r.p /\ q.kind = r.kind /\ q.dto = r.dto /\ q.fresh = r.fresh
    BY <2>2, <2>3, EditedRow DEF Request
  <2>9. ASSUME r.fresh PROVE Sound(q, q.row, parcels'[q.p], drawn')
    <3>1. parcels'[q.p] = r.row
      BY <1>a, <2>2, <2>8, <2>9 DEF SaveInv, FreshSound, ParcelsTypeOK
    <3>2. \A c \in Columns : q.row[c] = Edited(r, shape)[c]
      BY <2>8
    <3> HIDE DEF q
    <3>3. Sound(q, q.row, r.row, drawn')
      BY <2>7, <2>8, <3>2, SameSound
    <3>4. QED
      BY <3>1, <3>3
  <2>10. FreshSound(q, parcels'[q.p], drawn')
    BY <2>8, <2>9 DEF FreshSound
  <2>11. QED
    BY <2>1, <2>2, <2>6, <2>8, <2>10, EnterSound
<1>6. ASSUME NEW f \in Files, Unlink(f) PROVE SaveInv'
  BY <1>6 DEF Unlink, SaveInv, OwnShapefile
<1>7. ASSUME NEW h \in Handlers, SoftDelete(h) PROVE SaveInv'
  <2>1. PICK p \in stored :
            Enter(h, [Blank EXCEPT !.at = "diff", !.kind = "delete", !.p = p,
                                   !.row = [parcels[p] EXCEPT !.deleted = TRUE]])
    BY <1>7 DEF SoftDelete
  <2> DEFINE row == [parcels[p] EXCEPT !.deleted = TRUE]
             r == [Blank EXCEPT !.at = "diff", !.kind = "delete", !.p = p, !.row = row]
  <2>2. parcels[p] \in Row /\ p \in ParcelIds
    BY <1>a DEF ParcelsTypeOK
  <2>3. row \in Row /\ \A c \in Columns \ {"deleted"} : row[c] = parcels[p][c]
    BY <2>2, ColumnNames DEF Row
  <2>4. /\ r \in Request /\ r.at = "diff" /\ r.kind = "delete" /\ r.p = p /\ r.row = row
        /\ r.up.shapefile = None
    BY <1>b, <2>2, <2>3 DEF Request, Blank
  <2>5. Sound(r, row, parcels[p], drawn)
    BY <2>3, <2>4 DEF Sound, Asked
  <2>6. UNCHANGED <<parcels, drawn>>
    BY <1>7 DEF SoftDelete
  <2>7. FreshSound(r, parcels'[r.p], drawn')
    BY <2>4, <2>5, <2>6 DEF FreshSound
  <2>8. QED
    BY <2>1, <2>4, <2>6, <2>7, EnterSound
<1>8. ASSUME NEW h \in Handlers, SaveDiff(h) PROVE SaveInv'
  <2> DEFINE r == req[h]
  <2>1. r \in Request /\ StageInv(r) /\ r.at = "diff" /\ r.row \in Row /\ r.p \in ParcelIds
        /\ UNCHANGED <<parcels, drawn>>
    BY <1>8, <1>a, RequestParts DEF SaveDiff, StageInv, ParcelsTypeOK
  <2>2. PICK extra \in {{}, {"geometry", "imageUrls"}} :
            LET cols == Differing(r) \cup extra IN
            Enter(h, [r EXCEPT !.at = "write", !.cols = cols, !.row = Only(r.row, cols)])
    BY <1>8 DEF SaveDiff
  <2> DEFINE cols == Differing(r) \cup extra
             q == [r EXCEPT !.at = "write", !.cols = cols, !.row = Only(r.row, cols)]
             P == parcels[r.p]
  <2>3. cols \subseteq Columns /\ \A c \in Columns \ cols : r.row[c] = P[c]
    BY ColumnNames DEF Differing
  <2> HIDE DEF cols
  <2>4. /\ Only(r.row, cols) \in Row
        /\ \A c \in Columns : Only(r.row, cols)[c] = IF c \in cols THEN r.row[c] ELSE NoRow[c]
    BY <2>1, OnlyRow
  <2>5. /\ q \in Request /\ q.at = "write" /\ q.cols = cols /\ q.row = Only(r.row, cols)
        /\ q.up = r.up /\ q.p = r.p /\ q.kind = r.kind /\ q.dto = r.dto /\ q.fresh = r.fresh
    BY <2>1, <2>3, <2>4 DEF Request
  <2> HIDE DEF q
  <2>6. \A c \in Columns : Outcome(q, P)[c] = r.row[c]
    BY <2>3, <2>4, <2>5 DEF Outcome
  <2>7. r.fresh => Sound(r, r.row, P, drawn)
    BY <2>1 DEF SaveInv, FreshSound
  <2>8. r.fresh => Sound(q, Outcome(q, P), P, drawn)
    BY <2>5, <2>6, <2>7, SameSound
  <2>9. FreshSound(q, parcels'[q.p], drawn')
    BY <2>1, <2>5, <2>8 DEF FreshSound
  <2>10. Enter(h, q)
    BY <2>2 DEF q, cols
  <2>11. QED
    BY <2>1, <2>5, <2>9, <2>10, EnterSound
<1>9. ASSUME NEW h \in Handlers, SaveWrite(h) PROVE SaveInv'
  <2> DEFINE r == req[h]
  <2>1. parcels' = [parcels EXCEPT ![r.p] = Written(r)] /\ drawn' = drawn
    BY <1>9 DEF SaveWrite
  <2>2. ASSUME NEW g \in Handlers
        PROVE  /\ req'[g].up.shapefile \in {req[g].up.shapefile, None}
               /\ req'[g].p \in ParcelIds => FreshSound(req'[g], parcels'[req'[g].p], drawn')
    <3>1. CASE req'[g] = Blank
      BY <1>b, <3>1
    <3>2. CASE req'[g] = [req[g] EXCEPT !.fresh = FALSE]
      <4>1. req'[g].up = req[g].up /\ req'[g].fresh = FALSE
        BY <1>a, <3>2 DEF Request
      <4>2. QED
        BY <4>1 DEF FreshSound
    <3>3. CASE req'[g] = req[g] /\ (req[g].p # r.p \/ Written(r) = parcels[r.p])
      <4>1. ASSUME req[g].p \in ParcelIds PROVE parcels'[req[g].p] = parcels[req[g].p]
        BY <1>a, <2>1, <3>3, <4>1 DEF ParcelsTypeOK
      <4>2. QED
        BY <2>1, <3>3, <4>1 DEF SaveInv
    <3>4. QED
      BY <1>9, <3>1, <3>2, <3>3 DEF SaveWrite
  <2>3. OwnShapefile'
    <3>1. \A f, g \in Handlers : req[f].up.shapefile = req[g].up.shapefile =>
              f = g \/ req[f].up.shapefile = None
      BY DEF SaveInv, OwnShapefile
    <3>2. QED
      BY <2>2, <3>1 DEF OwnShapefile
  <2>4. QED
    BY <2>2, <2>3 DEF SaveInv
<1>10. ASSUME NEW h \in Handlers, SaveFails(h) PROVE SaveInv'
  BY <1>10, <1>c DEF SaveFails
<1>11. CASE Misdirected
  BY <1>11 DEF Misdirected, SaveInv, OwnShapefile
<1>12. CASE Crash
  BY <1>12, <1>b DEF Crash, SaveInv, OwnShapefile
<1>13. CASE UNCHANGED vars
  BY <1>13 DEF vars, SaveInv, OwnShapefile
<1>14. QED
  BY <1>1, <1>2, <1>3, <1>4, <1>5, <1>6, <1>7, <1>8, <1>9, <1>10, <1>11, <1>12, <1>13
     DEF Next, Arrive

\* The rows of stored parcels change in saves only.
LEMMA RowsChangeInSaves ==
    ASSUME ParcelsInv, SaveInv, [Next]_vars, NEW p \in stored, parcels'[p] # parcels[p],
           p \notin overlapped'
    PROVE  \E h \in Handlers :
              /\ req[h].at = "write" /\ req'[h].at = "idle" /\ req[h].p = p /\ req[h].fresh
              /\ parcels'[p] \in Row /\ parcels[p] \in Row
              /\ Sound(req[h], parcels'[p], parcels[p], drawn)
<1>1. PICK h \in Handlers : Insert(h) \/ SaveWrite(h)
  BY DEF Next, Arrive, Create, Update, SoftDelete, Receive, Refuse, Apply, SaveDiff, SaveFails,
     Unlink, Misdirected, Crash, vars
<1>2. ~ Insert(h)
  BY DEF Insert, ParcelsInv, ParcelsTypeOK
<1>3. SaveWrite(h) /\ parcels \in [ParcelIds -> Row] /\ p \in ParcelIds
  BY <1>1, <1>2 DEF ParcelsInv, ParcelsTypeOK
<1>4. parcels' \in [ParcelIds -> Row]
  BY ParcelsStep DEF ParcelsInv, ParcelsTypeOK
<1> DEFINE r == req[h]
<1>5. /\ parcels' = [parcels EXCEPT ![r.p] = Written(r)]
      /\ \/ r.p \in overlapped'
         \/ Written(r) = parcels[r.p]
         \/ r.fresh /\ Sound(r, Written(r), parcels[r.p], drawn)
  BY <1>3, WriteSound
<1>6. r.p = p /\ parcels'[p] = Written(r)
  BY <1>3, <1>5
<1>7. req[h].at = "write" /\ req'[h].at = "idle"
  BY <1>3 DEF SaveWrite, Blank
<1>8. QED
  BY <1>3, <1>4, <1>5, <1>6, <1>7

LEMMA PartialStep ==
    ParcelsInv /\ SaveInv /\ [Next]_vars =>
        \A p \in stored \ overlapped', c \in Columns :
            parcels'[p][c] # parcels[p][c] =>
                \E h \in Handlers : /\ req[h].at = "write" /\ req'[h].at = "idle"
                                    /\ req[h].p = p /\ c \in Asked(req[h])
<1> SUFFICES ASSUME ParcelsInv, SaveInv, [Next]_vars, NEW p \in stored \ overlapped',
                    NEW c \in Columns, parcels'[p][c] # parcels[p][c]
             PROVE  \E h \in Handlers : /\ req[h].at = "write" /\ req'[h].at = "idle"
                                        /\ req[h].p = p /\ c \in Asked(req[h])
  OBVIOUS
<1>1. PICK h \in Handlers :
          /\ req[h].at = "write" /\ req'[h].at = "idle" /\ req[h].p = p
          /\ Sound(req[h], parcels'[p], parcels[p], drawn)
  BY RowsChangeInSaves
<1>2. QED
  BY <1>1 DEF Sound

\* Unless saves of a parcel overlap, a column of it changes only in the save of a
\* request that asked to change it.
THEOREM UpdatesArePartial == Spec => PartialUpdates
<1>1. QED
  BY PartialStep, ParcelsInit, ParcelsStep, SaveInit, SaveStep, PTL DEF Spec, PartialUpdates

LEMMA FileStep ==
    ParcelsInv /\ SaveInv /\ [Next]_vars =>
        \A p \in stored \ overlapped' :
            parcels'[p].shapefileUrl # parcels[p].shapefileUrl =>
                parcels'[p].geometry = drawn[parcels'[p].shapefileUrl]
<1> SUFFICES ASSUME ParcelsInv, SaveInv, [Next]_vars, NEW p \in stored \ overlapped',
                    parcels'[p].shapefileUrl # parcels[p].shapefileUrl
             PROVE  parcels'[p].geometry = drawn[parcels'[p].shapefileUrl]
  OBVIOUS
<1>1. PICK h \in Handlers : Sound(req[h], parcels'[p], parcels[p], drawn)
  BY RowsChangeInSaves
<1>2. "shapefileUrl" \in Asked(req[h])
  BY <1>1, ColumnNames DEF Sound
<1>3. QED
  BY <1>1, <1>2 DEF Sound

\* Unless saves of a parcel overlap, it names another geometry file only together
\* with the shape that was found in the file.
THEOREM GeometryComesWithFile == Spec => GeometryFollowsFile
<1>1. QED
  BY FileStep, ParcelsInit, ParcelsStep, SaveInit, SaveStep, PTL DEF Spec, GeometryFollowsFile

\* While a request is about to replace the images of a row it has read the latest
\* of, those that are still on disk are doomed.
GoneInv ==
    \A h \in Handlers : req[h].fresh /\ Replacing(h) =>
        parcels[req[h].p].imageUrls \cap disk \subseteq doomed

LEMMA GoneInit == Init => GoneInv
BY DEF Init, GoneInv, Replacing, Blank

LEMMA GoneStep == ParcelsInv /\ SaveInv /\ GoneInv /\ [Next]_vars => GoneInv'
<1> SUFFICES ASSUME ParcelsInv, SaveInv, GoneInv, [Next]_vars PROVE GoneInv'
  OBVIOUS
<1>a. /\ ParcelsTypeOK /\ \A h \in Handlers : req[h] \in Request /\ StageInv(req[h])
      /\ \A p \in ParcelIds : parcels[p].imageUrls \subseteq used
  BY DEF ParcelsInv, ParcelsTypeOK
\* No file comes back, and nobody starts to replace.
<1>b. ASSUME used \cap (disk' \ doomed') \subseteq disk \ doomed,
             \A h \in Handlers : req'[h].fresh /\ Replacing(h)' =>
                /\ req[h].fresh /\ Replacing(h) /\ req'[h].p = req[h].p
                /\ parcels'[req[h].p] = parcels[req[h].p]
      PROVE  GoneInv'
  <2>1. \A h \in Handlers : Replacing(h) => parcels[req[h].p].imageUrls \subseteq used
    BY <1>a DEF Replacing, StageInv, ParcelsTypeOK
  <2>2. QED
    BY <1>b, <2>1 DEF GoneInv
<1>c. ASSUME NEW h \in Handlers, NEW r, Enter(h, r),
             r.fresh /\ r.at \in {"diff", "write"} /\ Replaces(r) =>
                req[h].fresh /\ Replacing(h) /\ r.p = req[h].p,
             \A p \in stored : parcels'[p] = parcels[p],
             used \cap (disk' \ doomed') \subseteq disk \ doomed
      PROVE  GoneInv'
  <2>1. \A g \in Handlers : req'[g] = IF g = h THEN r ELSE req[g]
    BY <1>a, <1>c DEF Enter, ParcelsTypeOK
  <2>2. \A g \in Handlers : Replacing(g) => req[g].p \in stored
    BY <1>a DEF Replacing, StageInv
  <2>3. \A g \in Handlers : req'[g].fresh /\ Replacing(g)' =>
            req[g].fresh /\ Replacing(g) /\ req'[g].p = req[g].p
    BY <1>c, <2>1 DEF Replacing, Replaces
  <2>4. QED
    BY <1>b, <1>c, <2>2, <2>3
<1>d. ASSUME NEW up \in Uploads, StoreFiles(up), doomed' = doomed
      PROVE  used \cap (disk' \ doomed') \subseteq disk \ doomed
  BY <1>d DEF StoreFiles, Uploads
<1>1. ASSUME NEW h \in Handlers, Create(h) PROVE GoneInv'
  <2>1. PICK dto \in Bodies, up \in Uploads :
            Receive(h, [Blank EXCEPT !.at = "create", !.kind = "create",
                                     !.dto = dto, !.up = up])
    BY <1>1 DEF Create
  <2> DEFINE r == [Blank EXCEPT !.at = "create", !.kind = "create", !.dto = dto, !.up = up]
  <2>2. r.at = "create" /\ Enter(h, r) /\ StoreFiles(up)
    BY <2>1 DEF Receive, Blank
  <2> HIDE DEF r
  <2>3. QED
    BY <1>1, <1>c, <1>d, <2>2 DEF Create
<1>2. ASSUME NEW h \in Handlers, Insert(h) PROVE GoneInv'
  <2>1. \A p \in stored : parcels'[p] = parcels[p]
    BY <1>2, <1>a DEF Insert, ParcelsTypeOK
  <2>2. QED
    BY <1>2, <1>c, <2>1 DEF Insert, Blank
<1>3. ASSUME NEW h \in Handlers, Refuse(h) PROVE GoneInv'
  BY <1>3, <1>c DEF Refuse, Blank
<1>4. ASSUME NEW h \in Handlers, Update(h) PROVE GoneInv'
  <2>1. PICK p \in stored, dto \in Bodies, up \in Uploads :
            Receive(h, [Blank EXCEPT !.at = "update", !.kind = "update", !.p = p,
                            !.dto = dto, !.up = up, !.row = parcels[p]])
    BY <1>4 DEF Update
  <2> DEFINE r == [Blank EXCEPT !.at = "update", !.kind = "update", !.p = p,
                                !.dto = dto, !.up = up, !.row = parcels[p]]
  <2>2. r.at = "update" /\ Enter(h, r) /\ StoreFiles(up)
    BY <2>1 DEF Receive, Blank
  <2> HIDE DEF r
  <2>3. QED
    BY <1>4, <1>c, <1>d, <2>2 DEF Update
\* The images of the row that was read are doomed, and it is the row.
<1>5. ASSUME NEW h \in Handlers, Apply(h) PROVE GoneInv'
  <2> DEFINE r == req[h]
  <2>1. PICK row : Enter(h, [r EXCEPT !.at = "diff", !.row = row])
    BY <1>5 DEF Apply
  <2> DEFINE q == [r EXCEPT !.at = "diff", !.row = row]
  <2>2. /\ r \in Request /\ r.at = "update" /\ r.p \in ParcelIds
        /\ doomed' = doomed \cup ToUnlink(r) /\ UNCHANGED <<parcels, disk>>
    BY <1>5, <1>a DEF Apply, StageInv, ParcelsTypeOK
  <2>3. q.p = r.p /\ q.fresh = r.fresh /\ q.kind = r.kind /\ q.up = r.up /\ q.dto = r.dto
    BY <2>2 DEF Request
  <2>4. Enter(h, q)
    BY <2>1
  <2> HIDE DEF q
  <2>5. \A g \in Handlers : req'[g] = IF g = h THEN q ELSE req[g]
    BY <1>a, <2>4 DEF Enter, ParcelsTypeOK
  <2>6. ASSUME r.fresh, Replaces(r) PROVE parcels[r.p].imageUrls \subseteq doomed'
    <3>1. r.row = parcels[r.p]
      BY <2>2, <2>6 DEF SaveInv, FreshSound
    <3>2. QED
      BY <2>2, <2>6, <3>1 DEF ToUnlink
  <2>7. ASSUME NEW g \in Handlers, req'[g].fresh, Replacing(g)'
        PROVE  parcels[req'[g].p].imageUrls \cap disk \subseteq doomed'
    <3>1. CASE g = h
      BY <2>3, <2>5, <2>6, <2>7, <3>1 DEF Replacing, Replaces
    <3>2. CASE g # h
      <4>1. req[g].fresh /\ Replacing(g) /\ req'[g] = req[g]
        BY <2>5, <2>7, <3>2 DEF Replacing, Replaces
      <4>2. QED
        BY <2>2, <4>1 DEF GoneInv
    <3>3. QED
      BY <3>1, <3>2
  <2>8. QED
    BY <2>2, <2>7 DEF GoneInv
<1>6. ASSUME NEW f \in Files, Unlink(f) PROVE GoneInv'
  BY <1>6, <1>b DEF Unlink, Replacing, Replaces
<1>7. ASSUME NEW h \in Handlers, SoftDelete(h) PROVE GoneInv'
  <2>1. PICK p \in stored :
            Enter(h, [Blank EXCEPT !.at = "diff", !.kind = "delete", !.p = p,
                                   !.row = [parcels[p] EXCEPT !.deleted = TRUE]])
    BY <1>7 DEF SoftDelete
  <2> DEFINE r == [Blank EXCEPT !.at = "diff", !.kind = "delete", !.p = p,
                                !.row = [parcels[p] EXCEPT !.deleted = TRUE]]
  <2>2. Enter(h, r) /\ ~ Replaces(r)
    BY <2>1 DEF Replaces, Blank
  <2> HIDE DEF r
  <2>3. QED
    BY <1>7, <1>c, <2>2 DEF SoftDelete
<1>8. ASSUME NEW h \in Handlers, SaveDiff(h) PROVE GoneInv'
  <2> DEFINE r == req[h]
  <2>1. PICK cols, row : Enter(h, [r EXCEPT !.at = "write", !.cols = cols, !.row = row])
    BY <1>8 DEF SaveDiff
  <2> DEFINE q == [r EXCEPT !.at = "write", !.cols = cols, !.row = row]
  <2>2. /\ q.p = r.p /\ q.fresh = r.fresh /\ q.kind = r.kind /\ q.up = r.up /\ q.dto = r.dto
        /\ r.at = "diff"
    BY <1>8, <1>a DEF Request, SaveDiff
  <2>3. Enter(h, q)
    BY <2>1
  <2> HIDE DEF q
  <2>4. Replaces(q) => Replacing(h)
    BY <2>2 DEF Replacing, Replaces
  <2>5. QED
    BY <1>8, <1>c, <2>2, <2>3, <2>4 DEF SaveDiff
\* Who is about to replace the images of a row another changes is not fresh any
\* more.
<1>9. ASSUME NEW h \in Handlers, SaveWrite(h) PROVE GoneInv'
  <2> DEFINE r == req[h]
  <2>1. /\ parcels' = [parcels EXCEPT ![r.p] = Written(r)] /\ parcels \in [ParcelIds -> Row]
        /\ UNCHANGED <<disk, doomed>> /\ req'[h] = Blank
    BY <1>9, <1>a DEF SaveWrite, ParcelsTypeOK
  <2>2. ASSUME NEW g \in Handlers, req'[g].fresh, Replacing(g)'
        PROVE  /\ req[g].fresh /\ Replacing(g) /\ req'[g].p = req[g].p
               /\ parcels'[req[g].p] = parcels[req[g].p]
    <3>1. g # h
      BY <2>1, <2>2 DEF Replacing, Blank
    <3>2. req'[g] = IF req[g].p = r.p /\ Written(r) # parcels[r.p]
                    THEN [req[g] EXCEPT !.fresh = FALSE] ELSE req[g]
      BY <1>9, <3>1 DEF SaveWrite
    <3>3. req'[g] = req[g] /\ ~ (req[g].p = r.p /\ Written(r) # parcels[r.p])
      BY <1>a, <2>2, <3>2 DEF Request
    <3>4. QED
      BY <2>1, <2>2, <3>3 DEF Replacing, Replaces
  <2>3. QED
    BY <1>b, <2>1, <2>2
<1>10. ASSUME NEW h \in Handlers, SaveFails(h) PROVE GoneInv'
  BY <1>10, <1>c DEF SaveFails, Blank
<1>11. CASE Misdirected
  <2>1. PICK up \in Uploads : StoreFiles(up)
    BY <1>11 DEF Misdirected
  <2>2. UNCHANGED <<parcels, req, doomed>>
    BY <1>11 DEF Misdirected
  <2>3. QED
    BY <1>b, <1>d, <2>1, <2>2 DEF Replacing, Replaces
<1>12. CASE Crash
  BY <1>12 DEF Crash, GoneInv, Replacing, Blank
<1>13. CASE UNCHANGED vars
  BY <1>13 DEF vars, GoneInv, Replacing, Replaces
<1>14. QED
  BY <1>1, <1>2, <1>3, <1>4, <1>5, <1>6, <1>7, <1>8, <1>9, <1>10, <1>11, <1>12, <1>13
     DEF Next, Arrive

LEMMA ImagesStep ==
    ParcelsInv /\ SaveInv /\ GoneInv /\ [Next]_vars =>
        \A p \in stored \ overlapped' :
            LET gone == parcels[p].imageUrls \ parcels'[p].imageUrls IN
            gone # {} =>
                /\ gone \cap disk \subseteq doomed
                /\ \E h \in Handlers : /\ req[h].at = "write" /\ req[h].p = p
                                       /\ req[h].up.images # {}
                                       /\ req[h].dto.deleteOldImage # "absent"
<1> SUFFICES ASSUME ParcelsInv, SaveInv, GoneInv, [Next]_vars, NEW p \in stored \ overlapped',
                    parcels[p].imageUrls \ parcels'[p].imageUrls # {}
             PROVE  /\ parcels[p].imageUrls \cap disk \subseteq doomed
                    /\ \E h \in Handlers : /\ req[h].at = "write" /\ req[h].p = p
                                           /\ req[h].up.images # {}
                                           /\ req[h].dto.deleteOldImage # "absent"
  OBVIOUS
<1>1. PICK h \in Handlers :
          /\ req[h].at = "write" /\ req[h].p = p /\ req[h].fresh
          /\ Sound(req[h], parcels'[p], parcels[p], drawn)
  BY RowsChangeInSaves
<1>2. Replaces(req[h])
  BY <1>1, ColumnNames DEF Sound
<1>3. parcels[p].imageUrls \cap disk \subseteq doomed
  BY <1>1, <1>2 DEF GoneInv, Replacing
<1>4. QED
  BY <1>1, <1>2, <1>3 DEF Replaces, Coerced

\* An image leaves a parcel together with its file: unless saves of the parcel
\* overlap, only a request that brings images and the flag, whatever its text,
\* takes any out of the row, and by then their files are gone or about to go, for
\* any number of parcels, files and requests.
THEOREM ImagesLeaveTogether == Spec => ImagesLeaveWithFiles
<1>1. QED
  BY ImagesStep, ParcelsInit, ParcelsStep, SaveInit, SaveStep, GoneInit, GoneStep, PTL
     DEF Spec, ImagesLeaveWithFiles

LEMMA MeasuresStep ==
    ParcelsInv /\ SaveInv /\ MeasuresFitGeometry /\ [Next]_vars => MeasuresFitGeometry'
<1> SUFFICES ASSUME ParcelsInv, SaveInv, MeasuresFitGeometry, [Next]_vars,
                    NEW p \in stored' \ overlapped'
             PROVE  parcels'[p].measures = parcels'[p].geometry
  BY DEF MeasuresFitGeometry
<1>1. CASE p \in stored
  <2>1. p \notin overlapped
    BY DEF Next, Arrive, Create, Insert, Update, SoftDelete, Refuse, Apply, SaveDiff, SaveWrite,
       SaveFails, Unlink, Misdirected, Crash, vars
  <2>2. parcels[p].measures = parcels[p].geometry
    BY <1>1, <2>1 DEF MeasuresFitGeometry
  <2>3. CASE parcels'[p] = parcels[p]
    BY <2>2, <2>3
  <2>4. CASE parcels'[p] # parcels[p]
    <3>1. PICK h \in Handlers : Sound(req[h], parcels'[p], parcels[p], drawn)
      BY <1>1, <2>4, RowsChangeInSaves
    <3>2. "measures" \in Asked(req[h]) <=> "geometry" \in Asked(req[h])
      BY ColumnNames DEF Asked
    <3>3. QED
      BY <2>2, <3>1, <3>2, ColumnNames DEF Sound
  <2>5. QED
    BY <2>3, <2>4
<1>2. CASE p \notin stored
  <2>1. PICK h \in Handlers : Insert(h)
    BY <1>2 DEF Next, Arrive, Create, Update, SoftDelete, Refuse, Apply, SaveDiff, SaveWrite,
       SaveFails, Unlink, Misdirected, Crash, vars
  <2>2. PICK q \in ParcelIds \ stored, shape \in Parsed(req[h]) :
            /\ parcels' = [parcels EXCEPT ![q] = NewRow(req[h], shape)]
            /\ stored' = stored \cup {q}
    BY <2>1 DEF Insert
  <2>3. parcels'[p] = NewRow(req[h], shape)
    BY <1>2, <2>2 DEF ParcelsInv, ParcelsTypeOK
  <2>4. QED
    BY <2>3 DEF NewRow
<1>3. QED
  BY <1>1, <1>2

\* However the geometry of a parcel came in, area and perimeter are computed from
\* it, unless saves of the parcel overlap.
THEOREM MeasuresFit == Spec => []MeasuresFitGeometry
<1>1. Init => MeasuresFitGeometry
  BY DEF Init, MeasuresFitGeometry
<1>2. QED
  BY <1>1, MeasuresStep, ParcelsInit, ParcelsStep, SaveInit, SaveStep, PTL DEF Spec

-----------------------------------------------------------------------------
(* Deletion *)

\* What a request that deletes a parcel is about to write deletes it.
Deletes(r) ==
    r.kind = "delete" => /\ r.at \in {"diff", "write"}
                         /\ r.at = "diff" => r.row.deleted
                         /\ r.at = "write" /\ "deleted" \in r.cols => r.row.deleted

DeleteInv == \A h \in Handlers : Deletes(req[h])

LEMMA DeleteInit == Init => DeleteInv
BY DEF Init, DeleteInv, Deletes, Blank

LEMMA DeleteEntered ==
    ASSUME ParcelsInv, DeleteInv, NEW h \in Handlers, NEW r, Enter(h, r), Deletes(r)
    PROVE  DeleteInv'
<1>1. \A g \in Handlers : req'[g] = IF g = h THEN r ELSE req[g]
  BY DEF Enter, ParcelsInv, ParcelsTypeOK
<1>2. \A g \in Handlers : req'[g] = r \/ req'[g] = req[g]
  BY <1>1
<1>3. QED
  BY <1>2 DEF DeleteInv, Deletes

LEMMA DeleteStep == ParcelsInv /\ DeleteInv /\ [Next]_vars => DeleteInv'
<1> SUFFICES ASSUME ParcelsInv, DeleteInv, [Next]_vars PROVE DeleteInv'
  OBVIOUS
<1>a. \A h \in Handlers : req[h] \in Request /\ StageInv(req[h]) /\ Deletes(req[h])
  BY DEF ParcelsInv, ParcelsTypeOK, DeleteInv
<1>b. Deletes(Blank)
  BY DEF Deletes, Blank
<1>1. ASSUME NEW h \in Handlers, Arrive(h) PROVE DeleteInv'
  <2>1. CASE Create(h)
    <3>1. PICK dto \in Bodies, up \in Uploads :
              Enter(h, [Blank EXCEPT !.at = "create", !.kind = "create",
                                     !.dto = dto, !.up = up])
      BY <2>1 DEF Create, Receive
    <3>2. QED
      BY <3>1, DeleteEntered DEF Deletes, Blank
  <2>2. CASE Update(h)
    <3>1. PICK p \in stored, dto \in Bodies, up \in Uploads :
              Enter(h, [Blank EXCEPT !.at = "update", !.kind = "update", !.p = p,
                            !.dto = dto, !.up = up, !.row = parcels[p]])
      BY <2>2 DEF Update, Receive
    <3>2. QED
      BY <3>1, DeleteEntered DEF Deletes, Blank
  <2>3. CASE SoftDelete(h)
    <3>1. PICK p \in stored :
              Enter(h, [Blank EXCEPT !.at = "diff", !.kind = "delete", !.p = p,
                                     !.row = [parcels[p] EXCEPT !.deleted = TRUE]])
      BY <2>3 DEF SoftDelete
    <3>2. parcels[p] \in Row
      BY DEF ParcelsInv, ParcelsTypeOK
    <3>3. [parcels[p] EXCEPT !.deleted = TRUE].deleted
      BY <3>2 DEF Row
    <3>4. QED
      BY <3>1, <3>3, DeleteEntered DEF Deletes, Blank
  <2>4. QED
    BY <1>1, <2>1, <2>2, <2>3 DEF Arrive
<1>2. ASSUME NEW h \in Handlers, Insert(h) \/ Refuse(h) \/ SaveFails(h) PROVE DeleteInv'
  BY <1>2, <1>b, DeleteEntered DEF Insert, Refuse, SaveFails
<1>3. ASSUME NEW h \in Handlers, Apply(h) PROVE DeleteInv'
  <2>1. PICK e : Enter(h, [req[h] EXCEPT !.at = "diff", !.row = e])
    BY <1>3 DEF Apply
  <2>2. req[h].kind = "update"
    BY <1>3, <1>a DEF Apply, StageInv
  <2>3. [req[h] EXCEPT !.at = "diff", !.row = e].kind = "update"
    BY <1>a, <2>2 DEF Request
  <2>4. QED
    BY <2>1, <2>3, DeleteEntered DEF Deletes
<1>4. ASSUME NEW h \in Handlers, SaveDiff(h) PROVE DeleteInv'
  <2> DEFINE r == req[h]
  <2>1. PICK cols : Enter(h, [r EXCEPT !.at = "write", !.cols = cols, !.row = Only(r.row, cols)])
    BY <1>4 DEF SaveDiff
  <2> DEFINE q == [r EXCEPT !.at = "write", !.cols = cols, !.row = Only(r.row, cols)]
  <2>2. r \in Request /\ r.at = "diff" /\ r.row \in Row /\ Deletes(r)
    BY <1>4, <1>a, RequestParts DEF SaveDiff
  <2>3. q.kind = r.kind /\ q.at = "write" /\ q.cols = cols /\ q.row = Only(r.row, cols)
    BY <2>2 DEF Request
  <2>4. "deleted" \in cols => Only(r.row, cols).deleted = r.row.deleted
    BY ColumnNames DEF Only
  <2>5. Deletes(q)
    BY <2>2, <2>3, <2>4 DEF Deletes
  <2>6. QED
    BY <2>1, <2>5, DeleteEntered
<1>5. ASSUME NEW h \in Handlers, SaveWrite(h) PROVE DeleteInv'
  <2>1. ASSUME NEW g \in Handlers PROVE Deletes(req'[g])
    <3>1. req'[g] \in {Blank, req[g], [req[g] EXCEPT !.fresh = FALSE]}
      BY <1>5 DEF SaveWrite
    <3>2. Deletes([req[g] EXCEPT !.fresh = FALSE])
      BY <1>a DEF Deletes, Request
    <3>3. QED
      BY <1>a, <1>b, <3>1, <3>2
  <2>2. QED
    BY <2>1 DEF DeleteInv, Deletes
<1>6. CASE UNCHANGED req
  BY <1>6 DEF DeleteInv, Deletes
<1>7. CASE Crash
  BY <1>7 DEF Crash, DeleteInv, Deletes, Blank
<1>8. QED
  BY <1>1, <1>2, <1>3, <1>4, <1>5, <1>6, <1>7 DEF Next, Unlink, Misdirected, vars

\* The saves of no parcel have overlapped.
Undisturbed == overlapped = {}

LEMMA DeletedStaysDeleted ==
    Undisturbed' /\ ParcelsInv /\ SaveInv /\ DeleteInv /\ [Next]_vars =>
        \A p \in stored \ Listed : p \notin Listed'
<1> SUFFICES ASSUME Undisturbed', ParcelsInv, SaveInv, DeleteInv, [Next]_vars,
                    NEW p \in stored, parcels[p].deleted
             PROVE  parcels'[p].deleted
  BY DEF Listed
<1>1. CASE parcels'[p] = parcels[p]
  BY <1>1
<1>2. CASE parcels'[p] # parcels[p]
  <2>1. p \notin overlapped'
    BY DEF Undisturbed
  <2>2. PICK h \in Handlers : Insert(h) \/ SaveWrite(h)
    BY <1>2 DEF Next, Arrive, Create, Update, SoftDelete, Receive, Refuse, Apply, SaveDiff,
       SaveFails, Unlink, Misdirected, Crash, vars
  <2>3. SaveWrite(h)
    BY <1>2, <2>2 DEF Insert, ParcelsInv, ParcelsTypeOK
  <2> DEFINE r == req[h]
  <2>4. /\ r.p \in stored /\ parcels' = [parcels EXCEPT ![r.p] = Written(r)]
        /\ \/ r.p \in overlapped'
           \/ Written(r) = parcels[r.p]
           \/ r.fresh /\ Sound(r, Written(r), parcels[r.p], drawn)
    BY <2>3, WriteSound
  <2>5. r.p = p /\ parcels'[p] = Written(r)
    BY <1>2, <2>4 DEF ParcelsInv, ParcelsTypeOK
  <2>6. Sound(r, Written(r), parcels[p], drawn)
    BY <1>2, <2>1, <2>4, <2>5
  <2>7. CASE r.kind = "delete"
    <3>1. Written(r)["deleted"] = IF "deleted" \in r.cols THEN r.row["deleted"]
                                  ELSE parcels[p]["deleted"]
      BY <2>5, ColumnNames DEF Written
    <3>2. "deleted" \in r.cols => r.row.deleted
      BY <2>3, <2>7 DEF DeleteInv, Deletes, SaveWrite
    <3>3. QED
      BY <2>5, <3>1, <3>2
  <2>8. CASE r.kind # "delete"
    <3>1. "deleted" \in Columns \ Asked(r)
      BY <2>8, ColumnNames DEF Asked
    <3>2. QED
      BY <2>5, <2>6, <3>1 DEF Sound
  <2>9. QED
    BY <2>7, <2>8
<1>3. QED
  BY <1>1, <1>2

\* As long as the saves of no parcel overlap, nothing brings a deleted parcel back,
\* though update reads and writes deleted rows like any other: so the overlap of
\* saves is the one way it comes back.
THEOREM DeletionHolds == Spec /\ []Undisturbed => DeletionIsFinal
<1>1. QED
  BY DeletedStaysDeleted, ParcelsInit, ParcelsStep, SaveInit, SaveStep, DeleteInit, DeleteStep,
     PTL DEF Spec, DeletionIsFinal

\* One request is served at a time.
OneSlot == \A g, h \in Handlers : g = h

\* Its save has read the latest.
AllFresh == Undisturbed /\ \A h \in Handlers : req[h].fresh

LEMMA FreshInit == Init => AllFresh
BY DEF Init, AllFresh, Undisturbed, Blank

LEMMA FreshEntered ==
    ASSUME ParcelsInv, AllFresh, NEW h \in Handlers, NEW r, Enter(h, r), r.fresh,
           UNCHANGED overlapped
    PROVE  AllFresh'
<1>1. \A g \in Handlers : req'[g] = IF g = h THEN r ELSE req[g]
  BY DEF Enter, ParcelsInv, ParcelsTypeOK
<1>2. QED
  BY <1>1 DEF AllFresh, Undisturbed

LEMMA FreshStep == OneSlot /\ ParcelsInv /\ AllFresh /\ [Next]_vars => AllFresh'
<1> SUFFICES ASSUME OneSlot, ParcelsInv, AllFresh, [Next]_vars PROVE AllFresh'
  OBVIOUS
<1>a. Blank.fresh /\ \A h \in Handlers : req[h] \in Request /\ req[h].fresh
  BY DEF ParcelsInv, ParcelsTypeOK, AllFresh, Blank
<1>1. ASSUME NEW h \in Handlers, Arrive(h) PROVE AllFresh'
  <2>1. CASE Create(h)
    <3>1. PICK dto \in Bodies, up \in Uploads :
              Enter(h, [Blank EXCEPT !.at = "create", !.kind = "create",
                                     !.dto = dto, !.up = up])
      BY <2>1 DEF Create, Receive
    <3>2. QED
      BY <2>1, <3>1, FreshEntered DEF Create, Blank
  <2>2. CASE Update(h)
    <3>1. PICK p \in stored, dto \in Bodies, up \in Uploads :
              Enter(h, [Blank EXCEPT !.at = "update", !.kind = "update", !.p = p,
                            !.dto = dto, !.up = up, !.row = parcels[p]])
      BY <2>2 DEF Update, Receive
    <3>2. QED
      BY <2>2, <3>1, FreshEntered DEF Update, Blank
  <2>3. CASE SoftDelete(h)
    <3>1. PICK p \in stored :
              Enter(h, [Blank EXCEPT !.at = "diff", !.kind = "delete", !.p = p,
                                     !.row = [parcels[p] EXCEPT !.deleted = TRUE]])
      BY <2>3 DEF SoftDelete
    <3>2. QED
      BY <2>3, <3>1, FreshEntered DEF SoftDelete, Blank
  <2>4. QED
    BY <1>1, <2>1, <2>2, <2>3 DEF Arrive
<1>2. ASSUME NEW h \in Handlers, Insert(h) \/ Refuse(h) \/ SaveFails(h) PROVE AllFresh'
  BY <1>2, <1>a, FreshEntered DEF Insert, Refuse, SaveFails
<1>3. ASSUME NEW h \in Handlers, Apply(h) \/ SaveDiff(h) PROVE AllFresh'
  <2>1. CASE Apply(h)
    <3>1. PICK e : Enter(h, [req[h] EXCEPT !.at = "diff", !.row = e])
      BY <2>1 DEF Apply
    <3>2. [req[h] EXCEPT !.at = "diff", !.row = e].fresh
      BY <1>a DEF Request
    <3>3. QED
      BY <2>1, <3>1, <3>2, FreshEntered DEF Apply
  <2>2. CASE SaveDiff(h)
    <3>1. PICK cols, e : Enter(h, [req[h] EXCEPT !.at = "write", !.cols = cols, !.row = e])
      BY <2>2 DEF SaveDiff
    <3>2. [req[h] EXCEPT !.at = "write", !.cols = cols, !.row = e].fresh
      BY <1>a DEF Request
    <3>3. QED
      BY <2>2, <3>1, <3>2, FreshEntered DEF SaveDiff
  <2>3. QED
    BY <1>3, <2>1, <2>2
<1>4. ASSUME NEW h \in Handlers, SaveWrite(h) PROVE AllFresh'
  <2>1. overlapped' = overlapped
    BY <1>4, <1>a DEF SaveWrite
  <2>2. \A g \in Handlers : req'[g] = Blank
    BY <1>4 DEF SaveWrite, OneSlot
  <2>3. QED
    BY <1>a, <2>1, <2>2 DEF AllFresh, Undisturbed
<1>5. CASE UNCHANGED <<req, overlapped>>
  BY <1>5 DEF AllFresh, Undisturbed
<1>6. CASE Crash
  BY <1>6, <1>a DEF Crash, AllFresh, Undisturbed
<1>7. QED
  BY <1>1, <1>2, <1>3, <1>4, <1>5, <1>6 DEF Next, Unlink, Misdirected, vars

\* Served one at a time, requests never bring a deleted parcel back, for any
\* number of parcels and whatever fails.
THEOREM SerialDeletion == OneSlot /\ Spec => DeletionIsFinal
<1> SUFFICES ASSUME OneSlot PROVE Spec => DeletionIsFinal
  OBVIOUS
<1>1. ParcelsInv /\ AllFresh /\ [Next]_vars => AllFresh'
  BY FreshStep
<1>2. AllFresh => Undisturbed
  BY DEF AllFresh
<1>3. Spec => []Undisturbed
  BY <1>1, <1>2, ParcelsInit, ParcelsStep, FreshInit, PTL DEF Spec
<1>4. QED
  BY <1>3, DeletionHolds, PTL

-----------------------------------------------------------------------------
(* The files of a parcel *)

\* An image is a parcel's when its row names it or a request about it might.
Has(p, f) ==
    \/ f \in parcels[p].imageUrls
    \/ \E h \in Handlers : req[h].p = p /\ f \in req[h].row.imageUrls

\* An uploaded image is there, and is the request's alone until it is saved.
Private(h, f) ==
    /\ f \in disk /\ f \notin doomed
    /\ \A p \in stored : f \notin parcels[p].imageUrls
    /\ \A g \in Handlers : f \in req[g].up.images => g = h
    /\ \A g \in Handlers : f \in req[g].row.imageUrls =>
          g = h /\ req[g].at \in {"diff", "write"}

\* A save that brings images will write them.
BringsImages(r) ==
    r.up.images # {} =>
        /\ r.at \in {"diff", "write"} => r.up.images \subseteq r.row.imageUrls
        /\ r.at = "write" => "imageUrls" \in r.cols

OwnInv ==
    /\ \A p, q \in stored : \A f \in Files : Has(p, f) /\ Has(q, f) => p = q
    /\ \A h \in Handlers : \A f \in req[h].up.images : Private(h, f)
    /\ \A h \in Handlers : BringsImages(req[h]) /\ (req[h].at = "idle" => req[h] = Blank)

LEMMA OwnInit == Init => OwnInv
<1> SUFFICES ASSUME Init PROVE OwnInv
  OBVIOUS
<1>1. \A h \in Handlers : req[h] = Blank
  BY DEF Init
<1>2. QED
  BY <1>1 DEF Init, OwnInv, BringsImages, Blank, NoUpload

\* A request moves on: its row names images of its parcel, or its own uploads
\* once it has read the row; its uploads are those it had, or new, or none; and
\* what it dooms is in a row it has read.
LEMMA OwnEntered ==
    ASSUME ParcelsInv, OwnInv, NEW h \in Handlers, NEW r \in Request, Enter(h, r),
           UNCHANGED <<parcels, stored>>, disk \subseteq disk',
           \A f \in doomed' \ doomed : f \in req[h].row.imageUrls /\ req[h].at = "update",
           r.up.images \subseteq disk',
           r.up.images = req[h].up.images \/ r.up.images \cap used = {},
           r.up.images \cap r.row.imageUrls # {} => r.at \in {"diff", "write"},
           \A f \in r.row.imageUrls :
               \/ r.p \in stored /\ f \in parcels[r.p].imageUrls
               \/ r.p = req[h].p /\ f \in req[h].row.imageUrls \cup req[h].up.images,
           \A f \in r.row.imageUrls : f \in req[h].up.images => r.up.images = req[h].up.images,
           BringsImages(r), r.at = "idle" => r = Blank
    PROVE  OwnInv'
<1>1. \A g \in Handlers : req'[g] = IF g = h THEN r ELSE req[g]
  BY DEF Enter, ParcelsInv, ParcelsTypeOK
<1>2. /\ \A p \in stored : parcels[p].imageUrls \subseteq used
      /\ \A g \in Handlers : /\ req[g].up.images \subseteq used /\ req[g].row.imageUrls \subseteq used
      /\ doomed \subseteq used
  BY DEF ParcelsInv, ParcelsTypeOK, StageInv
<1>3. ASSUME NEW p \in stored, NEW f \in Files, Has(p, f)'
      PROVE  Has(p, f) \/ (p = req[h].p /\ f \in req[h].up.images)
  <2>1. CASE f \in parcels'[p].imageUrls
    BY <2>1 DEF Has
  <2>2. ASSUME NEW g \in Handlers, req'[g].p = p, f \in req'[g].row.imageUrls
        PROVE  Has(p, f) \/ (p = req[h].p /\ f \in req[h].up.images)
    <3>1. CASE g # h
      BY <1>1, <2>2, <3>1 DEF Has
    <3>2. CASE g = h
      <4>1. r.p = p /\ f \in r.row.imageUrls
        BY <1>1, <2>2, <3>2
      <4>2. QED
        BY <4>1 DEF Has
    <3>3. QED
      BY <3>1, <3>2
  <2>3. QED
    BY <1>3, <2>1, <2>2 DEF Has
<1>4. ASSUME NEW f \in req[h].up.images, NEW p \in stored, Has(p, f) PROVE p = req[h].p
  <2>1. Private(h, f)
    BY DEF OwnInv
  <2>2. QED
    BY <1>4, <2>1 DEF Has, Private
<1>5. \A p, q \in stored' : \A f \in Files : Has(p, f)' /\ Has(q, f)' => p = q
  <2>1. SUFFICES ASSUME NEW p \in stored, NEW q \in stored, NEW f \in Files, Has(p, f)', Has(q, f)'
                 PROVE  p = q
    OBVIOUS
  <2>2. /\ Has(p, f) \/ (p = req[h].p /\ f \in req[h].up.images)
        /\ Has(q, f) \/ (q = req[h].p /\ f \in req[h].up.images)
    BY <1>3, <2>1
  <2>3. Has(p, f) /\ Has(q, f) => p = q
    BY DEF OwnInv
  <2>4. QED
    BY <1>4, <2>2, <2>3
<1>6. ASSUME NEW g \in Handlers, NEW f \in req'[g].up.images PROVE Private(g, f)'
  <2>1. CASE f \in req[g].up.images
    <3>1. Private(g, f)
      BY <2>1 DEF OwnInv
    <3>2. f \in disk' /\ f \notin doomed'
      BY <3>1 DEF Private
    <3>3. ASSUME NEW k \in Handlers, f \in req'[k].up.images PROVE k = g
      <4>1. f \in used
        BY <1>2, <2>1
      <4>2. QED
        BY <1>1, <3>1, <3>3, <4>1 DEF Private
    <3>4. ASSUME NEW k \in Handlers, f \in req'[k].row.imageUrls
          PROVE  k = g /\ req'[k].at \in {"diff", "write"}
      <4>1. CASE k # h
        BY <1>1, <3>1, <3>4, <4>1 DEF Private
      <4>2. CASE k = h
        <5>1. f \in r.row.imageUrls /\ req'[k] = r
          BY <1>1, <3>4, <4>2
        <5>2. f \in req[h].row.imageUrls \cup req[h].up.images
          BY <3>1, <5>1 DEF Private
        <5>3. g = h
          BY <3>1, <5>2 DEF Private
        <5>4. f \in r.up.images
          BY <1>1, <5>3
        <5>5. QED
          BY <4>2, <5>1, <5>3, <5>4
      <4>3. QED
        BY <4>1, <4>2
    <3>5. QED
      BY <3>1, <3>2, <3>3, <3>4 DEF Private
  <2>2. CASE f \notin req[g].up.images
    <3>1. g = h /\ f \in r.up.images /\ f \notin used /\ f \in disk'
      BY <1>1, <1>6, <2>2
    <3>2. f \notin doomed'
      BY <1>2, <3>1
    <3>3. \A k \in Handlers : f \notin req[k].up.images /\ f \notin req[k].row.imageUrls
      BY <1>2, <3>1
    <3>4. \A p \in stored : f \notin parcels[p].imageUrls
      BY <1>2, <3>1
    <3>5. \A k \in Handlers : f \in req'[k].row.imageUrls => k = h /\ r.at \in {"diff", "write"}
      BY <1>1, <3>1, <3>3
    <3>6. QED
      BY <1>1, <3>1, <3>2, <3>3, <3>4, <3>5 DEF Private
  <2>3. QED
    BY <2>1, <2>2
<1>7. ASSUME NEW g \in Handlers
      PROVE  BringsImages(req'[g]) /\ (req'[g].at = "idle" => req'[g] = Blank)
  BY <1>1 DEF OwnInv
<1>8. QED
  BY <1>5, <1>6, <1>7 DEF OwnInv, BringsImages

LEMMA OwnStep == ParcelsInv /\ OwnInv /\ [Next]_vars => OwnInv'
<1> SUFFICES ASSUME ParcelsInv, OwnInv, [Next]_vars PROVE OwnInv'
  OBVIOUS
<1>a. /\ ParcelsTypeOK /\ \A h \in Handlers : req[h] \in Request /\ StageInv(req[h])
      /\ \A p \in stored : parcels[p].imageUrls \subseteq used
  BY DEF ParcelsInv, ParcelsTypeOK
<1>b. /\ Blank \in Request /\ Blank.at = "idle" /\ Blank.p = None /\ Blank.up.images = {}
      /\ Blank.row.imageUrls = {} /\ Blank.row = NoRow /\ Blank.up = NoUpload
      /\ None \notin ParcelIds /\ BringsImages(Blank)
  BY AbsentAssumption, BlankTyped DEF Blank, NoUpload, NoRow, BringsImages
<1>c. ASSUME NEW h \in Handlers, Enter(h, Blank),
             UNCHANGED <<parcels, stored, disk, doomed>>
      PROVE  OwnInv'
  BY <1>b, <1>c, OwnEntered
<1>d. \A h \in Handlers : req[h].at = "idle" => req[h] = Blank
  BY DEF OwnInv
<1>1. ASSUME NEW h \in Handlers, Create(h) PROVE OwnInv'
  <2>1. PICK dto \in Bodies, up \in Uploads :
            Receive(h, [Blank EXCEPT !.at = "create", !.kind = "create",
                                     !.dto = dto, !.up = up])
    BY <1>1 DEF Create
  <2> DEFINE r == [Blank EXCEPT !.at = "create", !.kind = "create", !.dto = dto, !.up = up]
  <2>2. /\ r \in Request /\ r.at = "create" /\ r.up = up /\ r.row.imageUrls = {}
        /\ up.images \cap used = {}
    BY <1>a, <1>b, UploadsTyped, BodiesAssumption DEF Request, Blank
  <2>3. Enter(h, r) /\ disk \subseteq disk' /\ up.images \subseteq disk'
    BY <1>a, <2>1, Stored DEF Receive
  <2>4. UNCHANGED <<parcels, stored, doomed>>
    BY <1>1 DEF Create
  <2>5. BringsImages(r)
    BY <2>2 DEF BringsImages
  <2> HIDE DEF r
  <2>6. QED
    BY <2>2, <2>3, <2>4, <2>5, OwnEntered
<1>2. ASSUME NEW h \in Handlers, Insert(h) PROVE OwnInv'
  <2>1. PICK p \in ParcelIds \ stored, shape \in Parsed(req[h]) :
            /\ parcels' = [parcels EXCEPT ![p] = NewRow(req[h], shape)]
            /\ stored' = stored \cup {p}
    BY <1>2 DEF Insert
  <2>2. /\ parcels'[p].imageUrls = req[h].up.images
        /\ \A q \in stored : parcels'[q] = parcels[q]
        /\ UNCHANGED <<disk, doomed>>
        /\ \A g \in Handlers : req'[g] = IF g = h THEN Blank ELSE req[g]
    BY <1>2, <1>a, <2>1 DEF NewRow, Insert, Enter, ParcelsTypeOK
  <2>3. \A g \in Handlers : req[g].p # p
    BY <1>a, <2>1, AboutStored
  <2>4. \A f \in Files : Has(p, f)' => f \in req[h].up.images
    BY <1>b, <2>2, <2>3 DEF Has
  <2>5. \A q \in stored : \A f \in Files : Has(q, f)' => Has(q, f)
    BY <1>a, <1>b, <2>2 DEF Has, ParcelsTypeOK
  <2>6. \A q \in stored : \A f \in req[h].up.images : ~ Has(q, f)
    <3>1. req[h].at = "create" /\ req[h].p = None
      BY <1>2, <1>a DEF Insert, StageInv
    <3>2. QED
      BY <3>1 DEF OwnInv, Private, Has
  <2>7. \A q, s \in stored' : \A f \in Files : Has(q, f)' /\ Has(s, f)' => q = s
    <3>1. \A q, s \in stored : \A f \in Files : Has(q, f) /\ Has(s, f) => q = s
      BY DEF OwnInv
    <3>2. QED
      BY <2>1, <2>4, <2>5, <2>6, <3>1
  <2>8. ASSUME NEW g \in Handlers, NEW f \in req'[g].up.images PROVE Private(g, f)'
    <3>1. g # h /\ f \in req[g].up.images
      BY <1>b, <2>2, <2>8
    <3>2. Private(g, f)
      BY <3>1 DEF OwnInv
    <3>3. f \notin req[h].up.images
      BY <3>1, <3>2 DEF Private
    <3>4. \A q \in stored' : f \notin parcels'[q].imageUrls
      BY <2>1, <2>2, <3>2, <3>3 DEF Private
    <3>5. QED
      BY <1>b, <2>2, <3>1, <3>2, <3>4 DEF Private
  <2>9. QED
    BY <1>b, <2>2, <2>7, <2>8 DEF OwnInv, BringsImages
<1>3. ASSUME NEW h \in Handlers, Refuse(h) PROVE OwnInv'
  BY <1>3, <1>c DEF Refuse
<1>4. ASSUME NEW h \in Handlers, Update(h) PROVE OwnInv'
  <2>1. PICK p \in stored, dto \in Bodies, up \in Uploads :
            Receive(h, [Blank EXCEPT !.at = "update", !.kind = "update", !.p = p,
                            !.dto = dto, !.up = up, !.row = parcels[p]])
    BY <1>4 DEF Update
  <2> DEFINE r == [Blank EXCEPT !.at = "update", !.kind = "update", !.p = p,
                                !.dto = dto, !.up = up, !.row = parcels[p]]
  <2>2. /\ r \in Request /\ r.p = p /\ r.up = up /\ r.at = "update" /\ r.row = parcels[p]
        /\ up.images \cap used = {}
    BY <1>a, <1>b, UploadsTyped, BodiesAssumption DEF Request, Blank, ParcelsTypeOK
  <2>3. Enter(h, r) /\ disk \subseteq disk' /\ up.images \subseteq disk'
    BY <1>a, <2>1, Stored DEF Receive
  <2>4. UNCHANGED <<parcels, stored, doomed>> /\ req[h].up.images = {}
    BY <1>4, <1>b, <1>d, <2>1 DEF Update, Receive
  <2>5. BringsImages(r) /\ r.row.imageUrls \subseteq used
    BY <1>a, <2>2 DEF BringsImages
  <2> HIDE DEF r
  <2>6. QED
    BY <2>2, <2>3, <2>4, <2>5, OwnEntered
<1>5. ASSUME NEW h \in Handlers, Apply(h) PROVE OwnInv'
  <2> DEFINE r == req[h]
  <2>1. PICK shape \in IF Parsed(r) = {} THEN {None} ELSE Parsed(r) :
            Enter(h, [r EXCEPT !.at = "diff", !.row = Edited(r, shape)])
    BY <1>5 DEF Apply
  <2> DEFINE q == [r EXCEPT !.at = "diff", !.row = Edited(r, shape)]
  <2>2. r \in Request /\ r.at = "update" /\ UNCHANGED <<parcels, stored, disk>>
        /\ doomed' = doomed \cup ToUnlink(r)
    BY <1>5, <1>a DEF Apply
  <2>3. Parsed(r) # {} => shape \in Shapes
    BY <2>1, <2>2, RequestParts
  <2>4. /\ q \in Request /\ q.at = "diff" /\ q.row = Edited(r, shape) /\ q.up = r.up
        /\ q.p = r.p
        /\ q.row.imageUrls = r.up.images \cup (IF Replaces(r) THEN {} ELSE r.row.imageUrls)
    BY <2>2, <2>3, EditedRow DEF Request
  <2>5. \A f \in doomed' \ doomed : f \in r.row.imageUrls
    BY <2>2 DEF ToUnlink
  <2>6. r.up.images \subseteq disk'
    BY <2>2 DEF OwnInv, Private
  <2>7. BringsImages(q)
    BY <2>4 DEF BringsImages
  <2>8. Enter(h, q)
    BY <2>1
  <2> HIDE DEF q
  <2>9. QED
    BY <2>2, <2>4, <2>5, <2>6, <2>7, <2>8, OwnEntered
<1>6. ASSUME NEW f \in Files, Unlink(f) PROVE OwnInv'
  <2>1. UNCHANGED <<parcels, stored, req>> /\ disk' = disk \ {f} /\ doomed' = doomed \ {f}
        /\ f \in doomed
    BY <1>6 DEF Unlink
  <2>2. ASSUME NEW h \in Handlers, NEW i \in req[h].up.images PROVE Private(h, i)'
    BY <2>1 DEF OwnInv, Private
  <2>3. \A p \in stored : \A i \in Files : Has(p, i)' <=> Has(p, i)
    BY <2>1 DEF Has
  <2>4. QED
    BY <2>1, <2>2, <2>3 DEF OwnInv, BringsImages
<1>7. ASSUME NEW h \in Handlers, SoftDelete(h) PROVE OwnInv'
  <2>1. PICK p \in stored :
            Enter(h, [Blank EXCEPT !.at = "diff", !.kind = "delete", !.p = p,
                                   !.row = [parcels[p] EXCEPT !.deleted = TRUE]])
    BY <1>7 DEF SoftDelete
  <2> DEFINE row == [parcels[p] EXCEPT !.deleted = TRUE]
             r == [Blank EXCEPT !.at = "diff", !.kind = "delete", !.p = p, !.row = row]
  <2>2. parcels[p] \in Row /\ p \in ParcelIds
    BY <1>a DEF ParcelsTypeOK
  <2>3. row \in Row /\ row.imageUrls = parcels[p].imageUrls
    BY <2>2 DEF Row
  <2>4. /\ r \in Request /\ r.at = "diff" /\ r.p = p /\ r.row = row /\ r.up.images = {}
    BY <1>b, <2>2, <2>3 DEF Request, Blank
  <2>5. UNCHANGED <<parcels, stored, disk, doomed>> /\ req[h].up.images = {} /\ Enter(h, r)
    BY <1>7, <1>b, <1>d, <2>1 DEF SoftDelete
  <2>6. BringsImages(r)
    BY <2>4 DEF BringsImages
  <2> HIDE DEF r
  <2>7. QED
    BY <2>3, <2>4, <2>5, <2>6, OwnEntered
<1>8. ASSUME NEW h \in Handlers, SaveDiff(h) PROVE OwnInv'
  <2> DEFINE r == req[h]
  <2>1. r \in Request /\ r.at = "diff" /\ r.row \in Row /\ r.p \in stored
        /\ UNCHANGED <<parcels, stored, disk, doomed>>
    BY <1>8, <1>a, RequestParts DEF SaveDiff, StageInv
  <2>2. PICK extra \in {{}, {"geometry", "imageUrls"}} :
            LET cols == Differing(r) \cup extra IN
            Enter(h, [r EXCEPT !.at = "write", !.cols = cols, !.row = Only(r.row, cols)])
    BY <1>8 DEF SaveDiff
  <2> DEFINE cols == Differing(r) \cup extra
             q == [r EXCEPT !.at = "write", !.cols = cols, !.row = Only(r.row, cols)]
  <2>3. cols \subseteq Columns
        /\ (r.row.imageUrls # parcels[r.p].imageUrls => "imageUrls" \in cols)
    BY ColumnNames DEF Differing
  <2> HIDE DEF cols
  <2>4. /\ Only(r.row, cols) \in Row
        /\ \A c \in Columns : Only(r.row, cols)[c] = IF c \in cols THEN r.row[c] ELSE NoRow[c]
    BY <2>1, OnlyRow
  <2>5. /\ q \in Request /\ q.at = "write" /\ q.cols = cols /\ q.row = Only(r.row, cols)
        /\ q.up = r.up /\ q.p = r.p
    BY <2>1, <2>3, <2>4 DEF Request
  <2>6. Enter(h, q)
    BY <2>2 DEF cols
  <2> HIDE DEF q
  <2>7. /\ q.row.imageUrls \subseteq r.row.imageUrls
        /\ "imageUrls" \in q.cols => q.row.imageUrls = r.row.imageUrls
    BY <2>4, <2>5, ColumnNames DEF NoRow
  <2>8. \A f \in r.up.images : f \in disk /\ f \notin parcels[r.p].imageUrls
    BY <2>1 DEF OwnInv, Private
  <2>9. BringsImages(q)
    <3>1. r.up.images # {} => r.up.images \subseteq r.row.imageUrls
      BY <2>1 DEF OwnInv, BringsImages
    <3>2. r.up.images # {} => "imageUrls" \in q.cols
      BY <2>3, <2>5, <2>8, <3>1
    <3>3. QED
      BY <2>5, <2>7, <3>1, <3>2 DEF BringsImages
  <2>10. QED
    BY <2>1, <2>5, <2>6, <2>7, <2>8, <2>9, OwnEntered
<1>9. ASSUME NEW h \in Handlers, SaveWrite(h) PROVE OwnInv'
  <2> DEFINE r == req[h]
  <2>1. /\ r \in Request /\ r.p \in stored /\ r.p \in ParcelIds
        /\ parcels' = [parcels EXCEPT ![r.p] = Written(r)] /\ parcels \in [ParcelIds -> Row]
        /\ UNCHANGED <<stored, disk, doomed>> /\ stored \subseteq ParcelIds
    BY <1>9, <1>a DEF SaveWrite, StageInv, ParcelsTypeOK
  <2>2. Written(r).imageUrls \subseteq parcels[r.p].imageUrls \cup r.row.imageUrls
    BY <1>a, <2>1, WrittenRow, ColumnNames
  <2>3. ASSUME NEW g \in Handlers, g # h
        PROVE  /\ req'[g].p = req[g].p /\ req'[g].up = req[g].up /\ req'[g].row = req[g].row
               /\ req'[g].at = req[g].at /\ req'[g].cols = req[g].cols
               /\ req[g].at = "idle" => req'[g] = Blank
    <3>1. req'[g] \in {req[g], [req[g] EXCEPT !.fresh = FALSE]}
      BY <1>9, <2>3 DEF SaveWrite
    <3>2. req[g] \in Request
      BY <1>a
    <3>3. req[g].at = "idle" => req[g].p # r.p
      BY <1>b, <1>d, <2>1
    <3>4. req[g].p # r.p => req'[g] = req[g]
      BY <1>9, <2>3 DEF SaveWrite
    <3>5. QED
      BY <1>d, <3>1, <3>2, <3>3, <3>4 DEF Request
  <2>4. req'[h] = Blank
    BY <1>9 DEF SaveWrite
  <2>5. ASSUME NEW p \in stored, NEW f \in Files, Has(p, f)' PROVE Has(p, f)
    <3>1. f \in parcels'[p].imageUrls => Has(p, f)
      BY <2>1, <2>2 DEF Has
    <3>2. ASSUME NEW g \in Handlers, req'[g].p = p, f \in req'[g].row.imageUrls PROVE Has(p, f)
      BY <1>b, <2>3, <2>4, <3>2 DEF Has
    <3>3. QED
      BY <2>5, <3>1, <3>2 DEF Has
  <2>6. ASSUME NEW g \in Handlers, NEW f \in req'[g].up.images PROVE Private(g, f)'
    <3>1. g # h /\ f \in req[g].up.images
      BY <1>b, <2>3, <2>4, <2>6
    <3>2. Private(g, f)
      BY <3>1 DEF OwnInv
    <3>3. f \notin r.row.imageUrls
      BY <3>1, <3>2 DEF Private
    <3>4. \A q \in stored : f \notin parcels'[q].imageUrls
      BY <2>1, <2>2, <3>2, <3>3 DEF Private
    <3>5. ASSUME NEW k \in Handlers
          PROVE  /\ f \in req'[k].up.images => k = g
                 /\ f \in req'[k].row.imageUrls => k = g /\ req'[k].at \in {"diff", "write"}
      BY <1>b, <2>3, <2>4, <3>2 DEF Private
    <3>6. QED
      BY <2>1, <3>2, <3>4, <3>5 DEF Private
  <2>7. ASSUME NEW g \in Handlers
        PROVE  BringsImages(req'[g]) /\ (req'[g].at = "idle" => req'[g] = Blank)
    <3>1. CASE g = h
      BY <1>b, <2>4, <3>1
    <3>2. CASE g # h
      BY <2>3, <3>2 DEF OwnInv, BringsImages
    <3>3. QED
      BY <3>1, <3>2
  <2>8. \A p, q \in stored : \A f \in Files : Has(p, f)' /\ Has(q, f)' => p = q
    BY <2>5 DEF OwnInv
  <2>9. QED
    BY <2>1, <2>6, <2>7, <2>8 DEF OwnInv, BringsImages
<1>10. ASSUME NEW h \in Handlers, SaveFails(h) PROVE OwnInv'
  BY <1>10, <1>c DEF SaveFails
<1>11. CASE Misdirected
  <2>1. UNCHANGED <<parcels, stored, req, doomed>> /\ disk \subseteq disk'
    BY <1>11, <1>a, Stored DEF Misdirected
  <2>2. QED
    BY <2>1 DEF OwnInv, Has, Private, BringsImages
<1>12. CASE Crash
  <2>1. UNCHANGED <<parcels, stored>> /\ \A h \in Handlers : req'[h] = Blank
    BY <1>12 DEF Crash
  <2>2. \A p \in stored : \A f \in Files : Has(p, f)' => Has(p, f)
    BY <1>b, <2>1 DEF Has
  <2>3. QED
    BY <1>b, <2>1, <2>2 DEF OwnInv, BringsImages
<1>13. CASE UNCHANGED vars
  BY <1>13 DEF vars, OwnInv, Has, Private, BringsImages
<1>14. QED
  BY <1>1, <1>2, <1>3, <1>4, <1>5, <1>6, <1>7, <1>8, <1>9, <1>10, <1>11, <1>12, <1>13
     DEF Next, Arrive

\* The images of a parcel are on disk to stay, or its row is about to replace
\* them, or a save of it went wrong.
Safe(p) == parcels[p].imageUrls \subseteq disk \ doomed
Excused(p) ==
    p \in overlapped \cup torn \/ \E h \in Handlers : req[h].p = p /\ Replacing(h)

LEMMA ImagesOnDiskSaid == ImagesOnDisk <=> \A p \in stored : Safe(p) \/ Excused(p)
BY DEF ImagesOnDisk, Safe, Excused

LEMMA DiskStep ==
    ParcelsInv /\ SaveInv /\ OwnInv /\ ImagesOnDisk /\ [Next]_vars => ImagesOnDisk'
<1> SUFFICES ASSUME ParcelsInv, SaveInv, OwnInv, ImagesOnDisk, [Next]_vars
             PROVE  ImagesOnDisk'
  OBVIOUS
<1>a. /\ ParcelsTypeOK /\ \A h \in Handlers : req[h] \in Request /\ StageInv(req[h])
      /\ \A p \in stored : parcels[p].imageUrls \subseteq used
      /\ \A p \in stored : Safe(p) \/ Excused(p)
  BY ImagesOnDiskSaid DEF ParcelsInv, ParcelsTypeOK
<1>b. (\A p \in stored' : Safe(p)' \/ Excused(p)') => ImagesOnDisk'
  BY ImagesOnDiskSaid DEF ImagesOnDisk, Safe, Excused
\* Nothing is lost, and who was replacing images still is or has torn the row.
<1>c. ASSUME UNCHANGED <<parcels, stored>>, disk \ doomed \subseteq disk' \ doomed',
             overlapped \subseteq overlapped', torn \subseteq torn',
             \A h \in Handlers : Replacing(h) =>
                req[h].p \in torn' \/ (Replacing(h)' /\ req'[h].p = req[h].p)
      PROVE  ImagesOnDisk'
  <2>1. ASSUME NEW p \in stored PROVE Safe(p)' \/ Excused(p)'
    <3>1. Safe(p) => Safe(p)'
      BY <1>c DEF Safe
    <3>2. Excused(p) => Excused(p)'
      BY <1>c DEF Excused
    <3>3. QED
      BY <1>a, <3>1, <3>2
  <2>2. QED
    BY <1>b, <1>c, <2>1
<1>d. ASSUME NEW h \in Handlers, NEW r, Enter(h, r),
             Replacing(h) => r.p = req[h].p
                /\ r.at \in {"diff", "write"} /\ Replaces(r),
             UNCHANGED <<parcels, stored, doomed, overlapped, torn>>, disk \subseteq disk'
      PROVE  ImagesOnDisk'
  <2>1. \A g \in Handlers : req'[g] = IF g = h THEN r ELSE req[g]
    BY <1>a, <1>d DEF Enter, ParcelsTypeOK
  <2>2. \A g \in Handlers : Replacing(g) => Replacing(g)' /\ req'[g].p = req[g].p
    BY <1>d, <2>1 DEF Replacing, Replaces
  <2>3. QED
    BY <1>c, <1>d, <2>2
<1>1. ASSUME NEW h \in Handlers, Create(h) PROVE ImagesOnDisk'
  <2>1. disk \subseteq disk' /\ \E r : Enter(h, r)
    BY <1>1, <1>a, Stored DEF Create, Receive
  <2>2. ~ Replacing(h)
    BY <1>1 DEF Create, Receive, Replacing
  <2>3. QED
    BY <1>1, <1>d, <2>1, <2>2 DEF Create
<1>2. ASSUME NEW h \in Handlers, Insert(h) PROVE ImagesOnDisk'
  <2>1. PICK p \in ParcelIds \ stored, shape \in Parsed(req[h]) :
            /\ parcels' = [parcels EXCEPT ![p] = NewRow(req[h], shape)]
            /\ stored' = stored \cup {p}
    BY <1>2 DEF Insert
  <2>2. /\ parcels'[p].imageUrls = req[h].up.images
        /\ \A q \in stored : parcels'[q] = parcels[q]
        /\ \A g \in Handlers : g # h => req'[g] = req[g]
        /\ ~ Replacing(h)
        /\ UNCHANGED <<disk, doomed, overlapped, torn>>
    BY <1>2, <1>a, <2>1 DEF NewRow, Insert, Enter, Replacing, ParcelsTypeOK
  \* the uploads of the request, which nobody else has
  <2>3. Safe(p)'
    BY <2>2 DEF Safe, OwnInv, Private
  <2>4. ASSUME NEW q \in stored PROVE Safe(q)' \/ Excused(q)'
    <3>1. Safe(q) => Safe(q)'
      BY <2>2 DEF Safe
    <3>2. Excused(q) => Excused(q)'
      BY <2>2 DEF Excused, Replacing, Replaces
    <3>3. QED
      BY <1>a, <3>1, <3>2
  <2>5. QED
    BY <1>b, <2>1, <2>3, <2>4
<1>3. ASSUME NEW h \in Handlers, Refuse(h) PROVE ImagesOnDisk'
  <2>1. ~ Replacing(h)
    BY <1>3 DEF Refuse, Replacing
  <2>2. QED
    BY <1>3, <1>d, <2>1 DEF Refuse
<1>4. ASSUME NEW h \in Handlers, Update(h) PROVE ImagesOnDisk'
  <2>1. disk \subseteq disk' /\ \E r : Enter(h, r)
    BY <1>4, <1>a, Stored DEF Update, Receive
  <2>2. ~ Replacing(h)
    BY <1>4 DEF Update, Receive, Replacing
  <2>3. QED
    BY <1>4, <1>d, <2>1, <2>2 DEF Update
\* The images in the row that was read are doomed: they are this parcel's only.
<1>5. ASSUME NEW h \in Handlers, Apply(h) PROVE ImagesOnDisk'
  <2> DEFINE r == req[h]
  <2>1. PICK shape \in IF Parsed(r) = {} THEN {None} ELSE Parsed(r) :
            Enter(h, [r EXCEPT !.at = "diff", !.row = Edited(r, shape)])
    BY <1>5 DEF Apply
  <2> DEFINE q == [r EXCEPT !.at = "diff", !.row = Edited(r, shape)]
  <2>2. /\ r \in Request /\ r.at = "update" /\ r.p \in stored /\ ~ Replacing(h)
        /\ doomed' = doomed \cup ToUnlink(r)
        /\ UNCHANGED <<parcels, stored, disk, overlapped, torn>>
    BY <1>5, <1>a DEF Apply, StageInv, Replacing
  <2>3. q.at = "diff" /\ q.p = r.p /\ q.kind = r.kind /\ q.up = r.up /\ q.dto = r.dto
    BY <2>2 DEF Request
  <2>4. Enter(h, q)
    BY <2>1
  <2> HIDE DEF q
  <2>5. \A g \in Handlers : req'[g] = IF g = h THEN q ELSE req[g]
    BY <1>a, <2>4 DEF Enter, ParcelsTypeOK
  <2>6. ASSUME NEW p \in stored PROVE Safe(p)' \/ Excused(p)'
    <3>1. Excused(p) => Excused(p)'
      BY <2>2, <2>5 DEF Excused, Replacing, Replaces
    <3>2. CASE p = r.p /\ Replaces(r)
      <4>1. Replacing(h)' /\ req'[h].p = p
        BY <2>3, <2>5, <3>2 DEF Replacing, Replaces
      <4>2. QED
        BY <4>1 DEF Excused
    <3>3. CASE ~ Replaces(r)
      BY <1>a, <2>2, <3>1, <3>3 DEF ToUnlink, Safe
    <3>4. CASE p # r.p
      <4>1. ASSUME NEW f \in r.row.imageUrls PROVE f \notin parcels[p].imageUrls
        <5>1. f \in Files /\ Has(r.p, f)
          BY <2>2, <4>1, RequestParts DEF Has
        <5>2. ~ Has(p, f)
          BY <2>2, <3>4, <5>1 DEF OwnInv
        <5>3. QED
          BY <5>2 DEF Has
      <4>2. Safe(p) => Safe(p)'
        BY <2>2, <4>1 DEF Safe, ToUnlink
      <4>3. QED
        BY <1>a, <3>1, <4>2
    <3>5. QED
      BY <3>2, <3>3, <3>4
  <2>7. QED
    BY <1>b, <2>2, <2>6
<1>6. ASSUME NEW f \in Files, Unlink(f) PROVE ImagesOnDisk'
  <2>1. \A h \in Handlers : Replacing(h) => Replacing(h)' /\ req'[h].p = req[h].p
    BY <1>6 DEF Unlink, Replacing, Replaces
  <2>2. QED
    BY <1>6, <1>c, <2>1 DEF Unlink
<1>7. ASSUME NEW h \in Handlers, SoftDelete(h) PROVE ImagesOnDisk'
  <2>1. ~ Replacing(h) /\ \E r : Enter(h, r)
    BY <1>7 DEF SoftDelete, Replacing
  <2>2. QED
    BY <1>7, <1>d, <2>1 DEF SoftDelete
<1>8. ASSUME NEW h \in Handlers, SaveDiff(h) PROVE ImagesOnDisk'
  <2> DEFINE r == req[h]
  <2>1. PICK cols, row : Enter(h, [r EXCEPT !.at = "write", !.cols = cols, !.row = row])
    BY <1>8 DEF SaveDiff
  <2> DEFINE q == [r EXCEPT !.at = "write", !.cols = cols, !.row = row]
  <2>2. q.at = "write" /\ q.p = r.p /\ q.kind = r.kind /\ q.up = r.up /\ q.dto = r.dto
    BY <1>a DEF Request
  <2>3. Replacing(h) => Replaces(q)
    BY <2>2 DEF Replacing, Replaces
  <2>4. UNCHANGED <<parcels, stored, disk, doomed, overlapped, torn>>
    BY <1>8 DEF SaveDiff
  <2>5. Enter(h, q)
    BY <2>1
  <2> HIDE DEF q
  <2>6. QED
    BY <1>d, <2>2, <2>3, <2>4, <2>5
<1>9. ASSUME NEW h \in Handlers, SaveWrite(h) PROVE ImagesOnDisk'
  <2> DEFINE r == req[h]
  <2>1. /\ r \in Request /\ r.at = "write" /\ r.p \in stored /\ r.p \in ParcelIds
        /\ parcels' = [parcels EXCEPT ![r.p] = Written(r)]
        /\ parcels \in [ParcelIds -> Row] /\ stored \subseteq ParcelIds
        /\ overlapped \subseteq overlapped'
        /\ UNCHANGED <<stored, disk, doomed, torn>>
    BY <1>9, <1>a DEF SaveWrite, StageInv, ParcelsTypeOK
  <2>2. ASSUME NEW g \in Handlers, g # h, Replacing(g)
        PROVE  Replacing(g)' /\ req'[g].p = req[g].p
    <3>1. req'[g] \in {req[g], [req[g] EXCEPT !.fresh = FALSE]}
      BY <1>9, <2>2 DEF SaveWrite
    <3>2. /\ req'[g].at = req[g].at /\ req'[g].kind = req[g].kind /\ req'[g].up = req[g].up
          /\ req'[g].dto = req[g].dto /\ req'[g].p = req[g].p
      BY <1>a, <3>1 DEF Request
    <3>3. QED
      BY <2>2, <3>2 DEF Replacing, Replaces
  <2>3. ASSUME NEW p \in stored, p # r.p PROVE Safe(p)' \/ Excused(p)'
    <3>1. Safe(p) => Safe(p)'
      BY <2>1, <2>3 DEF Safe
    <3>2. Excused(p) => Excused(p)'
      BY <2>1, <2>2, <2>3 DEF Excused
    <3>3. QED
      BY <1>a, <3>1, <3>2
  \* The parcel itself: a save that brings images changes the row.
  <2>4. ASSUME NEW p \in stored, p = r.p PROVE Safe(p)' \/ Excused(p)'
    <3>1. SUFFICES ASSUME ~ Excused(p)' PROVE parcels'[p].imageUrls \subseteq disk \ doomed
      BY <2>1 DEF Safe
    <3>2. parcels'[p] = Written(r) /\ r.p \notin overlapped' /\ r.p \notin torn
      BY <2>1, <2>4, <3>1 DEF Excused
    <3>3. \A f \in r.up.images : f \in disk \ doomed /\ f \notin parcels[r.p].imageUrls
      BY <2>1 DEF OwnInv, Private
    <3>4. r.up.images \subseteq Written(r).imageUrls
      BY <1>a, <2>1, WrittenRow, ColumnNames DEF OwnInv, BringsImages
    <3>5. Written(r) = parcels[r.p] \/ Sound(r, Written(r), parcels[r.p], drawn)
      BY <1>9, <3>2, WriteSound
    <3>6. CASE Replaces(r)
      <4>1. Written(r) # parcels[r.p] /\ r.up.images # {} /\ r.kind = "update"
        BY <3>3, <3>4, <3>6 DEF Replaces
      <4>2. "imageUrls" \in Asked(r)
        BY <4>1, ColumnNames DEF Asked
      <4>3. Written(r).imageUrls = r.up.images
        BY <3>5, <3>6, <4>1, <4>2 DEF Sound
      <4>4. QED
        BY <3>2, <3>3, <4>3
    <3>7. CASE ~ Replaces(r)
      <4>1. Safe(p)
        <5>1. ~ Excused(p)
          BY <2>1, <2>2, <2>4, <3>1, <3>7 DEF Excused, Replacing
        <5>2. QED
          BY <1>a, <2>1, <5>1
      <4>2. Written(r).imageUrls \subseteq parcels[r.p].imageUrls \cup r.up.images
        BY <3>5, <3>7, ColumnNames DEF Sound
      <4>3. QED
        BY <2>4, <3>2, <3>3, <4>1, <4>2 DEF Safe
    <3>8. QED
      BY <3>6, <3>7
  <2>5. QED
    BY <1>b, <2>1, <2>3, <2>4
<1>10. ASSUME NEW h \in Handlers, SaveFails(h) PROVE ImagesOnDisk'
  <2>1. /\ UNCHANGED <<parcels, stored, disk, doomed, overlapped>> /\ torn \subseteq torn'
        /\ Replacing(h) => req[h].p \in torn'
        /\ \A g \in Handlers : g # h => req'[g] = req[g]
    BY <1>10, <1>a DEF SaveFails, Enter, ParcelsTypeOK
  <2>2. \A g \in Handlers : Replacing(g) =>
            req[g].p \in torn' \/ (Replacing(g)' /\ req'[g].p = req[g].p)
    BY <2>1 DEF Replacing, Replaces
  <2>3. QED
    BY <1>c, <2>1, <2>2
<1>11. CASE Misdirected
  <2>1. UNCHANGED <<parcels, stored, req, doomed, overlapped, torn>> /\ disk \subseteq disk'
    BY <1>11, <1>a, Stored DEF Misdirected
  <2>2. \A h \in Handlers : Replacing(h) => Replacing(h)' /\ req'[h].p = req[h].p
    BY <2>1 DEF Replacing, Replaces
  <2>3. QED
    BY <1>c, <2>1, <2>2
<1>12. CASE Crash
  <2>1. /\ UNCHANGED <<parcels, stored, disk, overlapped>> /\ torn \subseteq torn' /\ doomed' = {}
        /\ \A h \in Handlers : Replacing(h) => req[h].p \in torn'
    BY <1>12 DEF Crash
  <2>2. QED
    BY <1>c, <2>1
<1>13. CASE UNCHANGED vars
  <2>1. \A h \in Handlers : Replacing(h) => Replacing(h)' /\ req'[h].p = req[h].p
    BY <1>13 DEF vars, Replacing, Replaces
  <2>2. QED
    BY <1>c, <1>13, <2>1 DEF vars
<1>14. QED
  BY <1>1, <1>2, <1>3, <1>4, <1>5, <1>6, <1>7, <1>8, <1>9, <1>10, <1>11, <1>12, <1>13
     DEF Next, Arrive

\* Every image a parcel names is there to be served and not about to go, except
\* while a request that replaces it is on its way, after such a request failed,
\* and where saves overlap: for any number of parcels, files and requests.
THEOREM ImagesStayOnDisk == Spec => []ImagesOnDisk
<1>1. Init => ImagesOnDisk
  BY DEF Init, ImagesOnDisk
<1>2. QED
  BY <1>1, DiskStep, ParcelsInit, ParcelsStep, SaveInit, SaveStep, OwnInit, OwnStep, PTL
     DEF Spec

=============================================================================
