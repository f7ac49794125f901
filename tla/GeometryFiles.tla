---------------------------- MODULE GeometryFiles ----------------------------
(***************************************************************************)
(* geometry-file.util: the geometry of an uploaded file.                   *)
(*                                                                         *)
(* The pure part turns a file into one geometry.  What the libraries make  *)
(* of bytes is part of the file: the value JSON.parse, shpjs and toGeoJSON *)
(* return, the placemarks xmldom finds.  The stateful part is the promise  *)
(* of the shapefile parser, which all requests of a process share.         *)
(***************************************************************************)
EXTENDS Naturals, FiniteSets, SequencesExt

CONSTANTS
    Handlers,    \* slots of requests in flight
    Uploads,     \* the files each slot may be sent
    Coordinates, \* what a coordinates list or a coordinates node says
    Faults,      \* what may go wrong
    None         \* no geometry

ASSUME GeometryFaultsAssumption == Faults \subseteq {"import", "crash"}

-----------------------------------------------------------------------------
(* Geometries *)

Simple == {"Point", "LineString", "Polygon"}
MultiOf == [Point |-> "MultiPoint", LineString |-> "MultiLineString",
            Polygon |-> "MultiPolygon"]
Multis == {MultiOf[t] : t \in Simple}

\* A simple geometry draws one thing: its coordinates are a list of one.
Drawn == {g \in [type: Simple \cup Multis, coordinates: Seq(Coordinates)] :
            g.type \in Simple => Len(g.coordinates) = 1}

\* A file may hold collections; combining them nests them once more.
Collection(gs) == [type: {"GeometryCollection"}, geometries: Seq(gs)]
Featured == Drawn \cup Collection(Drawn)
Geometry == Featured \cup Collection(Featured)

ASSUME GeometryNoneAssumption == None \notin Featured

Types(gs) == {g.type : g \in ToSet(gs)}

\* Mutation: it is enough that one of them is of the type.
CombineAny(gs) ==
    IF Len(gs) = 1 THEN gs[1]
    ELSE IF Types(gs) \cap Simple # {}
    THEN [type |-> MultiOf[CHOOSE t \in Simple : t \in Types(gs)],
          coordinates |-> FlattenSeq([i \in DOMAIN gs |->
              IF "coordinates" \in DOMAIN gs[i] THEN gs[i].coordinates ELSE <<>>])]
    ELSE [type |-> "GeometryCollection", geometries |-> gs]

\* Mutation: the geometry keeps the type of its parts.
CombineKeepsType(gs) ==
    IF Len(gs) = 1 THEN gs[1]
    ELSE IF \E t \in Simple : Types(gs) = {t}
    THEN [type |-> gs[1].type,
          coordinates |-> FlattenSeq([i \in DOMAIN gs |-> gs[i].coordinates])]
    ELSE [type |-> "GeometryCollection", geometries |-> gs]

\* combineGeometries
Combine(gs) ==
    IF Len(gs) = 1 THEN gs[1]
    ELSE IF \E t \in Simple : Types(gs) = {t}
    THEN [type |-> MultiOf[gs[1].type],
          coordinates |-> FlattenSeq([i \in DOMAIN gs |-> gs[i].coordinates])]
    ELSE [type |-> "GeometryCollection", geometries |-> gs]

\* The answer to a request: a geometry, a BadRequestException, or an error
\* that is none.
Found(g) == [verdict |-> "found", geometry |-> g]
Refused == [verdict |-> "refused", geometry |-> None]
Failed == [verdict |-> "failed", geometry |-> None]
Answers == [verdict: {"found"}, geometry: Geometry] \cup {Refused, Failed}

\* A value as the libraries return it.  A Feature and a geometry hold one
\* geometry or none; "other" is any other value, or an error instead of one.
Data == [kind: {"FeatureCollection", "Feature", "Geometry", "other"},
         features: Seq(Featured \cup {None})]

\* What is there in a list with gaps, in order.
Present[s \in Seq(Featured \cup {None})] ==
    FlattenSeq([i \in DOMAIN s |-> IF s[i] = None THEN <<>> ELSE <<s[i]>>])

\* the geometries of a value
Valid(data) == Present[data.features]

\* extractAndCombineGeometries: it takes no other value, a collection needs a
\* geometry, and a geometry that is no feature needs coordinates.
Extract(data) ==
    LET answer[gs \in Seq(Featured)] ==
            IF /\ data.kind # "other" /\ gs # <<>>
               /\ data.kind = "Geometry" => "coordinates" \in DOMAIN gs[1]
            THEN Found(Combine(gs)) ELSE Refused IN
    answer[Valid(data)]

-----------------------------------------------------------------------------
(* KML *)

\* A coordinates node, by the pairs of numbers in it, and a placemark, by the
\* elements it contains.
Node == [pairs: Nat, at: Coordinates]
Placemark == [elements: SUBSET Simple, nodes: Seq(Node)]

\* converted: what toGeoJSON makes of the document
Kml == [readable: BOOLEAN, placemarks: Seq(Placemark), converted: Data]

\* The type of a placemark with n pairs; none when it is skipped.
TypeOf(elements, n) ==
    IF n = 0 \/ ("Polygon" \in elements /\ n < 4) THEN "none"
    ELSE IF "Polygon" \in elements THEN "Polygon"
    ELSE IF "LineString" \in elements /\ n >= 2 THEN "LineString"
    ELSE IF n = 1 THEN "Point"
    ELSE IF n >= 4 THEN "Polygon" ELSE "LineString"

\* Only the first coordinates node of a placemark is read.
Draw(placemark) ==
    LET pairs == IF placemark.nodes = <<>> THEN 0 ELSE placemark.nodes[1].pairs
        type == TypeOf(placemark.elements, pairs) IN
    IF type = "none" THEN None
    ELSE [type |-> type, coordinates |-> <<placemark.nodes[1].at>>]

\* Mutation: a placemark that cannot be drawn ends the loop.
ParseUntilBad(kml) ==
    LET drawn == [i \in DOMAIN kml.placemarks |-> Draw(kml.placemarks[i])]
        bad == SelectInSeq(drawn, LAMBDA g : g = None) IN
    [kind |-> "FeatureCollection",
     features |-> IF bad = 0 THEN drawn ELSE SubSeq(drawn, 1, bad - 1)]

\* parseKmlManually
ParseKmlManually(kml) ==
    [kind |-> "FeatureCollection",
     features |-> Present[[i \in DOMAIN kml.placemarks |-> Draw(kml.placemarks[i])]]]

\* the document as features: toGeoJSON is the fallback when nothing was drawn
KmlData(kml) ==
    IF ParseKmlManually(kml).features # <<>> THEN ParseKmlManually(kml) ELSE kml.converted

\* parseKmlString: xmldom throws on what it cannot read
ParseKml(kml) == IF kml.readable THEN Extract(KmlData(kml)) ELSE Failed

-----------------------------------------------------------------------------
(* Files *)

\* A plain file holds itself; a file that is not supported or cannot be
\* unpacked holds nothing.  layers: what shpjs makes of the whole file.
Entry == [kind: {"kml"}, content: Kml] \cup [kind: {"json"}, content: Data]
             \cup [kind: {"shp", "other"}, content: {None}]
File == {f \in [kind: {"zip", "shp", "kml", "kmz", "json", "unsupported"},
                entries: Seq(Entry), layers: Data] :
            /\ f.kind \in {"shp", "kml", "json"} =>
                Len(f.entries) = 1 /\ f.entries[1].kind = f.kind
            /\ f.kind = "unsupported" => f.entries = <<>>}

ASSUME UploadsAssumption == \A h \in Handlers : Uploads[h] \subseteq File

\* The index of the first entry of a kind; 0 without one.
FirstOf(entries, kind) == SelectInSeq(entries, LAMBDA e : e.kind = kind)

\* A shapefile, or an archive with one, goes to shpjs as a whole.
IsShapefile(file) ==
    file.kind = "shp" \/ (file.kind = "zip" /\ FirstOf(file.entries, "shp") # 0)

\* Mutation: the index in the list of kml and json entries is used in the list
\* of all entries.
ChosenAmongDocuments(file) ==
    LET documents == SelectSeq(file.entries, LAMBDA e : e.kind \in {"kml", "json"}) IN
    IF FirstOf(documents, "kml") # 0 THEN FirstOf(documents, "kml")
    ELSE IF file.kind = "kmz" THEN 0 ELSE FirstOf(file.entries, "json")

\* The entry that is read: the first kml, or without one the first json; no json
\* in a kmz.
Chosen(file) ==
    IF FirstOf(file.entries, "kml") # 0 THEN FirstOf(file.entries, "kml")
    ELSE IF file.kind = "kmz" THEN 0 ELSE FirstOf(file.entries, "json")

ReadEntry(entry) ==
    CASE entry.kind = "kml" -> ParseKml(entry.content)
      [] entry.kind = "json" -> Extract(entry.content)
      [] OTHER -> Refused

\* parseGeometryFile turns every error into a BadRequestException, except those
\* of a plain kml file.
ReadDocument(file) ==
    LET answer == IF Chosen(file) = 0 THEN Refused
                  ELSE ReadEntry(file.entries[Chosen(file)]) IN
    IF answer = Failed /\ file.kind # "kml" THEN Refused ELSE answer

-----------------------------------------------------------------------------
(* Requests *)

VARIABLES
    shapefileParserPromise, \* of the process: none, importing, ready, rejected
    req,                    \* the request in each slot
    imports,                \* history: imports of shpjs in this process
    told                    \* history: how the promise settled for those who awaited it

vars == <<shapefileParserPromise, req, imports, told>>

Files == UNION {Uploads[h] : h \in Handlers}

Idle == [at |-> "idle", file |-> None, answer |-> Refused]

\* Requests, their files and answers are well formed.
GeometryTypeOK ==
    /\ shapefileParserPromise \in {"none", "importing", "ready", "rejected"}
    /\ \A h \in Handlers :
        /\ DOMAIN req[h] = DOMAIN Idle
        /\ req[h].at \in {"idle", "open", "waiting", "done"}
        /\ req[h].at # "idle" => req[h].file \in File
        /\ req[h].answer \in Answers
    /\ imports \in Nat
    /\ told \subseteq {"ready", "rejected"}

\* parseGeometryFile is called with a file multer has stored.
Open(h) ==
    /\ req[h].at = "idle"
    /\ \E file \in Uploads[h] :
        req' = [req EXCEPT ![h] = [Idle EXCEPT !.at = "open", !.file = file]]
    /\ UNCHANGED <<shapefileParserPromise, imports, told>>

Answer(h, answer) ==
    req' = [req EXCEPT ![h].at = "done", ![h].answer = answer]

Parse(h) ==
    /\ req[h].at = "open" /\ ~ IsShapefile(req[h].file)
    /\ Answer(h, ReadDocument(req[h].file))
    /\ UNCHANGED <<shapefileParserPromise, imports, told>>

\* Mutation: the import is repeated until one has succeeded.
MustImportAgain(promise) == promise # "ready"

MustImport(promise) == promise = "none"

\* loadShapefileParser up to its await: test and assignment are one step.
LoadShapefileParser(h) ==
    /\ req[h].at = "open" /\ IsShapefile(req[h].file)
    /\ IF MustImport(shapefileParserPromise)
       THEN shapefileParserPromise' = "importing" /\ imports' = imports + 1
       ELSE UNCHANGED <<shapefileParserPromise, imports>>
    /\ req' = [req EXCEPT ![h].at = "waiting"]
    /\ UNCHANGED told

\* import('shpjs') and the search for a function among its exports
ImportSettles ==
    /\ shapefileParserPromise = "importing"
    /\ shapefileParserPromise' \in {"ready"} \cup
           (IF "import" \in Faults THEN {"rejected"} ELSE {})
    /\ UNCHANGED <<req, imports, told>>

\* Mutation: a rejection is not passed on.
SettledWell(promise) == promise = "ready"

Settled(promise) == promise \in {"ready", "rejected"}

\* The await returns or throws; the parser reads the file.
ParseShapefile(h) ==
    /\ req[h].at = "waiting" /\ Settled(shapefileParserPromise)
    /\ Answer(h, IF shapefileParserPromise = "ready" THEN Extract(req[h].file.layers)
                 ELSE Refused)
    /\ told' = told \cup {shapefileParserPromise}
    /\ UNCHANGED <<shapefileParserPromise, imports>>

\* The answer goes back to ParcelsService.
Return(h) ==
    /\ req[h].at = "done"
    /\ req' = [req EXCEPT ![h] = Idle]
    /\ UNCHANGED <<shapefileParserPromise, imports, told>>

\* The process dies and another one starts.
Restart ==
    /\ "crash" \in Faults
    /\ shapefileParserPromise' = "none"
    /\ req' = [h \in Handlers |-> Idle]
    /\ imports' = 0 /\ told' = {}

-----------------------------------------------------------------------------
Init ==
    /\ shapefileParserPromise = "none"
    /\ req = [h \in Handlers |-> Idle]
    /\ imports = 0 /\ told = {}

Next ==
    \/ \E h \in Handlers :
        Open(h) \/ Parse(h) \/ LoadShapefileParser(h) \/ ParseShapefile(h)
        \/ Return(h)
    \/ ImportSettles
    \/ Restart

\* Reading a file and importing a module end; nobody has to send a file.
Fairness ==
    /\ \A h \in Handlers : WF_vars(Parse(h) \/ LoadShapefileParser(h) \/ ParseShapefile(h))
    /\ WF_vars(ImportSettles)

Spec == Init /\ [][Next]_vars /\ Fairness

-----------------------------------------------------------------------------
(* Properties *)

\* What a geometry draws, as pairs of a simple type and coordinates, in order.
Strokes(g) ==
    LET type == CHOOSE t \in Simple : g.type \in {t, MultiOf[t]} IN
    [i \in DOMAIN g.coordinates |-> <<type, g.coordinates[i]>>]
PartsOfFeature(g) ==
    IF g \in Drawn THEN Strokes(g)
    ELSE FlattenSeq([i \in DOMAIN g.geometries |-> Strokes(g.geometries[i])])
Parts(g) ==
    IF g \in Drawn THEN Strokes(g)
    ELSE FlattenSeq([i \in DOMAIN g.geometries |-> PartsOfFeature(g.geometries[i])])

\* the geometries of the document or the layers a file is read from
Source(file) ==
    IF IsShapefile(file) THEN Valid(file.layers)
    ELSE LET entry == file.entries[Chosen(file)] IN
         Valid(IF entry.kind = "kml" THEN KmlData(entry.content) ELSE entry.content)

HasFound(h) == req[h].at = "done" /\ req[h].answer.verdict = "found"

\* A file with several features becomes "a single parcel geometry": however it
\* is combined, each part of each feature is in it once, as what it was, in
\* order, and nothing else is.
PartsPreserved ==
    \A h \in Handlers : HasFound(h) =>
        LET source == Source(req[h].file) IN
        Parts(req[h].answer.geometry) =
            FlattenSeq([i \in DOMAIN source |-> PartsOfFeature(source[i])])

\* A placemark that declares one element and one list of coordinates that fits it.
WellFormed(p) ==
    /\ Len(p.nodes) = 1
    /\ \/ p.elements = {"Polygon"} /\ p.nodes[1].pairs >= 4
       \/ p.elements = {"LineString"} /\ p.nodes[1].pairs >= 2
       \/ p.elements = {"Point"} /\ p.nodes[1].pairs = 1

\* Whatever else is in a KML document, its well-formed placemarks are in the
\* geometry, as the type they declare: the file is not refused, and a bad
\* placemark does not take its neighbours with it.
PlacemarksKept ==
    \A h \in Handlers : req[h].at = "done" /\ req[h].file.kind = "kml" =>
        LET kml == req[h].file.entries[1].content IN
        kml.readable => \A p \in ToSet(kml.placemarks) : WellFormed(p) =>
            /\ HasFound(h)
            /\ \E type \in p.elements :
                <<type, p.nodes[1].at>> \in ToSet(Parts(req[h].answer.geometry))

Plain(entry) == [kind |-> entry.kind, entries |-> <<entry>>, layers |-> None]

\* The documents an archive should be read from: its kml documents; without
\* one, the json documents of a zip.
Documents(file) ==
    LET kinds == {e.kind : e \in ToSet(file.entries)} IN
    {e \in ToSet(file.entries) :
        e.kind = "kml" \/ (e.kind = "json" /\ "kml" \notin kinds /\ file.kind = "zip")}

\* An archive that is not a shapefile is answered as one of its documents alone
\* would be, whatever lies beside it and in whatever order.
ArchiveReadsLikeDocument ==
    \A h \in Handlers :
        LET file == req[h].file IN
        /\ req[h].at = "done" /\ file.kind \in {"zip", "kmz"} /\ ~ IsShapefile(file)
        /\ Documents(file) # {}
        => \E e \in Documents(file) :
            \/ req[h].answer = ReadDocument(Plain(e))
            \/ req[h].answer = Refused /\ ReadDocument(Plain(e)) = Failed

\* Requests that arrive during the import wait for it instead of starting their
\* own, and all requests of a process are told the same: shapefiles can be read
\* or they cannot, until a restart.
OneParserPerProcess == imports <= 1 /\ Cardinality(told) <= 1

\* Every request is answered, if the process lives: whether the import succeeds
\* or not, nobody waits for it forever.
EveryFileAnswered ==
    \A h \in Handlers : req[h].at \in {"open", "waiting"} ~> req[h].at \in {"idle", "done"}
=============================================================================
