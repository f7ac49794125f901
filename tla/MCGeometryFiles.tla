--------------------------- MODULE MCGeometryFiles ---------------------------
(***************************************************************************)
(* Files for TLC: collections of up to three features, KML documents of up *)
(* to two placemarks (any one beside a polygon, good or bad), archives of  *)
(* up to three entries.                                                    *)
(***************************************************************************)
EXTENDS GeometryFiles

CONSTANTS h1, h2, a, b, c

MCCoordinates == {a, b, c}

G(type, coordinates) == [type |-> type, coordinates |-> coordinates]
FeatureGeometries ==
    {G("Polygon", <<a>>), G("Polygon", <<b>>), G("Point", <<a>>), G("LineString", <<c>>),
     G("MultiPolygon", <<b, c>>),
     [type |-> "GeometryCollection",
      geometries |-> <<G("Point", <<b>>), G("MultiPoint", <<a, c>>)>>]}

D(kind, features) == [kind |-> kind, features |-> features]
Other == D("other", <<>>)
OnePolygon == D("FeatureCollection", <<G("Polygon", <<a>>)>>)
Collections ==
    {D("FeatureCollection", f) : f \in BoundedSeq(FeatureGeometries \cup {None}, 2)}
        \cup {D("FeatureCollection", f) :
                f \in [1..3 -> {G("Polygon", <<a>>), G("Polygon", <<b>>),
                                G("LineString", <<c>>), None}]}
Values ==
    Collections \cup {Other}
        \cup {D(kind, <<g>>) : kind \in {"Feature", "Geometry"}, g \in FeatureGeometries \cup {None}}

\* A polygon with a hole has two nodes.
NodeLists ==
    {<<>>} \cup {<<[pairs |-> n, at |-> a]>> : n \in {0, 1, 2, 4}}
        \cup {<<[pairs |-> 4, at |-> b], [pairs |-> 4, at |-> c]>>}
Placemarks ==
    [elements: {{}, {"Polygon"}, {"LineString"}, {"Point"}, {"Polygon", "LineString"}},
     nodes: NodeLists]
Neighbours ==
    {[elements |-> {"Polygon"}, nodes |-> <<[pairs |-> n, at |-> b]>>] : n \in {2, 4}}
Kmls ==
    [readable: {TRUE}, placemarks: BoundedSeq(Placemarks, 1)
                           \cup {<<p, q>> : p \in Placemarks, q \in Neighbours}
                           \cup {<<p, q>> : p \in Neighbours, q \in Placemarks},
     converted: {OnePolygon}]
        \cup [readable: {TRUE}, placemarks: BoundedSeq(Placemarks, 1),
              converted: {Other, D("FeatureCollection", <<None>>)}]
Unreadable == [readable |-> FALSE, placemarks |-> <<>>, converted |-> Other]
TwoPolygons ==
    [readable |-> TRUE, converted |-> Other,
     placemarks |-> <<[elements |-> {"Polygon"}, nodes |-> <<[pairs |-> 4, at |-> a]>>],
                      [elements |-> {"Polygon"}, nodes |-> <<[pairs |-> 4, at |-> b]>>]>>]

E(kind, content) == [kind |-> kind, content |-> content]
F(kind, entries) == [kind |-> kind, entries |-> entries, layers |-> Other]
PlainFiles ==
    {F("json", <<E("json", d)>>) : d \in Values}
        \cup {F("kml", <<E("kml", k)>>) : k \in Kmls \cup {Unreadable}}
        \cup {F("unsupported", <<>>)}
Archived ==
    {E("other", None), E("kml", TwoPolygons), E("kml", Unreadable),
     E("json", OnePolygon), E("shp", None)}
Archives == {F(kind, e) : kind \in {"zip", "kmz"}, e \in BoundedSeq(Archived, 3)}
Shapefiles ==
    {[kind |-> "zip", entries |-> <<E("other", None), E("shp", None)>>, layers |-> d] :
        d \in Collections \cup {Other}}
Shp == {[kind |-> "shp", entries |-> <<E("shp", None)>>, layers |-> d] :
            d \in {OnePolygon, Other}}

\* The second slot is there for the promise they share.
MCUploads ==
    h1 :> PlainFiles \cup Archives \cup Shapefiles \cup Shp
        @@ h2 :> {F("json", <<E("json", OnePolygon)>>)} \cup Shp
=============================================================================
