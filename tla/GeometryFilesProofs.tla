------------------------ MODULE GeometryFilesProofs ------------------------
(***************************************************************************)
(* Theorems about the geometry of an uploaded file, for any files, any     *)
(* number of requests and any faults: what combining features keeps, which *)
(* document of an archive is read, and the cached promise of the shapefile *)
(* parser.                                                                 *)
(***************************************************************************)
EXTENDS GeometryFiles, SequenceLemmas, FiniteSetTheorems

-----------------------------------------------------------------------------
(* Geometries *)

LEMMA GeometryKinds ==
    /\ \A t \in Simple : MultiOf[t] \in Multis /\ MultiOf[t] \notin Simple
    /\ "GeometryCollection" \notin Simple \cup Multis
BY DEF Simple, Multis, MultiOf

LEMMA DrawnFacts ==
    ASSUME NEW g \in Drawn
    PROVE  /\ g = [type |-> g.type, coordinates |-> g.coordinates]
           /\ g.type \in Simple \cup Multis /\ g.coordinates \in Seq(Coordinates)
           /\ g.type \in Simple => Len(g.coordinates) = 1
BY DEF Drawn

LEMMA DrawnMade ==
    ASSUME NEW t \in Simple \cup Multis, NEW c \in Seq(Coordinates),
           t \in Simple => Len(c) = 1
    PROVE  [type |-> t, coordinates |-> c] \in Drawn
BY DEF Drawn

LEMMA CollectionFacts ==
    ASSUME NEW A, NEW g \in Collection(A)
    PROVE  g.type = "GeometryCollection" /\ g.geometries \in Seq(A) /\ g \notin Drawn
<1>1. g.type = "GeometryCollection" /\ g.geometries \in Seq(A)
  BY DEF Collection
<1> QED
  BY <1>1, GeometryKinds, DrawnFacts

LEMMA FeaturedKinds ==
    ASSUME NEW g \in Featured, g \notin Drawn
    PROVE  g \in Collection(Drawn)
BY DEF Featured

\* A feature of a simple type is drawn with one list of coordinates.
LEMMA SimpleFeature ==
    ASSUME NEW g \in Featured, g.type \in Simple
    PROVE  g \in Drawn /\ g.coordinates \in Seq(Coordinates) /\ Len(g.coordinates) = 1
<1>1. g \in Drawn
  <2> SUFFICES ASSUME g \notin Drawn PROVE FALSE
    OBVIOUS
  <2>1. g.type = "GeometryCollection"
    BY FeaturedKinds, CollectionFacts
  <2> QED
    BY <2>1, GeometryKinds
<1> QED
  BY <1>1, DrawnFacts

\* All features of one simple type, when Types says so.
LEMMA OneType ==
    ASSUME NEW gs \in Seq(Featured), NEW t \in Simple, Types(gs) = {t}
    PROVE  \A i \in 1..Len(gs) :
             /\ gs[i].type = t /\ gs[i] \in Drawn
             /\ gs[i].coordinates \in Seq(Coordinates) /\ Len(gs[i].coordinates) = 1
<1> SUFFICES ASSUME NEW i \in 1..Len(gs)
             PROVE  /\ gs[i].type = t /\ gs[i] \in Drawn
                    /\ gs[i].coordinates \in Seq(Coordinates)
                    /\ Len(gs[i].coordinates) = 1
  OBVIOUS
<1>1. gs[i] \in Featured /\ i \in DOMAIN gs
  OBVIOUS
<1>2. gs[i].type \in Types(gs)
  BY <1>1 DEF Types, ToSet
<1>3. gs[i].type = t
  BY <1>2
<1> QED
  BY <1>1, <1>3, SimpleFeature

\* The coordinates of features of one simple type, put together.
LEMMA MultiCoordinates ==
    ASSUME NEW gs \in Seq(Featured), NEW t \in Simple, Types(gs) = {t},
           NEW all, all = FlattenSeq([i \in DOMAIN gs |-> gs[i].coordinates])
    PROVE  /\ all \in Seq(Coordinates) /\ Len(all) = Len(gs)
           /\ \A i \in 1..Len(gs) : all[i] = gs[i].coordinates[1]
<1> DEFINE cs == [i \in DOMAIN gs |-> gs[i].coordinates]
<1>1. DOMAIN gs = 1..Len(gs) /\ Len(gs) \in Nat
  OBVIOUS
<1>2. cs \in Seq(Seq(Coordinates)) /\ Len(cs) = Len(gs)
      /\ \A i \in 1..Len(gs) : cs[i] = gs[i].coordinates
  <2>1. cs \in [1..Len(gs) -> Seq(Coordinates)]
    BY <1>1, OneType
  <2> QED
    BY <1>1, <2>1
<1>3. \A i \in 1..Len(cs) : Len(cs[i]) = 1
  BY <1>2, OneType
<1>4. all = FlattenSeq(cs)
  OBVIOUS
<1> HIDE DEF cs
<1>5. /\ FlattenSeq(cs) \in Seq(Coordinates) /\ Len(FlattenSeq(cs)) = Len(cs)
      /\ \A i \in 1..Len(cs) : FlattenSeq(cs)[i] = cs[i][1]
  BY <1>2, <1>3, FlattenSingletons
<1> QED
  BY <1>2, <1>4, <1>5

\* Combining features gives a geometry.
LEMMA CombineType ==
    ASSUME NEW gs \in Seq(Featured), gs # <<>>
    PROVE  Combine(gs) \in Geometry
<1>1. CASE Len(gs) = 1
  <2>1. gs[1] \in Featured
    BY <1>1
  <2> QED
    BY <1>1, <2>1 DEF Combine, Geometry
<1>2. CASE Len(gs) # 1 /\ \E t \in Simple : Types(gs) = {t}
  <2>1. PICK t \in Simple : Types(gs) = {t}
    BY <1>2
  <2> DEFINE all == FlattenSeq([i \in DOMAIN gs |-> gs[i].coordinates])
  <2>2. all \in Seq(Coordinates)
    BY <2>1, MultiCoordinates
  <2>3. gs[1].type = t
    <3>1. 1 \in 1..Len(gs)
      OBVIOUS
    <3> QED
      BY <2>1, <3>1, OneType
  <2>4. Combine(gs) = [type |-> MultiOf[t], coordinates |-> all]
    BY <1>2, <2>3 DEF Combine
  <2> HIDE DEF all
  <2>5. [type |-> MultiOf[t], coordinates |-> all] \in Drawn
    BY <2>2, GeometryKinds, DrawnMade
  <2> QED
    BY <2>4, <2>5 DEF Geometry, Featured
<1>3. CASE Len(gs) # 1 /\ ~ \E t \in Simple : Types(gs) = {t}
  <2>1. Combine(gs) = [type |-> "GeometryCollection", geometries |-> gs]
    BY <1>3 DEF Combine
  <2> QED
    BY <2>1 DEF Geometry, Collection
<1> QED
  BY <1>1, <1>2, <1>3

-----------------------------------------------------------------------------
(* What a geometry draws *)

Stroke == Simple \X Coordinates

LEMMA StrokeType ==
    ASSUME NEW t \in Simple, NEW u \in {t, MultiOf[t]}
    PROVE  (CHOOSE s \in Simple : u \in {s, MultiOf[s]}) = t
BY DEF Simple, MultiOf

LEMMA StrokesFacts ==
    ASSUME NEW g \in Drawn, NEW t \in Simple, g.type \in {t, MultiOf[t]}
    PROVE  /\ Strokes(g) \in Seq(Stroke) /\ Len(Strokes(g)) = Len(g.coordinates)
           /\ \A i \in 1..Len(g.coordinates) : Strokes(g)[i] = <<t, g.coordinates[i]>>
<1>1. g.coordinates \in Seq(Coordinates)
  BY DrawnFacts
<1>2. (CHOOSE s \in Simple : g.type \in {s, MultiOf[s]}) = t
  BY StrokeType
<1>3. Strokes(g) = [i \in DOMAIN g.coordinates |-> <<t, g.coordinates[i]>>]
  BY <1>2, Zenon DEF Strokes
<1>4. PICK c \in Seq(Coordinates) : c = g.coordinates
  BY <1>1
<1>5. Strokes(g) = [i \in 1..Len(c) |-> <<t, c[i]>>]
  BY <1>3, <1>4
<1>6. Strokes(g) \in [1..Len(c) -> Stroke] /\ Len(c) \in Nat
  BY <1>5 DEF Stroke
<1>7. Strokes(g) \in Seq(Stroke) /\ Len(Strokes(g)) = Len(c)
  BY <1>6
<1>8. \A i \in 1..Len(c) : Strokes(g)[i] = <<t, c[i]>>
  BY <1>5, Zenon
<1> QED
  BY <1>4, <1>7, <1>8

\* Every drawn geometry has a simple type to draw.
LEMMA DrawnType ==
    ASSUME NEW g \in Drawn
    PROVE  \E t \in Simple : g.type \in {t, MultiOf[t]}
BY DrawnFacts DEF Multis

LEMMA StrokesType ==
    ASSUME NEW g \in Drawn
    PROVE  Strokes(g) \in Seq(Stroke)
BY DrawnType, StrokesFacts

LEMMA PartsOfFeatureType ==
    ASSUME NEW g \in Featured
    PROVE  PartsOfFeature(g) \in Seq(Stroke)
<1>1. CASE g \in Drawn
  BY <1>1, StrokesType DEF PartsOfFeature
<1>2. CASE g \notin Drawn
  <2>1. g.geometries \in Seq(Drawn)
    BY <1>2, FeaturedKinds, CollectionFacts
  <2> DEFINE ss == [i \in DOMAIN g.geometries |-> Strokes(g.geometries[i])]
  <2>2. ss \in Seq(Seq(Stroke))
    <3>1. ss \in [1..Len(g.geometries) -> Seq(Stroke)]
      BY <2>1, StrokesType
    <3> QED
      BY <2>1, <3>1
  <2>3. PartsOfFeature(g) = FlattenSeq(ss)
    BY <1>2 DEF PartsOfFeature
  <2> QED
    BY <2>2, <2>3, FlattenMembers
<1> QED
  BY <1>1, <1>2

LEMMA FeaturePartsTyped ==
    ASSUME NEW gs \in Seq(Featured), NEW ss,
           ss = [i \in DOMAIN gs |-> PartsOfFeature(gs[i])]
    PROVE  /\ ss \in Seq(Seq(Stroke)) /\ Len(ss) = Len(gs)
           /\ \A i \in 1..Len(gs) : ss[i] = PartsOfFeature(gs[i])
<1>1. ss \in [1..Len(gs) -> Seq(Stroke)]
  BY PartsOfFeatureType
<1> QED
  BY <1>1

\* A feature alone has its own parts.
LEMMA PartsOfOne ==
    ASSUME NEW g \in Featured
    PROVE  Parts(g) = PartsOfFeature(g)
<1>1. CASE g \in Drawn
  BY <1>1 DEF Parts, PartsOfFeature
<1>2. CASE g \notin Drawn
  <2>1. g.geometries \in Seq(Drawn)
    BY <1>2, FeaturedKinds, CollectionFacts
  <2>2. [i \in DOMAIN g.geometries |-> PartsOfFeature(g.geometries[i])] =
        [i \in DOMAIN g.geometries |-> Strokes(g.geometries[i])]
    <3>1. \A i \in DOMAIN g.geometries : g.geometries[i] \in Drawn
      BY <2>1
    <3> QED
      BY <3>1 DEF PartsOfFeature
  <2> QED
    BY <1>2, <2>2, Zenon DEF Parts, PartsOfFeature
<1> QED
  BY <1>1, <1>2

\* However features are combined, their parts are all there, once and in order.
LEMMA CombineParts ==
    ASSUME NEW gs \in Seq(Featured), gs # <<>>
    PROVE  Parts(Combine(gs)) = FlattenSeq([i \in DOMAIN gs |-> PartsOfFeature(gs[i])])
<1> DEFINE ss == [i \in DOMAIN gs |-> PartsOfFeature(gs[i])]
<1>0. /\ ss \in Seq(Seq(Stroke)) /\ Len(ss) = Len(gs)
      /\ \A i \in 1..Len(gs) : ss[i] = PartsOfFeature(gs[i])
  BY FeaturePartsTyped
<1>1. CASE Len(gs) = 1
  <2>1. gs[1] \in Featured /\ 1 \in 1..Len(gs)
    BY <1>1
  <2>2. Combine(gs) = gs[1]
    BY <1>1 DEF Combine
  <2>3. ss[1] = PartsOfFeature(gs[1])
    BY <1>0, <2>1
  <2> HIDE DEF ss
  <2>4. FlattenSeq(ss) = ss[1]
    BY <1>0, <1>1, <2>1, <2>3, FlattenOne, PartsOfFeatureType
  <2>5. Parts(Combine(gs)) = FlattenSeq(ss)
    BY <2>1, <2>2, <2>3, <2>4, PartsOfOne
  <2> QED
    BY <2>5 DEF ss
<1>2. CASE Len(gs) # 1 /\ \E t \in Simple : Types(gs) = {t}
  <2>1. PICK t \in Simple : Types(gs) = {t}
    BY <1>2
  <2> DEFINE all == FlattenSeq([i \in DOMAIN gs |-> gs[i].coordinates])
             m == [type |-> MultiOf[t], coordinates |-> all]
  <2>2. /\ all \in Seq(Coordinates) /\ Len(all) = Len(gs)
        /\ \A i \in 1..Len(gs) : all[i] = gs[i].coordinates[1]
    BY <2>1, MultiCoordinates
  <2>3. Combine(gs) = m
    <3>1. 1 \in 1..Len(gs)
      OBVIOUS
    <3>2. gs[1].type = t
      BY <2>1, <3>1, OneType
    <3> QED
      BY <1>2, <3>2 DEF Combine
  <2> HIDE DEF all
  <2>4. m \in Drawn /\ m.type = MultiOf[t] /\ m.coordinates = all
    BY <2>2, GeometryKinds, DrawnMade
  <2> HIDE DEF m, ss
  <2>5. Parts(Combine(gs)) = Strokes(m)
    BY <2>3, <2>4 DEF Parts
  <2>6. /\ Strokes(m) \in Seq(Stroke) /\ Len(Strokes(m)) = Len(gs)
        /\ \A i \in 1..Len(gs) : Strokes(m)[i] = <<t, gs[i].coordinates[1]>>
    <3>1. m.type \in {t, MultiOf[t]}
      BY <2>4
    <3>2. /\ Strokes(m) \in Seq(Stroke) /\ Len(Strokes(m)) = Len(m.coordinates)
          /\ \A i \in 1..Len(m.coordinates) : Strokes(m)[i] = <<t, m.coordinates[i]>>
      BY <2>4, <3>1, StrokesFacts
    <3> QED
      BY <2>2, <2>4, <3>2
  <2>7. \A i \in 1..Len(gs) : Len(ss[i]) = 1 /\ ss[i][1] = <<t, gs[i].coordinates[1]>>
    <3> SUFFICES ASSUME NEW i \in 1..Len(gs)
                 PROVE  Len(ss[i]) = 1 /\ ss[i][1] = <<t, gs[i].coordinates[1]>>
      OBVIOUS
    <3>1. gs[i].type = t /\ gs[i] \in Drawn /\ Len(gs[i].coordinates) = 1
      BY <2>1, OneType
    <3>2. ss[i] = Strokes(gs[i])
      BY <1>0, <3>1 DEF PartsOfFeature
    <3>3. /\ Len(Strokes(gs[i])) = Len(gs[i].coordinates)
          /\ \A k \in 1..Len(gs[i].coordinates) :
                Strokes(gs[i])[k] = <<t, gs[i].coordinates[k]>>
      BY <3>1, StrokesFacts
    <3>4. 1 \in 1..Len(gs[i].coordinates)
      BY <3>1
    <3> QED
      BY <3>1, <3>2, <3>3, <3>4
  <2>8. /\ FlattenSeq(ss) \in Seq(Stroke) /\ Len(FlattenSeq(ss)) = Len(gs)
        /\ \A i \in 1..Len(gs) : FlattenSeq(ss)[i] = ss[i][1]
    <3>1. \A i \in 1..Len(ss) : Len(ss[i]) = 1
      BY <1>0, <2>7
    <3>2. /\ FlattenSeq(ss) \in Seq(Stroke) /\ Len(FlattenSeq(ss)) = Len(ss)
          /\ \A i \in 1..Len(ss) : FlattenSeq(ss)[i] = ss[i][1]
      BY <1>0, <3>1, FlattenSingletons
    <3> QED
      BY <1>0, <3>2
  <2>9. Strokes(m) = FlattenSeq(ss)
    <3>1. \A i \in 1..Len(gs) : Strokes(m)[i] = FlattenSeq(ss)[i]
      BY <2>6, <2>7, <2>8
    <3> QED
      BY <2>6, <2>8, <3>1
  <2> QED
    BY <2>5, <2>9 DEF ss
<1>3. CASE Len(gs) # 1 /\ ~ \E t \in Simple : Types(gs) = {t}
  <2>1. Combine(gs) = [type |-> "GeometryCollection", geometries |-> gs]
    BY <1>3 DEF Combine
  <2>2. Combine(gs) \in Collection(Featured)
    BY <2>1 DEF Collection
  <2>3. Combine(gs) \notin Drawn /\ Combine(gs).geometries = gs
    BY <2>1, <2>2, CollectionFacts
  <2> QED
    BY <2>3, Zenon DEF Parts
<1> QED
  BY <1>1, <1>2, <1>3

-----------------------------------------------------------------------------
(* Values and documents *)

LEMMA MadeSequence ==
    ASSUME NEW A, NEW n \in Nat, NEW f \in [1..n -> A]
    PROVE  f \in Seq(A) /\ Len(f) = n
OBVIOUS

LEMMA OneOrNone ==
    ASSUME NEW A, NEW x \in A
    PROVE  /\ <<>> \in Seq(A) /\ ToSet(<<>>) = {}
           /\ <<x>> \in Seq(A) /\ ToSet(<<x>>) = {x}
<1>1. <<>> \in Seq(A) /\ DOMAIN <<>> = {}
  OBVIOUS
<1>2. <<x>> \in Seq(A) /\ DOMAIN <<x>> = {1} /\ <<x>>[1] = x
  OBVIOUS
<1> QED
  BY <1>1, <1>2 DEF ToSet

\* Present keeps the members of a list and leaves the gaps out.
LEMMA PresentFacts ==
    ASSUME NEW s \in Seq(Featured \cup {None})
    PROVE  /\ Present[s] \in Seq(Featured)
           /\ ToSet(Present[s]) = ToSet(s) \ {None}
<1> DEFINE Kept(i) == IF s[i] = None THEN <<>> ELSE <<s[i]>>
           ss == [i \in DOMAIN s |-> Kept(i)]
<1>1. Len(s) \in Nat /\ DOMAIN s = 1..Len(s)
      /\ \A i \in 1..Len(s) : s[i] \in Featured \cup {None}
  OBVIOUS
<1>2. ASSUME NEW i \in 1..Len(s)
      PROVE  Kept(i) \in Seq(Featured) /\ ToSet(Kept(i)) = {s[i]} \ {None}
  <2>1. CASE s[i] = None
    <3>1. Kept(i) = <<>> /\ {s[i]} \ {None} = {}
      BY <2>1
    <3> QED
      BY <3>1 DEF ToSet
  <2>2. CASE s[i] # None
    <3>1. s[i] \in Featured
      BY <1>1, <2>2
    <3>2. Kept(i) = <<s[i]>> /\ {s[i]} \ {None} = {s[i]}
      BY <2>2
    <3> HIDE DEF Kept
    <3> QED
      BY <3>1, <3>2, OneOrNone
  <2> QED
    BY <2>1, <2>2
<1> HIDE DEF Kept
<1>3. ss \in Seq(Seq(Featured)) /\ Len(ss) = Len(s)
  <2>1. ss \in [1..Len(s) -> Seq(Featured)]
    BY <1>1, <1>2
  <2> HIDE DEF ss
  <2> QED
    BY <1>1, <2>1, MadeSequence
<1>4. \A i \in 1..Len(s) : ss[i] = Kept(i)
  BY <1>1
<1>5. Present[s] = FlattenSeq(ss)
  BY Zenon DEF Present, Kept
<1> HIDE DEF ss
<1>6. /\ FlattenSeq(ss) \in Seq(Featured)
      /\ ToSet(FlattenSeq(ss)) = UNION {ToSet(ss[k]) : k \in 1..Len(s)}
  BY <1>3, FlattenMembers
<1>7. UNION {ToSet(ss[k]) : k \in 1..Len(s)} = {s[k] : k \in 1..Len(s)} \ {None}
  BY <1>2, <1>4
<1>8. ToSet(s) = {s[k] : k \in 1..Len(s)}
  BY <1>1, Zenon DEF ToSet
<1> QED
  BY <1>5, <1>6, <1>7, <1>8

LEMMA ValidFacts ==
    ASSUME NEW data \in Data
    PROVE  /\ Valid(data) \in Seq(Featured)
           /\ ToSet(Valid(data)) = ToSet(data.features) \ {None}
<1>1. data.features \in Seq(Featured \cup {None})
  BY DEF Data
<1> QED
  BY <1>1, PresentFacts DEF Valid

\* A value is refused, or its geometries are combined.
LEMMA ExtractFacts ==
    ASSUME NEW data \in Data
    PROVE  /\ Extract(data) \in {Refused, Found(Combine(Valid(data)))}
           /\ Extract(data) # Refused => Valid(data) # <<>>
           /\ Valid(data) # <<>> /\ data.kind \in {"FeatureCollection", "Feature"} =>
                Extract(data) = Found(Combine(Valid(data)))
<1> DEFINE v == Valid(data)
<1>1. v \in Seq(Featured)
  BY ValidFacts
<1> HIDE DEF v
<1>2. Extract(data) = IF /\ data.kind # "other" /\ v # <<>>
                         /\ data.kind = "Geometry" => "coordinates" \in DOMAIN v[1]
                      THEN Found(Combine(v)) ELSE Refused
  BY <1>1 DEF Extract, v
<1> QED
  BY <1>2 DEF v

LEMMA AnswersDiffer ==
    /\ Refused # Failed
    /\ \A g : Found(g) # Refused /\ Found(g) # Failed /\ Found(g).geometry = g
                /\ Found(g).verdict = "found"
    /\ Refused.verdict # "found" /\ Failed.verdict # "found"
BY DEF Refused, Failed, Found

\* What may be answered about the geometries of a source.
AnswersOf(gs) == {Refused, Failed} \cup {a \in {Found(Combine(gs))} : gs # <<>>}

LEMMA AnswersTyped ==
    ASSUME NEW gs \in Seq(Featured)
    PROVE  AnswersOf(gs) \subseteq Answers
<1>1. gs # <<>> => Combine(gs) \in Geometry
  BY CombineType
<1> QED
  BY <1>1 DEF AnswersOf, Answers, Found

LEMMA ExtractAnswers ==
    ASSUME NEW data \in Data
    PROVE  Extract(data) \in AnswersOf(Valid(data))
BY ExtractFacts DEF AnswersOf

-----------------------------------------------------------------------------
(* KML *)

\* A placemark is drawn with one list of coordinates, or not at all.
LEMMA DrawFacts ==
    ASSUME NEW p \in Placemark
    PROVE  /\ Draw(p) \in Featured \cup {None}
           /\ WellFormed(p) =>
                \E t \in Simple : /\ t \in p.elements
                                  /\ Draw(p) = [type |-> t, coordinates |-> <<p.nodes[1].at>>]
                                  /\ Draw(p) \in Drawn
<1> DEFINE n == IF p.nodes = <<>> THEN 0 ELSE p.nodes[1].pairs
           type == TypeOf(p.elements, n)
<1>1. p.elements \subseteq Simple /\ p.nodes \in Seq(Node)
  BY DEF Placemark
<1>2. Draw(p) = IF type = "none" THEN None
                ELSE [type |-> type, coordinates |-> <<p.nodes[1].at>>]
  BY DEF Draw
<1>3. n \in Nat /\ (n # 0 => p.nodes[1].at \in Coordinates)
  <2>1. PICK ns \in Seq(Node) : ns = p.nodes
    BY <1>1
  <2>2. ns # <<>> => ns[1] \in Node
    OBVIOUS
  <2>3. ns # <<>> => ns[1].pairs \in Nat /\ ns[1].at \in Coordinates
    BY <2>2 DEF Node
  <2> QED
    BY <2>1, <2>3
<1>4. type \in Simple \cup {"none"} /\ (n = 0 => type = "none")
  BY DEF TypeOf, Simple
<1>5. type # "none" => Draw(p) \in Drawn
  <2> SUFFICES ASSUME type # "none" PROVE Draw(p) \in Drawn
    OBVIOUS
  <2>1. PICK c \in Coordinates : c = p.nodes[1].at
    BY <1>3, <1>4
  <2>2. type \in Simple
    BY <1>4
  <2>3. <<c>> \in Seq(Coordinates) /\ Len(<<c>>) = 1
    OBVIOUS
  <2>4. Draw(p) = [type |-> type, coordinates |-> <<c>>]
    BY <1>2, <2>1
  <2> HIDE DEF type
  <2> QED
    BY <2>2, <2>3, <2>4, DrawnMade
<1>6. WellFormed(p) => type \in p.elements
  <2> SUFFICES ASSUME WellFormed(p) PROVE type \in p.elements
    OBVIOUS
  <2>1. n = p.nodes[1].pairs
    BY <1>1 DEF WellFormed
  <2> HIDE DEF n
  <2>2. \/ p.elements = {"Polygon"} /\ n >= 4
        \/ p.elements = {"LineString"} /\ n >= 2
        \/ p.elements = {"Point"} /\ n = 1
    BY <2>1 DEF WellFormed
  <2> QED
    BY <1>3, <2>2 DEF TypeOf
<1> HIDE DEF type, n
<1>7. type \in p.elements => type # "none"
  BY <1>1 DEF Simple
<1> QED
  BY <1>1, <1>2, <1>4, <1>5, <1>6, <1>7 DEF Featured

\* What the manual parser draws of a document.
LEMMA ManualFacts ==
    ASSUME NEW kml \in Kml
    PROVE  /\ ParseKmlManually(kml) \in Data
           /\ ParseKmlManually(kml).kind = "FeatureCollection"
           /\ ToSet(ParseKmlManually(kml).features) =
                {Draw(p) : p \in ToSet(kml.placemarks)} \ {None}
<1> DEFINE drawn == [i \in DOMAIN kml.placemarks |-> Draw(kml.placemarks[i])]
<1>1. kml.placemarks \in Seq(Placemark)
  BY DEF Kml
<1>2. PICK ps \in Seq(Placemark) : ps = kml.placemarks
  BY <1>1
<1>3. Len(ps) \in Nat /\ DOMAIN ps = 1..Len(ps) /\ \A i \in 1..Len(ps) : ps[i] \in Placemark
  OBVIOUS
<1>4. drawn = [i \in 1..Len(ps) |-> Draw(ps[i])]
  BY <1>2, <1>3
<1>5. drawn \in Seq(Featured \cup {None}) /\ Len(drawn) = Len(ps)
  <2>1. drawn \in [1..Len(ps) -> Featured \cup {None}]
    BY <1>3, <1>4, DrawFacts
  <2> HIDE DEF drawn
  <2> QED
    BY <1>3, <2>1, MadeSequence
<1>6. ParseKmlManually(kml) = [kind |-> "FeatureCollection", features |-> Present[drawn]]
  BY Zenon DEF ParseKmlManually
<1>7. ToSet(drawn) = {Draw(p) : p \in ToSet(ps)}
  <2>1. ToSet(drawn) = {drawn[i] : i \in 1..Len(ps)} /\ ToSet(ps) = {ps[i] : i \in 1..Len(ps)}
    BY <1>3, <1>4, Zenon DEF ToSet
  <2>2. \A i \in 1..Len(ps) : drawn[i] = Draw(ps[i])
    BY <1>4
  <2> HIDE DEF drawn
  <2> QED
    BY <2>1, <2>2
<1> HIDE DEF drawn
<1>8. Present[drawn] \in Seq(Featured) /\ ToSet(Present[drawn]) = ToSet(drawn) \ {None}
  BY <1>5, PresentFacts
<1>9. Present[drawn] \in Seq(Featured \cup {None})
  BY <1>8
<1> QED
  BY <1>2, <1>6, <1>7, <1>8, <1>9 DEF Data

LEMMA KmlDataTyped ==
    ASSUME NEW kml \in Kml
    PROVE  KmlData(kml) \in Data
BY ManualFacts DEF KmlData, Kml

LEMMA ParseKmlAnswers ==
    ASSUME NEW kml \in Kml
    PROVE  ParseKml(kml) \in AnswersOf(Valid(KmlData(kml)))
BY KmlDataTyped, ExtractAnswers DEF ParseKml, AnswersOf

-----------------------------------------------------------------------------
(* Files *)

\* FirstOf finds an entry of the kind when there is one.
LEMMA FirstOfFacts ==
    ASSUME NEW entries \in Seq(Entry), NEW kind
    PROVE  /\ FirstOf(entries, kind) \in Nat
           /\ FirstOf(entries, kind) # 0 =>
                /\ FirstOf(entries, kind) \in 1..Len(entries)
                /\ entries[FirstOf(entries, kind)].kind = kind
           /\ \A i \in 1..Len(entries) : entries[i].kind = kind => FirstOf(entries, kind) # 0
<1> DEFINE I == {i \in 1..Len(entries) : entries[i].kind = kind}
<1>1. FirstOf(entries, kind) = IF I # {} THEN Min(I) ELSE 0
  BY Zenon DEF FirstOf, SelectInSeq
<1>2. I # {} => Min(I) \in I
  <2> SUFFICES ASSUME I # {} PROVE Min(I) \in I
    OBVIOUS
  <2>1. I \in SUBSET Nat
    OBVIOUS
  <2> HIDE DEF I
  <2>2. \E m \in I : \A k \in I : m <= k
    BY <2>1, LeastNumber
  <2> QED
    BY <2>2, Zenon DEF Min
<1>3. I \subseteq 1..Len(entries) /\ \A i \in I : entries[i].kind = kind
  OBVIOUS
<1>4. \A i \in 1..Len(entries) : entries[i].kind = kind => i \in I
  OBVIOUS
<1>5. 0 \in Nat /\ \A i \in 1..Len(entries) : i \in Nat /\ i # 0
  OBVIOUS
<1> HIDE DEF I
<1>6. CASE I = {}
  <2>1. FirstOf(entries, kind) = 0
    BY <1>1, <1>6
  <2> QED
    BY <1>4, <1>5, <1>6, <2>1, Zenon
<1>7. CASE I # {}
  <2>1. FirstOf(entries, kind) \in I
    BY <1>1, <1>2, <1>7, Zenon
  <2>2. FirstOf(entries, kind) \in 1..Len(entries)
    BY <1>3, <2>1, Zenon
  <2> QED
    BY <1>3, <1>5, <2>1, <2>2, Zenon
<1> QED
  BY <1>6, <1>7

LEMMA FileFacts ==
    ASSUME NEW file \in File
    PROVE  /\ file.entries \in Seq(Entry) /\ file.layers \in Data
           /\ file.kind \in {"zip", "shp", "kml", "kmz", "json", "unsupported"}
           /\ file.kind \in {"shp", "kml", "json"} =>
                Len(file.entries) = 1 /\ file.entries[1].kind = file.kind
BY DEF File

LEMMA EntryFacts ==
    ASSUME NEW e \in Entry
    PROVE  /\ e.kind \in {"kml", "json", "shp", "other"}
           /\ e.kind = "kml" => e.content \in Kml
           /\ e.kind = "json" => e.content \in Data
BY DEF Entry

\* The entry that is read is a kml entry, or a json entry if no kml is there.
LEMMA ChosenFacts ==
    ASSUME NEW file \in File, Chosen(file) # 0
    PROVE  /\ Chosen(file) \in 1..Len(file.entries)
           /\ file.entries[Chosen(file)] \in Entry
           /\ \/ file.entries[Chosen(file)].kind = "kml"
              \/ /\ file.entries[Chosen(file)].kind = "json" /\ file.kind # "kmz"
                 /\ \A i \in 1..Len(file.entries) : file.entries[i].kind # "kml"
<1>1. PICK es \in Seq(Entry) : es = file.entries
  BY FileFacts
<1>2. \A kind : /\ FirstOf(es, kind) # 0 => FirstOf(es, kind) \in 1..Len(es)
                                            /\ es[FirstOf(es, kind)].kind = kind
                /\ \A i \in 1..Len(es) : es[i].kind = kind => FirstOf(es, kind) # 0
  BY FirstOfFacts
<1>3. \A i \in 1..Len(es) : es[i] \in Entry
  OBVIOUS
<1>4. \/ Chosen(file) = FirstOf(es, "kml")
      \/ FirstOf(es, "kml") = 0 /\ file.kind # "kmz" /\ Chosen(file) = FirstOf(es, "json")
  BY <1>1 DEF Chosen
<1> QED
  BY <1>1, <1>2, <1>3, <1>4

LEMMA ReadEntryAnswers ==
    ASSUME NEW e \in Entry, e.kind \in {"kml", "json"}
    PROVE  LET gs == Valid(IF e.kind = "kml" THEN KmlData(e.content) ELSE e.content) IN
           gs \in Seq(Featured) /\ ReadEntry(e) \in AnswersOf(gs)
<1>1. CASE e.kind = "kml"
  <2>1. e.content \in Kml /\ ReadEntry(e) = ParseKml(e.content)
    BY <1>1, EntryFacts DEF ReadEntry
  <2> QED
    BY <1>1, <2>1, ParseKmlAnswers, KmlDataTyped, ValidFacts
<1>2. CASE e.kind = "json"
  <2>1. e.content \in Data /\ ReadEntry(e) = Extract(e.content)
    BY <1>2, EntryFacts DEF ReadEntry
  <2> QED
    BY <1>2, <2>1, ExtractAnswers, ValidFacts
<1> QED
  BY <1>1, <1>2

\* Nothing but the combination of the source of a file is answered.
Answered(file, answer) ==
    \/ answer \in {Refused, Failed}
    \/ /\ Source(file) \in Seq(Featured) /\ Source(file) # <<>>
       /\ answer = Found(Combine(Source(file)))

LEMMA ReadDocumentAnswered ==
    ASSUME NEW file \in File, ~ IsShapefile(file)
    PROVE  Answered(file, ReadDocument(file))
<1>1. CASE Chosen(file) = 0
  BY <1>1 DEF ReadDocument, Answered
<1>2. CASE Chosen(file) # 0
  <2> DEFINE e == file.entries[Chosen(file)]
             gs == Valid(IF e.kind = "kml" THEN KmlData(e.content) ELSE e.content)
  <2>1. e \in Entry /\ e.kind \in {"kml", "json"}
    BY <1>2, ChosenFacts
  <2>2. gs \in Seq(Featured) /\ ReadEntry(e) \in AnswersOf(gs)
    BY <2>1, ReadEntryAnswers
  <2>3. Source(file) = gs
    BY DEF Source
  <2>4. ReadDocument(file) \in {ReadEntry(e), Refused}
    BY <1>2 DEF ReadDocument
  <2> HIDE DEF gs, e
  <2> QED
    BY <2>2, <2>3, <2>4 DEF Answered, AnswersOf
<1> QED
  BY <1>1, <1>2

LEMMA LayersAnswered ==
    ASSUME NEW file \in File, IsShapefile(file)
    PROVE  Answered(file, Extract(file.layers))
<1>1. file.layers \in Data /\ Source(file) = Valid(file.layers)
  BY FileFacts DEF Source
<1> QED
  BY <1>1, ExtractAnswers, ValidFacts DEF Answered, AnswersOf

LEMMA AnsweredTyped ==
    ASSUME NEW file, NEW answer, Answered(file, answer)
    PROVE  answer \in Answers
<1>1. Refused \in Answers /\ Failed \in Answers
  BY DEF Answers
<1>2. CASE answer \notin {Refused, Failed}
  <2>1. Combine(Source(file)) \in Geometry
    BY <1>2, CombineType DEF Answered
  <2> QED
    BY <1>2, <2>1 DEF Answered, Answers, Found
<1> QED
  BY <1>1, <1>2

-----------------------------------------------------------------------------
(* Requests *)

States == {"idle", "open", "waiting", "done"}
Request == [at: States, file: File \cup {None}, answer: Answers]

\* A request holds the file it was sent until it is answered, waits for the
\* shapefile parser only with a shapefile, and is answered what its file says.
\* PartsPreserved, PlacemarksKept and ArchiveReadsLikeDocument are not inductive:
\* they speak of answers only, not of what the answers are made from.
RequestInv ==
    /\ req \in [Handlers -> Request]
    /\ \A h \in Handlers :
        /\ req[h].at # "idle" => req[h].file \in File
        /\ req[h].at = "waiting" => IsShapefile(req[h].file)
        /\ req[h].at = "done" =>
            IF IsShapefile(req[h].file)
            THEN req[h].answer \in {Extract(req[h].file.layers), Refused}
            ELSE req[h].answer = ReadDocument(req[h].file)

LEMMA IdleTyped == Idle \in Request /\ Idle.at = "idle"
BY DEF Idle, Request, States, Answers

LEMMA RequestInvInit == Init => RequestInv
BY IdleTyped DEF Init, RequestInv

\* One slot changes: the others stay as they are.
LEMMA RequestChange ==
    ASSUME RequestInv, NEW h \in Handlers, NEW r \in Request,
           req' = [req EXCEPT ![h] = r],
           r.at # "idle" => r.file \in File,
           r.at = "waiting" => IsShapefile(r.file),
           r.at = "done" => IF IsShapefile(r.file)
                            THEN r.answer \in {Extract(r.file.layers), Refused}
                            ELSE r.answer = ReadDocument(r.file)
    PROVE  RequestInv'
<1>1. req' \in [Handlers -> Request]
  BY DEF RequestInv
<1>2. \A k \in Handlers : req'[k] = IF k = h THEN r ELSE req[k]
  BY DEF RequestInv
<1>3. ASSUME NEW k \in Handlers
      PROVE  /\ req'[k].at # "idle" => req'[k].file \in File
             /\ req'[k].at = "waiting" => IsShapefile(req'[k].file)
             /\ req'[k].at = "done" =>
                 IF IsShapefile(req'[k].file)
                 THEN req'[k].answer \in {Extract(req'[k].file.layers), Refused}
                 ELSE req'[k].answer = ReadDocument(req'[k].file)
  <2>1. CASE k = h
    <3>1. req'[k] = r
      BY <1>2, <2>1
    <3> QED
      BY <3>1
  <2>2. CASE k # h
    <3>1. req'[k] = req[k]
      BY <1>2, <2>2
    <3> QED
      BY <3>1, Zenon DEF RequestInv
  <2> QED
    BY <2>1, <2>2
<1> QED
  BY <1>1, <1>3, Zenon DEF RequestInv

LEMMA RequestUpdated ==
    ASSUME NEW q \in Request, NEW answer \in Answers
    PROVE  /\ [q EXCEPT !.at = "waiting"] \in Request
           /\ [q EXCEPT !.at = "waiting"].at = "waiting"
           /\ [q EXCEPT !.at = "waiting"].file = q.file
           /\ [q EXCEPT !.at = "done", !.answer = answer] \in Request
           /\ [q EXCEPT !.at = "done", !.answer = answer].at = "done"
           /\ [q EXCEPT !.at = "done", !.answer = answer].file = q.file
           /\ [q EXCEPT !.at = "done", !.answer = answer].answer = answer
BY DEF Request, States

LEMMA AnswerChange ==
    ASSUME RequestInv, NEW h \in Handlers, NEW answer \in Answers, Answer(h, answer)
    PROVE  \E r \in Request : /\ req' = [req EXCEPT ![h] = r]
                             /\ r.at = "done" /\ r.file = req[h].file /\ r.answer = answer
<1>1. PICK q \in Request : q = req[h]
  BY DEF RequestInv
<1>2. PICK r \in Request : /\ r = [q EXCEPT !.at = "done", !.answer = answer]
                          /\ r.at = "done" /\ r.file = q.file /\ r.answer = answer
  <2> DEFINE r == [q EXCEPT !.at = "done", !.answer = answer]
  <2>1. r \in Request /\ r.at = "done" /\ r.file = q.file /\ r.answer = answer
    BY RequestUpdated
  <2> QED
    BY <2>1
<1>3. req' = [req EXCEPT ![h] = [req[h] EXCEPT !.at = "done", !.answer = answer]]
  BY DEF Answer, RequestInv, Request
<1> QED
  BY <1>1, <1>2, <1>3

LEMMA RequestInvStep == RequestInv /\ [Next]_vars => RequestInv'
<1> SUFFICES ASSUME RequestInv, [Next]_vars PROVE RequestInv'
  OBVIOUS
<1>0. ASSUME NEW h \in Handlers
      PROVE  req[h] \in Request /\ (req[h].at # "idle" => req[h].file \in File)
  BY DEF RequestInv
\* A file is sent.
<1>1. ASSUME NEW h \in Handlers, Open(h) PROVE RequestInv'
  <2>1. PICK file \in Uploads[h] :
          req' = [req EXCEPT ![h] = [Idle EXCEPT !.at = "open", !.file = file]]
    BY <1>1 DEF Open
  <2>2. file \in File
    BY <2>1, UploadsAssumption
  <2> DEFINE r == [Idle EXCEPT !.at = "open", !.file = file]
  <2>3. r \in Request /\ r.at = "open" /\ r.file = file
    BY <2>2, IdleTyped DEF Idle, Request, States
  <2> HIDE DEF r
  <2> QED
    BY <2>1, <2>2, <2>3, RequestChange DEF r
\* A document is read.
<1>2. ASSUME NEW h \in Handlers, Parse(h) PROVE RequestInv'
  <2>1. PICK file \in File : file = req[h].file /\ ~ IsShapefile(file)
    BY <1>0, <1>2 DEF Parse
  <2>2. ReadDocument(file) \in Answers
    BY <2>1, ReadDocumentAnswered, AnsweredTyped
  <2>3. Answer(h, ReadDocument(file))
    BY <1>2, <2>1 DEF Parse
  <2>4. PICK r \in Request : /\ req' = [req EXCEPT ![h] = r]
                            /\ r.at = "done" /\ r.file = file /\ r.answer = ReadDocument(file)
    BY <2>1, <2>2, <2>3, AnswerChange
  <2> QED
    BY <2>1, <2>4, RequestChange
\* A shapefile waits for its parser.
<1>3. ASSUME NEW h \in Handlers, LoadShapefileParser(h) PROVE RequestInv'
  <2> DEFINE r == [req[h] EXCEPT !.at = "waiting"]
  <2>1. req[h].file \in File /\ IsShapefile(req[h].file)
    BY <1>0, <1>3 DEF LoadShapefileParser
  <2>2. req' = [req EXCEPT ![h] = r]
    BY <1>0, <1>3 DEF LoadShapefileParser
  <2>3. r \in Request /\ r.at = "waiting" /\ r.file = req[h].file
    BY <1>0, RequestUpdated DEF Answers
  <2> HIDE DEF r
  <2> QED
    BY <2>1, <2>2, <2>3, RequestChange
\* The layers are read, or the parser cannot be had.
<1>4. ASSUME NEW h \in Handlers, ParseShapefile(h) PROVE RequestInv'
  <2>1. req[h].file \in File /\ IsShapefile(req[h].file)
    BY <1>0, <1>4 DEF ParseShapefile, RequestInv
  <2>2. PICK a \in {Extract(req[h].file.layers), Refused} : Answer(h, a)
    BY <1>4 DEF ParseShapefile
  <2>3. a \in Answers
    <3>1. Answered(req[h].file, a)
      BY <2>1, <2>2, LayersAnswered DEF Answered
    <3> QED
      BY <3>1, AnsweredTyped
  <2>4. PICK r \in Request : /\ req' = [req EXCEPT ![h] = r]
                            /\ r.at = "done" /\ r.file = req[h].file /\ r.answer = a
    BY <2>2, <2>3, AnswerChange
  <2> QED
    BY <2>1, <2>2, <2>4, RequestChange
<1>5. ASSUME NEW h \in Handlers, Return(h) PROVE RequestInv'
  <2>1. req' = [req EXCEPT ![h] = Idle]
    BY <1>5 DEF Return
  <2> QED
    BY <2>1, IdleTyped, RequestChange
<1>6. CASE ImportSettles
  BY <1>6 DEF ImportSettles, RequestInv
<1>7. CASE Restart
  BY <1>7, IdleTyped DEF Restart, RequestInv
<1>8. CASE UNCHANGED vars
  BY <1>8 DEF vars, RequestInv
<1> QED
  BY <1>1, <1>2, <1>3, <1>4, <1>5, <1>6, <1>7, <1>8 DEF Next

LEMMA RequestsAnswered == Spec => []RequestInv
<1>1. Init => RequestInv
  BY RequestInvInit
<1>2. RequestInv /\ [Next]_vars => RequestInv'
  BY RequestInvStep
<1> QED
  BY <1>1, <1>2, PTL DEF Spec

\* A file that was answered, and the answer.
LEMMA DoneAnswered ==
    ASSUME RequestInv, NEW h \in Handlers, req[h].at = "done"
    PROVE  req[h].file \in File /\ Answered(req[h].file, req[h].answer)
<1>1. req[h].file \in File
  BY DEF RequestInv
<1>2. CASE IsShapefile(req[h].file)
  <2>1. req[h].answer \in {Extract(req[h].file.layers), Refused}
    BY <1>2 DEF RequestInv
  <2> QED
    BY <1>1, <1>2, <2>1, LayersAnswered DEF Answered
<1>3. CASE ~ IsShapefile(req[h].file)
  <2>1. req[h].answer = ReadDocument(req[h].file)
    BY <1>3 DEF RequestInv
  <2> QED
    BY <1>1, <1>3, <2>1, ReadDocumentAnswered
<1> QED
  BY <1>1, <1>2, <1>3

\* However many features of whatever types a file holds, each part of each of
\* them is in the one geometry it becomes, once, as what it was, in order, and
\* nothing else is.
THEOREM NothingLostInCombining == Spec => []PartsPreserved
<1>1. RequestInv => PartsPreserved
  <2> SUFFICES ASSUME RequestInv, NEW h \in Handlers, HasFound(h)
               PROVE  Parts(req[h].answer.geometry) =
                        FlattenSeq([i \in DOMAIN Source(req[h].file) |->
                                      PartsOfFeature(Source(req[h].file)[i])])
    BY Zenon DEF PartsPreserved
  <2>1. req[h].at = "done" /\ req[h].answer.verdict = "found"
    BY DEF HasFound
  <2> DEFINE gs == Source(req[h].file)
  <2>2. gs \in Seq(Featured) /\ gs # <<>> /\ req[h].answer.geometry = Combine(gs)
    BY <2>1, DoneAnswered, AnswersDiffer DEF Answered
  <2> HIDE DEF gs
  <2>3. Parts(Combine(gs)) = FlattenSeq([i \in DOMAIN gs |-> PartsOfFeature(gs[i])])
    BY <2>2, CombineParts
  <2> QED
    BY <2>2, <2>3, Zenon DEF gs
<1> QED
  BY <1>1, RequestsAnswered, PTL

\* The parts of a member are among the parts of the combination.
LEMMA MemberParts ==
    ASSUME NEW gs \in Seq(Featured), NEW g \in ToSet(gs), NEW x \in ToSet(PartsOfFeature(g))
    PROVE  gs # <<>> /\ x \in ToSet(Parts(Combine(gs)))
<1>1. PICK k \in 1..Len(gs) : gs[k] = g
  BY DEF ToSet
<1>2. gs # <<>>
  <2> SUFFICES ASSUME gs = <<>> PROVE FALSE
    OBVIOUS
  <2>1. Len(gs) = 0
    OBVIOUS
  <2> QED
    BY <1>1, <2>1
<1> DEFINE ss == [i \in DOMAIN gs |-> PartsOfFeature(gs[i])]
<1>3. /\ ss \in Seq(Seq(Stroke)) /\ Len(ss) = Len(gs)
      /\ \A i \in 1..Len(gs) : ss[i] = PartsOfFeature(gs[i])
  BY FeaturePartsTyped
<1>4. Parts(Combine(gs)) = FlattenSeq(ss)
  BY <1>2, CombineParts
<1> HIDE DEF ss
<1>5. ToSet(FlattenSeq(ss)) = UNION {ToSet(ss[i]) : i \in 1..Len(gs)}
  BY <1>3, FlattenMembers
<1>6. ss[k] = PartsOfFeature(g)
  BY <1>1, <1>3
<1> QED
  BY <1>1, <1>2, <1>4, <1>5, <1>6

\* The one entry of a list of one is found by its kind.
LEMMA OnlyEntry ==
    ASSUME NEW es \in Seq(Entry), Len(es) = 1, NEW kind
    PROVE  FirstOf(es, kind) = IF es[1].kind = kind THEN 1 ELSE 0
<1>1. \A i \in 1..Len(es) : i = 1
  OBVIOUS
<1>2. 1 \in 1..Len(es)
  OBVIOUS
<1>3. /\ FirstOf(es, kind) # 0 => /\ FirstOf(es, kind) \in 1..Len(es)
                                  /\ es[FirstOf(es, kind)].kind = kind
      /\ \A i \in 1..Len(es) : es[i].kind = kind => FirstOf(es, kind) # 0
  BY FirstOfFacts
<1> QED
  BY <1>1, <1>2, <1>3, Zenon

\* A well-formed placemark is drawn, and what is drawn of it is in the answer.
LEMMA PlacemarkFound ==
    ASSUME NEW kml \in Kml, kml.readable,
           NEW p \in ToSet(kml.placemarks), WellFormed(p)
    PROVE  \E g : /\ ParseKml(kml) = Found(g)
                  /\ \E t \in p.elements : <<t, p.nodes[1].at>> \in ToSet(Parts(g))
<1>1. p \in Placemark
  <2>1. PICK ps \in Seq(Placemark) : ps = kml.placemarks
    BY DEF Kml
  <2>2. PICK i \in 1..Len(ps) : p = ps[i]
    BY <2>1 DEF ToSet
  <2> QED
    BY <2>2
<1>2. PICK t \in Simple : /\ t \in p.elements
                         /\ Draw(p) = [type |-> t, coordinates |-> <<p.nodes[1].at>>]
                         /\ Draw(p) \in Drawn
  BY <1>1, DrawFacts
<1>3. Draw(p) \in Featured /\ Draw(p) # None
  BY <1>2, GeometryNoneAssumption DEF Featured
<1> DEFINE manual == ParseKmlManually(kml)
           gs == Valid(manual)
<1>4. /\ Draw(p) \in ToSet(manual.features) /\ manual \in Data
      /\ manual.kind = "FeatureCollection"
  BY <1>3, ManualFacts
<1>5. KmlData(kml) = manual
  <2>1. manual.features # <<>>
    <3> SUFFICES ASSUME manual.features = <<>> PROVE FALSE
      OBVIOUS
    <3>1. ToSet(manual.features) = {}
      BY DEF ToSet
    <3> HIDE DEF manual
    <3> QED
      BY <1>4, <3>1
  <2> QED
    BY <2>1, Zenon DEF KmlData
<1> HIDE DEF manual
<1>6. gs \in Seq(Featured) /\ Draw(p) \in ToSet(gs)
  BY <1>3, <1>4, ValidFacts
<1>7. <<t, p.nodes[1].at>> \in ToSet(PartsOfFeature(Draw(p)))
  <2>1. PICK g \in Drawn : g = Draw(p)
    BY <1>2
  <2>2. g.type = t /\ g.coordinates = <<p.nodes[1].at>>
    BY <1>2, <2>1
  <2>3. /\ Strokes(g) \in Seq(Stroke) /\ Len(Strokes(g)) = Len(g.coordinates)
        /\ \A i \in 1..Len(g.coordinates) : Strokes(g)[i] = <<t, g.coordinates[i]>>
    BY <2>2, StrokesFacts
  <2>4. Len(g.coordinates) = 1 /\ g.coordinates[1] = p.nodes[1].at
    BY <2>2
  <2>5. 1 \in DOMAIN Strokes(g) /\ Strokes(g)[1] = <<t, p.nodes[1].at>>
    BY <2>3, <2>4
  <2>6. PartsOfFeature(Draw(p)) = Strokes(g)
    BY <1>2, <2>1 DEF PartsOfFeature
  <2> QED
    BY <2>5, <2>6, Zenon DEF ToSet
<1> HIDE DEF gs
<1>8. gs # <<>> /\ <<t, p.nodes[1].at>> \in ToSet(Parts(Combine(gs)))
  BY <1>6, <1>7, MemberParts
<1>9. Extract(manual) = Found(Combine(gs))
  BY <1>4, <1>8, ExtractFacts DEF gs
<1>10. ParseKml(kml) = Found(Combine(gs))
  BY <1>5, <1>9 DEF ParseKml
<1> QED
  BY <1>2, <1>8, <1>10

\* A plain kml file is read from its one entry.
LEMMA PlainKml ==
    ASSUME NEW file \in File, file.kind = "kml"
    PROVE  /\ ~ IsShapefile(file) /\ file.entries[1].content \in Kml
           /\ ReadDocument(file) = ParseKml(file.entries[1].content)
<1>1. PICK es \in Seq(Entry) : es = file.entries /\ Len(es) = 1 /\ es[1].kind = "kml"
  BY FileFacts
<1>2. es[1] \in Entry
  BY <1>1
<1>3. es[1].content \in Kml
  BY <1>1, <1>2, EntryFacts
<1>4. FirstOf(es, "kml") = 1
  BY <1>1, OnlyEntry
<1>5. Chosen(file) = 1
  BY <1>1, <1>4 DEF Chosen
<1>6. ReadEntry(es[1]) = ParseKml(es[1].content)
  BY <1>1 DEF ReadEntry
<1>7. ReadDocument(file) = ReadEntry(es[1])
  BY <1>1, <1>5 DEF ReadDocument
<1> QED
  BY <1>1, <1>3, <1>6, <1>7 DEF IsShapefile

\* Whatever else is in a KML document, its well-formed placemarks are in the
\* geometry as the type they declare: a bad placemark neither has the file
\* refused nor takes its neighbours with it.
THEOREM WellFormedPlacemarksKept == Spec => []PlacemarksKept
<1>1. RequestInv => PlacemarksKept
  <2> SUFFICES ASSUME RequestInv, NEW h \in Handlers,
                      req[h].at = "done" /\ req[h].file.kind = "kml",
                      req[h].file.entries[1].content.readable,
                      NEW p \in ToSet(req[h].file.entries[1].content.placemarks),
                      WellFormed(p)
               PROVE  /\ HasFound(h)
                      /\ \E type \in p.elements :
                           <<type, p.nodes[1].at>> \in ToSet(Parts(req[h].answer.geometry))
    BY Zenon DEF PlacemarksKept
  <2> DEFINE kml == req[h].file.entries[1].content
  <2>1. req[h].file \in File
    BY DEF RequestInv
  <2>2. ~ IsShapefile(req[h].file) /\ kml \in Kml /\ ReadDocument(req[h].file) = ParseKml(kml)
    BY <2>1, PlainKml
  <2>3. req[h].answer = ParseKml(kml)
    BY <2>2 DEF RequestInv
  <2>4. PICK g : /\ ParseKml(kml) = Found(g)
                 /\ \E t \in p.elements : <<t, p.nodes[1].at>> \in ToSet(Parts(g))
    BY <2>2, PlacemarkFound
  <2>5. req[h].answer.verdict = "found" /\ req[h].answer.geometry = g
    BY <2>3, <2>4, AnswersDiffer
  <2> QED
    BY <2>4, <2>5 DEF HasFound
<1> QED
  BY <1>1, RequestsAnswered, PTL

\* A document alone is read as the entry it is.
LEMMA PlainDocument ==
    ASSUME NEW e \in Entry, e.kind \in {"kml", "json"}
    PROVE  ReadDocument(Plain(e)) =
             IF ReadEntry(e) = Failed /\ e.kind # "kml" THEN Refused ELSE ReadEntry(e)
<1>1. PICK es \in Seq(Entry) : es = <<e>> /\ Len(es) = 1 /\ es[1] = e
  <2>1. <<e>> \in Seq(Entry) /\ Len(<<e>>) = 1 /\ <<e>>[1] = e
    OBVIOUS
  <2> QED
    BY <2>1, Zenon
<1>2. Plain(e).entries = es /\ Plain(e).kind = e.kind
  BY <1>1 DEF Plain
<1>3. /\ FirstOf(es, "kml") = IF e.kind = "kml" THEN 1 ELSE 0
      /\ FirstOf(es, "json") = IF e.kind = "json" THEN 1 ELSE 0
  BY <1>1, OnlyEntry
<1>4. Chosen(Plain(e)) = 1
  BY <1>2, <1>3 DEF Chosen
<1> QED
  BY <1>1, <1>2, <1>4 DEF ReadDocument

\* The entry that is read of an archive is one of its documents, if it has any.
LEMMA ChosenDocument ==
    ASSUME NEW file \in File, file.kind \in {"zip", "kmz"}, Documents(file) # {}
    PROVE  Chosen(file) # 0 /\ file.entries[Chosen(file)] \in Documents(file)
<1>1. PICK es \in Seq(Entry) : es = file.entries
  BY FileFacts
<1>2. ToSet(es) = {es[i] : i \in 1..Len(es)}
  BY DEF ToSet
<1>3. Chosen(file) # 0
  <2>1. PICK d \in Documents(file) : TRUE
    OBVIOUS
  <2>2. PICK k \in 1..Len(es) : es[k] = d
    BY <1>1, <1>2, <2>1 DEF Documents
  <2>3. d.kind = "kml" \/ (d.kind = "json" /\ file.kind = "zip")
    BY <2>1 DEF Documents
  <2>4. FirstOf(es, d.kind) # 0
    BY <2>2, FirstOfFacts
  <2> QED
    BY <1>1, <2>3, <2>4 DEF Chosen
<1>4. PICK e \in Entry : /\ e = file.entries[Chosen(file)] /\ e \in ToSet(es)
                        /\ \/ e.kind = "kml"
                           \/ /\ e.kind = "json" /\ file.kind # "kmz"
                              /\ \A i \in 1..Len(es) : es[i].kind # "kml"
  BY <1>1, <1>2, <1>3, ChosenFacts
<1>5. e.kind = "kml" \/ (e.kind = "json" /\ file.kind = "zip"
                          /\ "kml" \notin {d.kind : d \in ToSet(es)})
  BY <1>2, <1>4
<1> QED
  BY <1>1, <1>3, <1>4, <1>5 DEF Documents

\* An archive that is not a shapefile is answered as one of its documents alone
\* would be, whatever lies beside it and in whatever order.
THEOREM ArchivesReadLikeDocuments == Spec => []ArchiveReadsLikeDocument
<1>1. RequestInv => ArchiveReadsLikeDocument
  <2> SUFFICES ASSUME RequestInv, NEW h \in Handlers,
                      req[h].at = "done", req[h].file.kind \in {"zip", "kmz"},
                      ~ IsShapefile(req[h].file), Documents(req[h].file) # {}
               PROVE  \E e \in Documents(req[h].file) :
                        \/ req[h].answer = ReadDocument(Plain(e))
                        \/ req[h].answer = Refused /\ ReadDocument(Plain(e)) = Failed
    BY Zenon DEF ArchiveReadsLikeDocument
  <2>1. PICK file \in File : file = req[h].file
    BY DEF RequestInv
  <2>2. req[h].answer = ReadDocument(file)
    BY <2>1 DEF RequestInv
  <2>3. Chosen(file) # 0 /\ file.entries[Chosen(file)] \in Documents(file)
    BY <2>1, ChosenDocument
  <2>4. PICK e \in Entry : e = file.entries[Chosen(file)] /\ e.kind \in {"kml", "json"}
    BY <2>3, ChosenFacts
  <2>5. ReadDocument(file) = IF ReadEntry(e) = Failed THEN Refused ELSE ReadEntry(e)
    BY <2>1, <2>3, <2>4 DEF ReadDocument
  <2>6. ReadDocument(Plain(e)) =
          IF ReadEntry(e) = Failed /\ e.kind # "kml" THEN Refused ELSE ReadEntry(e)
    BY <2>4, PlainDocument
  <2>7. \/ ReadDocument(file) = ReadDocument(Plain(e))
        \/ ReadDocument(file) = Refused /\ ReadDocument(Plain(e)) = Failed
    BY <2>5, <2>6, Zenon
  <2> QED
    BY <2>1, <2>2, <2>3, <2>4, <2>7, Zenon
<1> QED
  BY <1>1, RequestsAnswered, PTL

-----------------------------------------------------------------------------
(* The promise of the shapefile parser *)

\* The promise is made once and settles once.  OneParserPerProcess alone is not
\* inductive: it does not say that an import leaves the promise made, nor that
\* what a request was told is how the promise stands.
ParserInv ==
    /\ shapefileParserPromise \in {"none", "importing", "ready", "rejected"}
    /\ imports = IF shapefileParserPromise = "none" THEN 0 ELSE 1
    /\ told \subseteq {shapefileParserPromise} \cap {"ready", "rejected"}

LEMMA ParserInvImplies == ParserInv => OneParserPerProcess
<1> SUFFICES ASSUME ParserInv PROVE OneParserPerProcess
  OBVIOUS
<1>1. imports <= 1
  BY DEF ParserInv
<1>2. Cardinality(told) <= 1
  <2>1. told = {} \/ told = {shapefileParserPromise}
    BY DEF ParserInv
  <2>2. Cardinality({}) = 0
    BY FS_EmptySet
  <2>3. Cardinality({shapefileParserPromise}) = 1
    BY FS_Singleton
  <2> QED
    BY <2>1, <2>2, <2>3
<1> QED
  BY <1>1, <1>2 DEF OneParserPerProcess

LEMMA ParserInvInit == Init => ParserInv
BY DEF Init, ParserInv

LEMMA ParserInvStep == ParserInv /\ [Next]_vars => ParserInv'
<1> SUFFICES ASSUME ParserInv, [Next]_vars PROVE ParserInv'
  OBVIOUS
<1> USE DEF ParserInv
<1>1. ASSUME NEW h \in Handlers, Open(h) PROVE ParserInv'
  BY <1>1 DEF Open
<1>2. ASSUME NEW h \in Handlers, Parse(h) PROVE ParserInv'
  BY <1>2 DEF Parse
\* Only the first request makes the promise, and nobody has been told before.
<1>3. ASSUME NEW h \in Handlers, LoadShapefileParser(h) PROVE ParserInv'
  BY <1>3 DEF LoadShapefileParser, MustImport
\* A request is told how the promise stands.
<1>4. ASSUME NEW h \in Handlers, ParseShapefile(h) PROVE ParserInv'
  BY <1>4 DEF ParseShapefile, Settled
<1>5. ASSUME NEW h \in Handlers, Return(h) PROVE ParserInv'
  BY <1>5 DEF Return
\* The promise changes while nobody has been told anything.
<1>6. CASE ImportSettles
  BY <1>6 DEF ImportSettles
<1>7. CASE Restart
  BY <1>7 DEF Restart
<1>8. CASE UNCHANGED vars
  BY <1>8 DEF vars
<1> QED
  BY <1>1, <1>2, <1>3, <1>4, <1>5, <1>6, <1>7, <1>8 DEF Next

\* Requests that arrive during the import of shpjs wait for it instead of
\* starting their own, and all requests of a process see it end the same way:
\* a failed import stays the answer until a restart.
THEOREM ParserLoadedOnce == Spec => []OneParserPerProcess
<1>1. Init => ParserInv
  BY ParserInvInit
<1>2. ParserInv /\ [Next]_vars => ParserInv'
  BY ParserInvStep
<1>3. ParserInv => OneParserPerProcess
  BY ParserInvImplies
<1> QED
  BY <1>1, <1>2, <1>3, PTL DEF Spec

\* Requests, files and answers keep their form: whatever a file holds, what
\* is answered about it is a geometry, a refusal or an error.
THEOREM GeometryTyped == Spec => []GeometryTypeOK
<1>1. RequestInv /\ ParserInv => GeometryTypeOK
  <2> SUFFICES ASSUME RequestInv, ParserInv PROVE GeometryTypeOK
    OBVIOUS
  <2>1. imports \in Nat /\ told \subseteq {"ready", "rejected"}
    BY DEF ParserInv
  <2>2. ASSUME NEW h \in Handlers
        PROVE  /\ DOMAIN req[h] = DOMAIN Idle
               /\ req[h].at \in {"idle", "open", "waiting", "done"}
               /\ req[h].at # "idle" => req[h].file \in File
               /\ req[h].answer \in Answers
    <3>1. req[h] \in Request
      BY DEF RequestInv
    <3>2. DOMAIN req[h] = DOMAIN Idle
      BY <3>1 DEF Request, Idle
    <3> QED
      BY <3>1, <3>2 DEF RequestInv, Request, States
  <2> QED
    BY <2>1, <2>2 DEF GeometryTypeOK, ParserInv
<1>2. Init => ParserInv
  BY ParserInvInit
<1>3. ParserInv /\ [Next]_vars => ParserInv'
  BY ParserInvStep
<1> QED
  BY <1>1, <1>2, <1>3, RequestsAnswered, PTL DEF Spec
=============================================================================
