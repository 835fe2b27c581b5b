------------------------ MODULE BufferReports_proofs ------------------------
(***************************************************************************)
(* Proofs about BufferReports, for every descriptor, backend pitch, guess  *)
(* and HDR value: the sizes of a buffer, computed by the allocator and     *)
(* again by the importer, agree and hold its planes; and a query decodes a *)
(* value the type had while it ran.                                        *)
(***************************************************************************)
EXTENDS BufferReports, MetadataCodec_proofs

-----------------------------------------------------------------------------
(* Arithmetic of the alignment macros. *)

\* An aligned number is a natural number, no less than the number.
LEMMA AlignUp ==
  ASSUME NEW a \in Nat, NEW b \in Nat \ {0}
  PROVE  ALIGN(a, b) \in Nat /\ ALIGN(a, b) >= a
<1>1. PICK q \in Nat : q = (a + b - 1) \div b
  OBVIOUS
<1>2. q * b >= a
  BY <1>1
<1>3. q * b \in Nat
  OBVIOUS
<1> QED
  BY <1>1, <1>2, <1>3 DEF ALIGN

\* DIV_ROUND_UP loses nothing: that many pieces of size d hold n.
LEMMA RoundUp ==
  ASSUME NEW n \in Nat, NEW d \in Nat \ {0}
  PROVE  DIV_ROUND_UP(n, d) \in Nat /\ DIV_ROUND_UP(n, d) * d >= n
BY DEF DIV_ROUND_UP

\* ... and no smaller number of pieces does.
LEMMA RoundUpLeast ==
  ASSUME NEW n \in Nat, NEW d \in Nat \ {0}, NEW k \in Nat, k * d <= n
  PROVE  k <= DIV_ROUND_UP(n, d)
BY DEF DIV_ROUND_UP

\* Chroma rows: as many for an odd height as for the even one above it, and
\* twice as many hold the height.
LEMMA ChromaRows ==
  ASSUME NEW h \in Nat
  PROVE  /\ ALIGN(h, 2) \div 2 = DIV_ROUND_UP(h, 2)
         /\ DIV_ROUND_UP(h, 2) \in Nat
         /\ h <= 2 * DIV_ROUND_UP(h, 2)
         /\ h % 2 = 0 => h = 2 * DIV_ROUND_UP(h, 2)
BY DEF ALIGN, DIV_ROUND_UP

\* A chroma row, aligned to 16, is no more than half of the luma row, aligned
\* to 32, which is an even number.
LEMMA ChromaStride ==
  ASSUME NEW w \in Nat
  PROVE  /\ ALIGN(w \div 2, 16) \in Nat
         /\ 2 * ALIGN(w \div 2, 16) <= ALIGN(w, 32)
         /\ 2 * (ALIGN(w, 32) \div 2) = ALIGN(w, 32)
         /\ DIV_ROUND_UP((ALIGN(w, 32) \div 2) * 16, 8) = ALIGN(w, 32)
BY DEF ALIGN, DIV_ROUND_UP

\* Products keep an order.
LEMMA ProductMonotone ==
  ASSUME NEW a \in Nat, NEW b \in Nat, NEW c \in Nat, a <= b
  PROVE  a * c <= b * c /\ a * c \in Nat /\ b * c \in Nat
OBVIOUS

\* A luma plane of h rows and two chroma planes of r, the first of which starts
\* half a luma plane's worth of chroma rows after the luma plane ends, fit in
\* h + r rows of the object.
LEMMA PlanesFit ==
  ASSUME NEW w \in Nat, NEW h \in Nat, NEW r \in Nat, NEW c \in Nat, NEW S \in Nat,
         w <= S, 2 * c <= S, h <= 2 * r
  PROVE  w * h + (c * h) \div 2 + c * r <= S * (h + r)
<1>1. w * h <= S * h /\ w * h \in Nat /\ S * h \in Nat
  BY ProductMonotone
<1>2. (2 * c) * r <= S * r /\ S * r \in Nat
  BY ProductMonotone
<1>3. c * h \in Nat /\ c * r \in Nat /\ (2 * c) * r = 2 * (c * r)
  OBVIOUS
<1>4. c * h <= 2 * (c * r)
  <2>1. h * c <= (2 * r) * c
    BY ProductMonotone
  <2> QED
    BY <2>1
<1>5. S * (h + r) = S * h + S * r
  OBVIOUS
<1>6. \A x, y \in Nat : x <= 2 * y => x \div 2 <= y /\ x \div 2 \in Nat
  OBVIOUS
<1>7. (c * h) \div 2 <= c * r /\ (c * h) \div 2 \in Nat
  BY <1>3, <1>4, <1>6
<1> QED
  <2>1. \A x, y, z, u, v \in Nat : x <= u /\ y <= z /\ 2 * z <= v => x + y + z <= u + v
    OBVIOUS
  <2> QED
    BY <1>1, <1>2, <1>3, <1>5, <1>7, <2>1

-----------------------------------------------------------------------------
(* Sizes. *)

\* The sizes the assumption gives a request.
LEMMA DescriptorSizes ==
  ASSUME NEW d \in Descriptors
  PROVE  /\ d.width \in Nat \ {0} /\ d.height \in Nat \ {0}
         /\ d # NoBuffer
BY ReportsAssumption DEF NoBuffer

\* The size of a cursor is one.
LEMMA CursorSizes ==
  ASSUME NEW n \in Nat
  PROVE  CursorSize(n) \in Nat /\ CursorSize(n) >= n
<1>1. AtLeast(n, 64) \in Nat /\ AtLeast(n, 64) >= n
  BY DEF AtLeast
<1> QED
  BY <1>1, AlignUp DEF CursorSize

\* The bits of a pixel, the bytes of a pixel, and the bits of one in the first
\* plane.
LEMMA PixelSizes ==
  ASSUME NEW f
  PROVE  /\ gralloc_gm_get_bpp_from_gbm_format(f) \in {0, 8, 12, 16, 24, 32, 64}
         /\ BitsInFirstPlane(f) \in {0, 8, 12, 16, 24, 32, 64}
         /\ gralloc_gm_get_bytes_per_pixel(f) \in {1, 2, 3, 4, 8}
BY DEF gralloc_gm_get_bpp_from_gbm_format, BitsInFirstPlane, gralloc_gm_get_bytes_per_pixel

\* A row of the backend's object is a number of bytes that holds the bits of
\* every pixel asked for, and so is the stride in pixels the allocator returns.
LEMMA StrideSizes ==
  ASSUME NEW size, size.width \in Nat, NEW f, NEW pitch \in Pitches
  PROVE  /\ BoStride(size, f, pitch) \in Nat
         /\ BoStride(size, f, pitch) >= DIV_ROUND_UP(size.width * BitsInFirstPlane(f), 8)
         /\ \A g : gralloc_gm_android_caculate_pixel_stride(g, BoStride(size, f, pitch)) \in Nat
<1>1. pitch \in Nat \ {0}
  BY ReportsAssumption
<1>2. BitsInFirstPlane(f) \in Nat
  BY PixelSizes
<1>3. size.width * BitsInFirstPlane(f) \in Nat
  BY <1>2
<1>4. DIV_ROUND_UP(size.width * BitsInFirstPlane(f), 8) \in Nat
  BY <1>3, RoundUp
<1>5. /\ BoStride(size, f, pitch) \in Nat
      /\ BoStride(size, f, pitch) >= DIV_ROUND_UP(size.width * BitsInFirstPlane(f), 8)
  BY <1>1, <1>4, AlignUp DEF BoStride
<1>6. \A g : gralloc_gm_get_bytes_per_pixel(g) \in Nat \ {0}
  BY PixelSizes
<1> QED
  BY <1>5, <1>6, RoundUp DEF gralloc_gm_android_caculate_pixel_stride

\* Both computations of the size of the buffer give sizes.
LEMMA BufferSizes ==
  ASSUME NEW d, d.width \in Nat, d.height \in Nat
  PROVE  /\ AllocationSize(d).width \in Nat /\ AllocationSize(d).height \in Nat
         /\ ImportSize(d).width \in Nat /\ ImportSize(d).height \in Nat
<1>1. /\ CursorSize(d.width) \in Nat /\ CursorSize(d.height) \in Nat
  BY CursorSizes
<1>2. /\ ALIGN(d.width, 32) \in Nat /\ ALIGN(d.height, 2) \in Nat
  BY AlignUp
<1>3. /\ ALIGN(d.width, 32) \div 2 \in Nat /\ ALIGN(d.height, 2) \div 2 \in Nat
  BY <1>2
<1> HIDE DEF CursorSize
<1> QED
  BY <1>1, <1>3 DEF AllocationSize, ImportSize

\* The allocator and the importer compute the same size but for the cursors of a
\* format that never carries GBM's cursor flag.
LEMMA SameSize ==
  ASSUME NEW d, ~OddCursor(d)
  PROVE  /\ ImportSize(d).width = AllocationSize(d).width
         /\ ImportSize(d).height = AllocationSize(d).height
<1>1. ASSUME d.format = "YV12"
      PROVE  "CURSOR" \notin gralloc_gm_get_gbm_flags_from_android_usage(d.usage, d.format)
  BY <1>1 DEF gralloc_gm_get_gbm_flags_from_android_usage, GbmFormatOf,
              gralloc_gm_android_format_to_gbm_format
<1>2. ASSUME d.format # "YV12"
      PROVE  "CURSOR" \in gralloc_gm_get_gbm_flags_from_android_usage(d.usage, d.format)
               <=> "CURSOR" \in d.usage
  BY <1>2 DEF gralloc_gm_get_gbm_flags_from_android_usage, OddCursor
<1> HIDE DEF CursorSize
<1> QED
  BY <1>1, <1>2 DEF AllocationSize, ImportSize

-----------------------------------------------------------------------------
(* What the mapper provides can be encoded. *)

\* s has n elements.
HasLength(s, n) == n \in Nat /\ s = [i \in 1..n |-> s[i]]

\* It is a sequence.
LEMMA LengthOf ==
  ASSUME NEW n, NEW s, HasLength(s, n)
  PROVE  Len(s) = n
<1> DEFINE V == {s[i] : i \in 1..n}
<1>1. n \in Nat /\ s \in [1..n -> V] /\ DOMAIN s = 1..n
  BY DEF HasLength
<1> HIDE DEF V
<1>2. s \in Seq(V)
  BY <1>1, SeqDef
<1>3. DOMAIN s = 1..Len(s) /\ Len(s) \in Nat
  BY <1>2, LenProperties
<1> QED
  BY <1>1, <1>3

\* A plane of GetPlaneLayoutsMap has at most four components.
SmallPlane(p) == Len(p.components) \in 0..4

\* So have those written out,
LEMMA SmallPlanes ==
  /\ \A order, bits, increment : Len(order) \in 0..4 => SmallPlane(Rgb(order, bits, increment))
  /\ \A components, increment, subsampling :
       Len(components) \in 0..4 => SmallPlane(Plane(components, increment, subsampling))
  /\ SmallPlane(Luma)
  /\ \A first, second : SmallPlane(Chroma(first, second))
<1>1. ASSUME NEW components, NEW increment, NEW subsampling, Len(components) \in 0..4
      PROVE  SmallPlane(Plane(components, increment, subsampling))
  BY <1>1 DEF SmallPlane, Plane
<1>2. ASSUME NEW order, NEW bits, NEW increment, Len(order) \in 0..4
      PROVE  SmallPlane(Rgb(order, bits, increment))
  <2> DEFINE s == [i \in 1..Len(order) |-> <<order[i], (i - 1) * bits, bits>>]
  <2>1. HasLength(s, Len(order))
    BY <1>2 DEF HasLength
  <2>2. Rgb(order, bits, increment) = Plane(s, increment, 1)
    BY DEF Rgb
  <2> HIDE DEF s
  <2>3. Len(s) \in 0..4
    BY <1>2, <2>1, LengthOf
  <2> QED
    BY <1>1, <2>2, <2>3
<1>3. SmallPlane(Luma)
  <2>1. Len(<< <<"Y", 0, 8>> >>) \in 0..4
    OBVIOUS
  <2> QED
    BY <1>1, <2>1 DEF Luma
<1>4. ASSUME NEW first, NEW second
      PROVE  SmallPlane(Chroma(first, second))
  <2>1. Len(<< <<first, 0, 8>>, <<second, 8, 8>> >>) \in 0..4
    OBVIOUS
  <2> QED
    BY <1>1, <2>1 DEF Chroma
<1> QED
  BY <1>1, <1>2, <1>3, <1>4

\* and a format at most three planes.
SmallPlaneLayouts(planes) ==
  Len(planes) \in 0..3 /\ \A i \in 1..Len(planes) : SmallPlane(planes[i])

\* Lists of up to three such planes.
LEMMA SmallLists ==
  ASSUME NEW a, NEW b, NEW c, SmallPlane(a), SmallPlane(b), SmallPlane(c)
  PROVE  /\ SmallPlaneLayouts(<<a>>) /\ SmallPlaneLayouts(<<a, b>>)
         /\ SmallPlaneLayouts(<<a, b, c>>) /\ SmallPlaneLayouts(<<>>)
<1>1. /\ Len(<<a>>) = 1 /\ Len(<<a, b>>) = 2 /\ Len(<<a, b, c>>) = 3 /\ Len(<<>>) = 0
      /\ <<a>>[1] = a /\ <<a, b>>[1] = a /\ <<a, b>>[2] = b
      /\ <<a, b, c>>[1] = a /\ <<a, b, c>>[2] = b /\ <<a, b, c>>[3] = c
  OBVIOUS
<1> HIDE DEF SmallPlane
<1> QED
  BY <1>1 DEF SmallPlaneLayouts

\* getPlaneLayouts, of any format.
LEMMA SmallFormats ==
  ASSUME NEW g
  PROVE  SmallPlaneLayouts(getPlaneLayouts(g))
<1> USE DEF RgbaLayouts, SemiPlanarLayouts, RgbLayouts, OtherLayouts
<1>1. CASE g \in DOMAIN RgbaLayouts
  <2> DEFINE rgba == <<"R", "G", "B", "A">>
             bgra == <<"B", "G", "R", "A">>
             tens == << <<"R", 0, 10>>, <<"G", 10, 10>>, <<"B", 20, 10>>, <<"A", 30, 2>> >>
  <2>1. Len(rgba) \in 0..4 /\ Len(bgra) \in 0..4 /\ Len(tens) \in 0..4
    OBVIOUS
  <2>2. getPlaneLayouts(g) \in {<<Rgb(rgba, 8, 32)>>, <<Plane(tens, 32, 1)>>,
                                <<Rgb(rgba, 16, 64)>>, <<Rgb(bgra, 8, 32)>>}
    BY <1>1 DEF getPlaneLayouts
  <2> HIDE DEF rgba, bgra, tens
  <2> QED
    BY <2>1, <2>2, SmallPlanes, SmallLists
<1>2. CASE g \in DOMAIN SemiPlanarLayouts
  <2>1. getPlaneLayouts(g) \in {<<Luma, Chroma("CB", "CR")>>, <<Luma, Chroma("CR", "CB")>>}
    BY <1>2 DEF getPlaneLayouts
  <2> QED
    BY <2>1, SmallPlanes, SmallLists
<1>3. CASE g \in DOMAIN RgbLayouts
  <2> DEFINE red == <<"R">>
             rgb == <<"R", "G", "B">>
             packed == << <<"B", 0, 5>>, <<"G", 5, 6>>, <<"R", 11, 5>> >>
  <2>1. Len(red) \in 0..4 /\ Len(rgb) \in 0..4 /\ Len(packed) \in 0..4
    OBVIOUS
  <2>2. getPlaneLayouts(g) \in {<<Rgb(red, 8, 8)>>, <<Rgb(red, 16, 16)>>, <<Plane(packed, 16, 1)>>,
                                <<Rgb(rgb, 8, 24)>>, <<Rgb(rgb, 8, 32)>>}
    BY <1>3 DEF getPlaneLayouts
  <2> HIDE DEF red, rgb, packed
  <2> QED
    BY <2>1, <2>2, SmallPlanes, SmallLists
<1>4. CASE g \in DOMAIN OtherLayouts
  <2> DEFINE cr == << <<"CR", 0, 8>> >>
             cb == << <<"CB", 0, 8>> >>
             bgr == << <<"B", 16, 8>>, <<"G", 8, 8>>, <<"R", 0, 8>> >>
  <2>1. Len(cr) \in 0..4 /\ Len(cb) \in 0..4 /\ Len(bgr) \in 0..4
    OBVIOUS
  <2>2. getPlaneLayouts(g) \in {<<Luma, Plane(cr, 8, 2), Plane(cb, 8, 2)>>, <<Plane(bgr, 32, 1)>>}
    BY <1>4 DEF getPlaneLayouts
  <2> HIDE DEF cr, cb, bgr
  <2> QED
    BY <2>1, <2>2, SmallPlanes, SmallLists
<1>5. CASE /\ g \notin DOMAIN RgbaLayouts /\ g \notin DOMAIN SemiPlanarLayouts
           /\ g \notin DOMAIN RgbLayouts /\ g \notin DOMAIN OtherLayouts
  <2>1. getPlaneLayouts(g) = <<>>
    <3> HIDE DEF RgbaLayouts, SemiPlanarLayouts, RgbLayouts, OtherLayouts
    <3> QED
      BY <1>5 DEF getPlaneLayouts
  <2> QED
    BY <2>1, SmallPlanes, SmallLists
<1> QED
  BY <1>1, <1>2, <1>3, <1>4, <1>5

\* The plane layouts of a buffer.
LEMMA SmallPlaneValues ==
  ASSUME NEW hnd
  PROVE  IsSmall("layouts", PlaneLayouts(hnd))
<1> DEFINE planes == getPlaneLayouts(gralloc_gm_android_format_to_gbm_format(hnd.format))
           Of(p) == [j \in 1..Len(p.components) |->
                       [type |-> ComponentType(p.components[j][1]),
                        offsetInBits |-> p.components[j][2], sizeInBits |-> p.components[j][3]]]
           Numbers(p) == <<0, p.sampleIncrementInBits, hnd.stride, hnd.width \div p.subsampling,
                           hnd.height \div p.subsampling, hnd.stride * hnd.height,
                           p.subsampling, p.subsampling>>
           v == PlaneLayouts(hnd)
<1>1. Len(planes) \in 0..3 /\ \A i \in 1..Len(planes) : SmallPlane(planes[i])
  BY SmallFormats DEF SmallPlaneLayouts
<1>2. v = [i \in 1..Len(planes) |-> [components |-> Of(planes[i]), numbers |-> Numbers(planes[i])]]
  BY DEF PlaneLayouts
<1> HIDE DEF planes, v
<1>3. Len(v) = Len(planes)
  <2>1. HasLength(v, Len(planes))
    BY <1>1, <1>2 DEF HasLength
  <2> QED
    BY <2>1, LengthOf
<1>4. ASSUME NEW p, SmallPlane(p)
      PROVE  SmallLayout([components |-> Of(p), numbers |-> Numbers(p)])
  <2> DEFINE s == Of(p)
             t == Numbers(p)
  <2>1. HasLength(s, Len(p.components)) /\ Len(p.components) \in 0..4
    BY <1>4 DEF HasLength, SmallPlane
  <2>2. Len(t) = 8
    OBVIOUS
  <2>3. \A j \in 1..Len(p.components) : s[j].type.name.length \in 0..255
    <3>1. \A j \in 1..Len(p.components) : s[j].type.name = ComponentTypeName
      BY DEF ComponentType
    <3>2. ComponentTypeName.length \in 0..255
      BY NamesAssumption
    <3> HIDE DEF s, ComponentTypeName
    <3> QED
      BY <3>1, <3>2
  <2> HIDE DEF s, t
  <2>4. Len(s) = Len(p.components)
    BY <2>1, LengthOf
  <2>5. SmallLayout([components |-> s, numbers |-> t])
    BY <2>1, <2>2, <2>3, <2>4 DEF SmallLayout
  <2> QED
    BY <2>5 DEF s, t
<1>5. \A i \in 1..Len(v) : SmallLayout(v[i])
  <2> HIDE DEF Of, Numbers
  <2> QED
    BY <1>1, <1>2, <1>3, <1>4
<1> QED
  BY <1>1, <1>3, <1>5 DEF IsSmall, v

\* What a query of the type may be answered with.
Answers(type, s) ==
  \/ /\ s.returns = 0 /\ IsSmall(Kind[type], s.value) /\ ~IsAbsent(type, s.value)
  \/ s.returns = UNSUPPORTED /\ Kind[type] \in {"string", "bytes"}

\* The mapper answers every query, of a format it knows.
LEMMA ProvidesSmall ==
  ASSUME NEW hnd, NEW bo, NEW w, Len(w) = 2, NEW type \in StandardMetadataType,
         gralloc_gm_android_format_to_gbm_format(hnd.format) # NoFormat
  PROVE  Answers(type, Provided(hnd, bo, [NewMetadata EXCEPT !.CTA861_3 = w], type))
<1> DEFINE m == [NewMetadata EXCEPT !.CTA861_3 = w]
           values == BufferValues(hnd, bo, m)
<1>1. /\ DOMAIN values = StandardMetadataType \ {"NAME", "SMPTE2094_10", "SMPTE2094_40"}
      /\ values["PIXEL_FORMAT_FOURCC"] # NoFormat
      /\ values["COMPRESSION"] = None("Compression") /\ values["INTERLACED"] = None("Interlaced")
      /\ values["CHROMA_SITING"] = None("ChromaSiting")
      /\ values["PLANE_LAYOUTS"] = PlaneLayouts(hnd)
      /\ values["CROP"] = << <<0, 0, hnd.width, hnd.height>> >>
      /\ values["SMPTE2086"] = m.SMPTE2086 /\ values["CTA861_3"] = m.CTA861_3
  <2>1. values["PIXEL_FORMAT_FOURCC"] = gralloc_gm_android_format_to_gbm_format(hnd.format)
    BY DEF BufferValues
  <2>2. DOMAIN values = StandardMetadataType \ {"NAME", "SMPTE2094_10", "SMPTE2094_40"}
    BY DEF BufferValues, StandardMetadataType, Kind
  <2> QED
    BY <2>1, <2>2 DEF BufferValues
<1>2. m.CTA861_3 = w /\ m.SMPTE2086 = NewMetadata.SMPTE2086
  BY DEF NewMetadata
<1> HIDE DEF values, m
<1>3. CASE type \in {"NAME", "SMPTE2094_10", "SMPTE2094_40"}
  <2>1. Kind[type] \in {"string", "bytes"}
    BY <1>3 DEF Kind
  <2>2. type \notin DOMAIN values
    BY <1>1, <1>3
  <2>3. Provided(hnd, bo, m, type) = [returns |-> UNSUPPORTED, value |-> Absent]
    BY <2>2 DEF Provided, values
  <2> QED
    BY <2>1, <2>3 DEF Answers, m
<1>4. CASE type \notin {"NAME", "SMPTE2094_10", "SMPTE2094_40"}
  <2>1. Provided(hnd, bo, m, type) = [returns |-> 0, value |-> values[type]]
    BY <1>1, <1>4 DEF Provided, values
  <2>2. CASE Kind[type] \in {"int64", "int32"}
    <3>1. IsSmall(Kind[type], values[type]) /\ ~IsAbsent(type, values[type])
      BY <2>2 DEF IsSmall, IsAbsent, Optional
    <3> QED
      BY <2>1, <3>1 DEF Answers, m
  <2>3. CASE type \in {"COMPRESSION", "INTERLACED", "CHROMA_SITING"}
    <3>1. Kind[type] = "extendable"
      BY <2>3 DEF Kind
    <3>2. values[type].name.length \in 0..255
      <4> HIDE DEF None
      <4> QED
        BY <1>1, <2>3, NamesAssumption
    <3>3. IsSmall("extendable", values[type])
      BY <3>2 DEF IsSmall
    <3>4. ~IsAbsent(type, values[type])
      BY <3>1 DEF IsAbsent, Optional
    <3> QED
      BY <2>1, <3>1, <3>3, <3>4 DEF Answers, m
  <2>4. CASE type = "PLANE_LAYOUTS"
    <3>1. Kind[type] = "layouts"
      BY <2>4 DEF Kind
    <3>2. IsSmall("layouts", values[type])
      BY <1>1, <2>4, SmallPlaneValues
    <3>3. ~IsAbsent(type, values[type])
      BY <3>1 DEF IsAbsent, Optional
    <3> QED
      BY <2>1, <3>1, <3>2, <3>3 DEF Answers, m
  <2>5. CASE type = "CROP"
    <3>1. Kind[type] = "rects"
      BY <2>5 DEF Kind
    <3> DEFINE q == <<0, 0, hnd.width, hnd.height>>
    <3>2. Len(q) = 4
      OBVIOUS
    <3> HIDE DEF q
    <3>3. values[type] = <<q>>
      BY <1>1, <2>5 DEF q
    <3>4. Len(<<q>>) = 1 /\ <<q>>[1] = q
      OBVIOUS
    <3>5. IsSmall("rects", values[type])
      BY <3>2, <3>3, <3>4 DEF IsSmall, FitsRect
    <3>6. ~IsAbsent(type, values[type])
      BY <3>1 DEF IsAbsent, Optional
    <3> QED
      BY <2>1, <3>1, <3>5, <3>6 DEF Answers, m
  <2>6. CASE type \in {"SMPTE2086", "CTA861_3"}
    <3> DEFINE zeros == [i \in 1..10 |-> 0]
    <3>1. HasLength(zeros, 10)
      BY DEF HasLength
    <3>2. Len(zeros) = 10
      BY <3>1, LengthOf
    <3>3. NewMetadata.SMPTE2086 = zeros
      BY DEF NewMetadata
    <3> HIDE DEF zeros
    <3>4. /\ Kind["SMPTE2086"] = "smpte2086" /\ Kind["CTA861_3"] = "cta861_3"
          /\ Int32Fields["smpte2086"] = 10 /\ Int32Fields["cta861_3"] = 2
      BY DEF Kind, Int32Fields
    <3>5. Len(values[type]) = Int32Fields[Kind[type]] /\ Kind[type] \in {"smpte2086", "cta861_3"}
          /\ Int32Fields[Kind[type]] # 0
      <4>1. CASE type = "SMPTE2086"
        <5>1. values[type] = zeros
          BY <1>1, <1>2, <3>3, <4>1
        <5> QED
          BY <3>2, <3>4, <4>1, <5>1
      <4>2. CASE type = "CTA861_3"
        <5>1. values[type] = w
          BY <1>1, <1>2, <4>2
        <5> QED
          BY <3>4, <4>2, <5>1
      <4> QED
        BY <2>6, <4>1, <4>2
    <3>6. IsSmall(Kind[type], values[type])
      BY <3>5 DEF IsSmall
    <3>7. ~IsAbsent(type, values[type])
      <4>1. Len(<<>>) = 0
        OBVIOUS
      <4> QED
        BY <3>5, <4>1 DEF IsAbsent, Absent
    <3> QED
      BY <2>1, <3>6, <3>7 DEF Answers, m
  <2>7. \/ Kind[type] \in {"int64", "int32"}
        \/ type \in {"COMPRESSION", "INTERLACED", "CHROMA_SITING", "PLANE_LAYOUTS", "CROP",
                     "SMPTE2086", "CTA861_3"}
    BY <1>4 DEF Kind, StandardMetadataType
  <2> QED
    BY <2>2, <2>3, <2>4, <2>5, <2>6, <2>7
<1> QED
  BY <1>3, <1>4

-----------------------------------------------------------------------------
(* What one call into the mapper returns for such an answer. *)

\* The number: the size of the message, or the error code in its place,
Reported(type, s) == IF s.returns # 0 THEN s.returns ELSE Total(Message(type, s.value))

\* and what a buffer large enough holds then.
Delivered(type, s) == IF s.returns # 0 THEN <<>> ELSE Message(type, s.value)

\* A call with room for the answer delivers it.
LEMMA CallReturns ==
  ASSUME NEW type \in StandardMetadataType, NEW s, Answers(type, s), NEW b \in Nat
  PROVE  LET answer == provideStandardMetadata(type, s, b) IN
         /\ Reported(type, s) \in Nat
         /\ answer.desired = Reported(type, s)
         /\ Reported(type, s) <= b => answer.dest = Delivered(type, s)
<1>1. CASE s.returns = 0
  <2>1. Fits(Kind[type], s.value) /\ Total(Message(type, s.value)) <= MaxInt32
    BY <1>1, SmallMessages DEF Answers, UNSUPPORTED
  <2>2. provideStandardMetadata(type, s, b) = encode(type, s.value, b)
    BY <1>1 DEF provideStandardMetadata
  <2>3. Reported(type, s) = Total(Message(type, s.value))
        /\ Delivered(type, s) = Message(type, s.value)
    BY <1>1 DEF Reported, Delivered
  <2>4. /\ encode(type, s.value, b).desired = Total(Message(type, s.value))
        /\ encode(type, s.value, b).desired \in Nat
        /\ encode(type, s.value, b).desired <= b =>
             encode(type, s.value, b).dest = Message(type, s.value)
    BY ONLY <2>1, RoundTrip, type \in StandardMetadataType, b \in Nat
  <2> QED
    BY <2>2, <2>3, <2>4
<1>2. CASE s.returns # 0
  <2>1. s.returns = 7
    BY <1>2 DEF Answers, UNSUPPORTED
  <2>2. provideStandardMetadata(type, s, b) = [desired |-> s.returns, dest |-> <<>>]
    BY <1>2 DEF provideStandardMetadata
  <2> QED
    BY <1>2, <2>1, <2>2 DEF Reported, Delivered
<1> QED
  BY <1>1, <1>2

\* A client that decodes all of what is delivered, as many bytes as were
\* reported, has the value; an error code decodes to nothing, being smaller than
\* what the types without an answer begin with.
LEMMA DeliveredDecodes ==
  ASSUME NEW type \in StandardMetadataType, NEW s, Answers(type, s)
  PROVE  LET d == decode(type, Delivered(type, s), Reported(type, s)) IN
         /\ s.returns = 0 => d = [ok |-> TRUE, value |-> Decoded(type, s.value)]
         /\ s.returns # 0 => ~d.ok
<1>1. CASE s.returns = 0
  <2> DEFINE n == Total(Message(type, s.value))
  <2>1. Fits(Kind[type], s.value) /\ n <= MaxInt32
    BY <1>1, SmallMessages DEF Answers, UNSUPPORTED
  <2>2. n \in Nat
    BY <1>1, CallReturns, 0 \in Nat DEF Reported
  <2>3. Reported(type, s) = n /\ Delivered(type, s) = Message(type, s.value)
    BY <1>1 DEF Reported, Delivered
  <2>4. LET written == encode(type, s.value, n) IN
        /\ written.desired = n /\ written.dest = Message(type, s.value)
        /\ decode(type, written.dest, written.desired)
             = [ok |-> TRUE, value |-> Decoded(type, s.value)]
    <3>1. n <= n
      BY <2>2
    <3> HIDE DEF n
    <3> QED
      BY ONLY <2>1, <2>2, <3>1, RoundTrip, type \in StandardMetadataType DEF n
  <2> QED
    BY <1>1, <2>3, <2>4
<1>2. CASE s.returns # 0
  <2>1. s.returns = 7 /\ Kind[type] \in {"string", "bytes"}
    BY <1>2 DEF Answers, UNSUPPORTED
  <2>2. Reported(type, s) \in 1..7
    BY <2>1 DEF Reported
  <2> QED
    BY <1>2, <2>1, <2>2, TooShort
<1> QED
  BY <1>1, <1>2

\* The HDR metadata clients set have the same size whatever they are.
LEMMA CtaAlike ==
  ASSUME NEW s, NEW t, Answers("CTA861_3", s), Answers("CTA861_3", t)
  PROVE  s.returns = 0 /\ t.returns = 0 /\ Reported("CTA861_3", s) = Reported("CTA861_3", t)
<1> DEFINE type == "CTA861_3"
<1>1. Kind[type] = "cta861_3" /\ Int32Fields["cta861_3"] = 2
  BY DEF Kind, Int32Fields
<1>2. /\ s.returns = 0 /\ t.returns = 0
      /\ Len(s.value) = 2 /\ Len(t.value) = 2 /\ ~IsAbsent(type, s.value) /\ ~IsAbsent(type, t.value)
  BY <1>1 DEF Answers, IsSmall
<1> DEFINE a == Ints(4, s.value)
           b == Ints(4, t.value)
           h == Header(type)
<1>3. Message(type, s.value) = h \o a /\ Message(type, t.value) = h \o b
  BY <1>1, <1>2 DEF Message, Payload
<1>4. /\ IsMessage(a) /\ IsMessage(b) /\ IsMessage(h) /\ Len(a) = Len(b)
      /\ \A i \in 1..Len(a) : a[i].size = b[i].size
  <2>1. Len(s.value) \in Nat /\ Len(t.value) \in Nat /\ Len(s.value) = Len(t.value) /\ 4 \in Nat
    BY <1>2
  <2> QED
    BY ONLY <2>1, MessageOfInts, MessageOfHeader
<1> HIDE DEF a, b, h
<1>5. Total(h \o a) = Total(h \o b)
  BY <1>4, SameJoin
<1> QED
  BY <1>2, <1>3, <1>5 DEF Reported

-----------------------------------------------------------------------------
(* The inductive invariant: what each side holds of a buffer follows from    *)
(* its descriptor and from the pitch of the backend that made it.            *)

\* What gralloc_allocate makes of d.
BoOf(d, pitch) ==
  LET gbmFormat == gralloc_gm_android_format_to_gbm_format(d.format)
      stride == BoStride(AllocationSize(d), gbmFormat, pitch)
  IN [width |-> AllocationSize(d).width, height |-> AllocationSize(d).height, stride |-> stride,
      pixelStride |-> gralloc_gm_android_caculate_pixel_stride(d.format, stride)]

HandleOf(d, stride) ==
  [address |-> "handle", width |-> d.width, height |-> d.height, format |-> d.format,
   usage |-> d.usage, stride |-> stride, modifier |-> "modifier"]

\* What gralloc_gm_buffer_import makes of a handle.
ImportOf(hnd) ==
  [width |-> ImportSize(hnd).width, height |-> ImportSize(hnd).height, stride |-> hnd.stride]

BufferFacts ==
  IF descriptor = NoBuffer
    THEN handle = NoBuffer /\ allocated = Unallocated /\ imported = NotImported
    ELSE /\ descriptor \in Descriptors
         /\ gralloc_gm_android_format_to_gbm_format(descriptor.format) # NoFormat
         /\ \E pitch \in Pitches : allocated = BoOf(descriptor, pitch)
         /\ handle = HandleOf(descriptor, allocated.stride)
         /\ imported \in {NotImported, ImportOf(handle)}

MetadataFacts ==
  /\ md.CTA861_3 \in HdrValues \cup {NewMetadata.CTA861_3}
  /\ md = [NewMetadata EXCEPT !.CTA861_3 = md.CTA861_3]
  /\ imported = NotImported => md = NewMetadata

QueryFacts ==
  IF query = Idle
    THEN seen = {}
    ELSE /\ imported # NotImported
         /\ query.stage \in {"call", "resize", "decode", "answered", "refused"}
         /\ query.type \in StandardMetadataType
         /\ Current(query.type) \in seen

ReportsInv == BufferFacts /\ MetadataFacts /\ QueryFacts

\* What the mapper provides of a type that clients do not set does not depend on
\* what they set.
LEMMA ProvidedStable ==
  ASSUME NEW hnd, NEW bo, NEW v, NEW w,
         NEW type \in StandardMetadataType, type # "CTA861_3"
  PROVE  Provided(hnd, bo, [NewMetadata EXCEPT !.CTA861_3 = v], type)
           = Provided(hnd, bo, [NewMetadata EXCEPT !.CTA861_3 = w], type)
<1> DEFINE a == BufferValues(hnd, bo, [NewMetadata EXCEPT !.CTA861_3 = v])
           b == BufferValues(hnd, bo, [NewMetadata EXCEPT !.CTA861_3 = w])
<1>1. DOMAIN a = DOMAIN b
  BY DEF BufferValues
<1>2. ASSUME type \in DOMAIN a
      PROVE  a[type] = b[type]
  BY <1>2 DEF BufferValues, NewMetadata
<1> QED
  BY <1>1, <1>2 DEF Provided

\* Idle is no query in progress.
LEMMA IdleStage ==
  ASSUME query.stage \in {"call", "resize", "decode", "answered", "refused"}
  PROVE  query # Idle
BY DEF Idle

\* Requesting a buffer, from nothing.
LEMMA AllocateKeeps ==
  ASSUME ReportsInv, NEW d \in Descriptors, NEW pitch \in Pitches, Allocate(d, pitch)
  PROVE  ReportsInv'
<1>1. /\ descriptor = NoBuffer /\ descriptor' = d /\ UNCHANGED <<imported, md, query, seen>>
      /\ allocated' = BoOf(d, pitch)
      /\ handle' = HandleOf(d, allocated'.stride)
      /\ gralloc_gm_android_format_to_gbm_format(d.format) # NoFormat
  BY DEF Allocate, BoOf, HandleOf
<1>2. d # NoBuffer
  BY DescriptorSizes
<1>3. imported = NotImported /\ query = Idle
  BY <1>1 DEF ReportsInv, BufferFacts, QueryFacts
<1>4. BufferFacts'
  BY <1>1, <1>2, <1>3 DEF BufferFacts
<1>5. MetadataFacts' /\ QueryFacts'
  BY <1>1, <1>3 DEF ReportsInv, MetadataFacts, QueryFacts
<1> QED
  BY <1>4, <1>5 DEF ReportsInv

\* Importing it.
LEMMA ImportKeeps ==
  ASSUME ReportsInv, Import
  PROVE  ReportsInv'
<1>1. /\ descriptor # NoBuffer /\ query = Idle
  BY DEF ReportsInv, BufferFacts, QueryFacts, Import
<1>2. BufferFacts'
  BY <1>1 DEF ReportsInv, BufferFacts, Import, ImportOf
<1>3. MetadataFacts'
  BY DEF MetadataFacts, Import, NewMetadata
<1>4. QueryFacts'
  BY <1>1 DEF ReportsInv, QueryFacts, Import
<1> QED
  BY <1>2, <1>3, <1>4 DEF ReportsInv

\* Releasing it, and its metadata.
LEMMA FreeKeeps ==
  ASSUME ReportsInv, Free
  PROVE  ReportsInv'
<1>1. MetadataFacts'
  BY DEF MetadataFacts, Free, NewMetadata
<1> QED
  BY <1>1 DEF ReportsInv, BufferFacts, QueryFacts, Free

\* The steps of a query change neither the buffer nor its metadata.
LEMMA QueryStepKeeps ==
  ASSUME ReportsInv,
         \/ \E type \in StandardMetadataType, guess \in Guesses : Begin(type, guess)
         \/ Call \/ Resize \/ Decode \/ Finish
  PROVE  ReportsInv'
<1>1. UNCHANGED <<descriptor, allocated, handle, imported, md>>
  BY DEF Begin, Call, Resize, Decode, Finish
<1>2. BufferFacts' /\ MetadataFacts'
  BY <1>1 DEF ReportsInv, BufferFacts, MetadataFacts
<1>3. QueryFacts'
  <2>1. ASSUME NEW type \in StandardMetadataType, NEW guess \in Guesses, Begin(type, guess)
        PROVE  QueryFacts'
    <3>1. /\ imported' # NotImported /\ query'.stage = "call" /\ query'.type = type
          /\ seen' = {Current(type)'}
      BY <1>1, <2>1 DEF Begin, Current
    <3> QED
      BY <3>1 DEF QueryFacts, Idle
  <2>2. ASSUME Call \/ Resize \/ Decode
        PROVE  QueryFacts'
    <3>1. query.stage \in {"call", "resize", "decode"} /\ query # Idle
      BY <2>2, IdleStage DEF Call, Resize, Decode
    <3>2. /\ query'.stage \in {"call", "resize", "decode", "answered", "refused"}
          /\ query'.type = query.type /\ seen' = seen
      BY <2>2 DEF Call, Resize, Decode
    <3>3. Current(query.type)' = Current(query.type)
      BY <1>1, <3>2 DEF Current
    <3> QED
      BY <1>1, <3>1, <3>2, <3>3 DEF ReportsInv, QueryFacts, Idle, Current
  <2>3. ASSUME Finish
        PROVE  QueryFacts'
    BY <2>3 DEF Finish, QueryFacts
  <2> QED
    BY <2>1, <2>2, <2>3
<1> QED
  BY <1>2, <1>3 DEF ReportsInv

\* Another client setting the HDR metadata, or being refused.
LEMMA SetKeeps ==
  ASSUME ReportsInv, NEW value \in HdrValues, NEW encoded \in BOOLEAN, Set(value, encoded)
  PROVE  ReportsInv'
<1>1. /\ imported # NotImported /\ UNCHANGED <<descriptor, allocated, handle, imported, query>>
      /\ md' \in {[md EXCEPT !.CTA861_3 = value], md}
      /\ seen' = IF query # Idle /\ query.type = "CTA861_3"
                   THEN seen \cup {Provided(handle, imported, md', "CTA861_3")} ELSE seen
  BY DEF Set
<1>2. BufferFacts'
  BY <1>1 DEF ReportsInv, BufferFacts
<1>3. PICK w : w = md.CTA861_3 /\ md = [NewMetadata EXCEPT !.CTA861_3 = w]
                 /\ w \in HdrValues \cup {NewMetadata.CTA861_3}
  BY DEF ReportsInv, MetadataFacts
<1>4. PICK v \in HdrValues \cup {NewMetadata.CTA861_3} : md' = [NewMetadata EXCEPT !.CTA861_3 = v]
  BY <1>1, <1>3 DEF NewMetadata
<1>5. md'.CTA861_3 = v
  BY <1>4 DEF NewMetadata
<1>6. MetadataFacts'
  BY <1>1, <1>4, <1>5 DEF MetadataFacts
<1>7. ASSUME query # Idle, query.type # "CTA861_3"
      PROVE  Provided(handle, imported, md', query.type) = Provided(handle, imported, md, query.type)
  BY <1>3, <1>4, <1>7, ProvidedStable DEF ReportsInv, QueryFacts
<1>8. QueryFacts'
  BY <1>1, <1>7 DEF ReportsInv, QueryFacts, Current
<1> QED
  BY <1>2, <1>6, <1>8 DEF ReportsInv

\* The invariant holds of every reachable state.
THEOREM ReportsInvHolds == Spec => []ReportsInv
<1>1. Init => ReportsInv
  BY DEF Init, ReportsInv, BufferFacts, MetadataFacts, QueryFacts, NewMetadata
<1>2. ReportsInv /\ [Next]_vars => ReportsInv'
  <2> SUFFICES ASSUME ReportsInv, [Next]_vars
               PROVE  ReportsInv'
    OBVIOUS
  <2>1. CASE Next
    BY <2>1, AllocateKeeps, ImportKeeps, FreeKeeps, QueryStepKeeps, SetKeeps DEF Next
  <2>2. CASE UNCHANGED vars
    BY <2>2 DEF vars, ReportsInv, BufferFacts, MetadataFacts, QueryFacts, Current
  <2> QED
    BY <2>1, <2>2
<1> QED
  BY <1>1, <1>2, PTL DEF Spec

-----------------------------------------------------------------------------
(* What follows from it. *)

\* The sizes of a buffer that was requested are numbers.
LEMMA RequestedSizes ==
  ASSUME ReportsInv, descriptor # NoBuffer
  PROVE  /\ descriptor.width \in Nat \ {0} /\ descriptor.height \in Nat \ {0}
         /\ allocated.width \in Nat /\ allocated.height \in Nat /\ allocated.stride \in Nat
         /\ handle.width = descriptor.width /\ handle.height = descriptor.height
         /\ handle.format = descriptor.format /\ handle.usage = descriptor.usage
         /\ handle.stride = allocated.stride
<1>1. PICK pitch \in Pitches : allocated = BoOf(descriptor, pitch)
  BY DEF ReportsInv, BufferFacts
<1>2. descriptor.width \in Nat \ {0} /\ descriptor.height \in Nat \ {0}
  BY DescriptorSizes DEF ReportsInv, BufferFacts
<1>3. AllocationSize(descriptor).width \in Nat /\ AllocationSize(descriptor).height \in Nat
  BY <1>2, BufferSizes
<1>4. allocated.width \in Nat /\ allocated.height \in Nat /\ allocated.stride \in Nat
  BY <1>1, <1>3, StrideSizes DEF BoOf
<1> QED
  BY <1>2, <1>4 DEF ReportsInv, BufferFacts, HandleOf

\* ReportsTypeOK: sizes are numbers on both sides, metadata end with the import
\* they belong to (freeBuffer), and a query has seen what it may answer.
THEOREM ReportsTypesHold == Spec => []ReportsTypeOK
<1>1. ReportsInv => ReportsTypeOK
  <2> SUFFICES ASSUME ReportsInv
               PROVE  ReportsTypeOK
    OBVIOUS
  <2>1. descriptor \in Descriptors \cup {NoBuffer}
    BY DEF ReportsInv, BufferFacts
  <2>2. /\ allocated.width \in Nat /\ allocated.height \in Nat /\ allocated.stride \in Nat
        /\ imported.width \in Nat /\ imported.height \in Nat /\ imported.stride \in Nat
    <3>1. CASE descriptor = NoBuffer
      BY <3>1 DEF ReportsInv, BufferFacts, Unallocated, NotImported
    <3>2. CASE descriptor # NoBuffer
      <4>1. ImportSize(handle).width \in Nat /\ ImportSize(handle).height \in Nat
        BY <3>2, RequestedSizes, BufferSizes
      <4>2. imported \in {NotImported, ImportOf(handle)}
        BY <3>2 DEF ReportsInv, BufferFacts
      <4> QED
        BY <3>2, <4>1, <4>2, RequestedSizes DEF NotImported, ImportOf
    <3> QED
      BY <3>1, <3>2
  <2>3. query.stage \in {"idle", "call", "resize", "decode", "answered", "refused"}
    BY DEF ReportsInv, QueryFacts, Idle
  <2> QED
    BY <2>1, <2>2, <2>3 DEF ReportsInv, MetadataFacts, QueryFacts, ReportsTypeOK
<1> QED
  BY <1>1, ReportsInvHolds, PTL

\* ImportSeesAllocation: gralloc_gm_buffer_import arrives at the object
\* gralloc_allocate made, whatever the format, size and pitch, but for the
\* cursors the property excepts.
THEOREM ImportSeesAllocationHolds == Spec => []ImportSeesAllocation
<1>1. ReportsInv => ImportSeesAllocation
  <2> SUFFICES ASSUME ReportsInv, imported # NotImported, ~OddCursor(descriptor)
               PROVE  /\ imported.width = allocated.width /\ imported.height = allocated.height
                      /\ imported.stride = allocated.stride
    BY DEF ImportSeesAllocation
  <2>1. /\ descriptor # NoBuffer
        /\ imported = ImportOf(handle) /\ handle = HandleOf(descriptor, allocated.stride)
        /\ \E pitch \in Pitches : allocated = BoOf(descriptor, pitch)
    BY DEF ReportsInv, BufferFacts
  <2>2. ImportSize(handle) = ImportSize(descriptor)
    BY <2>1 DEF HandleOf, ImportSize
  <2>3. /\ ImportSize(descriptor).width = AllocationSize(descriptor).width
        /\ ImportSize(descriptor).height = AllocationSize(descriptor).height
    BY SameSize
  <2> QED
    BY <2>1, <2>2, <2>3 DEF ImportOf, HandleOf, BoOf
<1> QED
  BY <1>1, ReportsInvHolds, PTL

\* PlanesWithinBuffer: gralloc_gbm_bo_lock_ycbcr points into the object, whatever
\* the width, height and pitch.
THEOREM PlanesWithinBufferHolds == Spec => []PlanesWithinBuffer
<1>1. ReportsInv => PlanesWithinBuffer
  <2> SUFFICES ASSUME ReportsInv, descriptor.format = "YV12", imported # NotImported
               PROVE  LET p == Ycbcr(handle)
                          rows == DIV_ROUND_UP(handle.height, 2)
                      IN
                      /\ p.cb + p.cstride * rows <= imported.stride * imported.height
                      /\ handle.height % 2 = 0 =>
                           /\ p.y + p.ystride * handle.height <= p.cr
                           /\ p.cr + p.cstride * rows <= p.cb
    BY DEF PlanesWithinBuffer
  <2>1. PICK pitch \in Pitches :
          /\ descriptor # NoBuffer
          /\ imported = ImportOf(handle) /\ handle = HandleOf(descriptor, allocated.stride)
          /\ allocated = BoOf(descriptor, pitch)
    BY DEF ReportsInv, BufferFacts
  <2>2. PICK w \in Nat, h \in Nat : w = handle.width /\ h = handle.height
    BY <2>1, RequestedSizes
  <2>3. PICK c \in Nat : c = ALIGN(w \div 2, 16)
    BY <2>2, ChromaStride
  <2>4. PICK r \in Nat : r = DIV_ROUND_UP(h, 2)
    BY <2>2, ChromaRows
  <2>5. PICK S \in Nat : S = imported.stride
    BY <2>1, RequestedSizes DEF ImportOf
  <2>6. imported.height = h + r
    BY <2>1, <2>2, <2>4, ChromaRows, RequestedSizes DEF ImportOf, ImportSize
  <2>7. S >= ALIGN(w, 32)
    <3>1. descriptor.width = w
      BY <2>1, <2>2, RequestedSizes
    <3>2. gralloc_gm_android_format_to_gbm_format("YV12") = "GR88"
      BY DEF gralloc_gm_android_format_to_gbm_format, GbmFormatOf
    <3>3. BitsInFirstPlane("GR88") = 16
      BY DEF BitsInFirstPlane, gralloc_gm_get_bpp_from_gbm_format
    <3>4. AllocationSize(descriptor).width = ALIGN(w, 32) \div 2
      BY <3>1 DEF AllocationSize
    <3>5. S = BoStride(AllocationSize(descriptor), "GR88", pitch)
      BY <2>1, <2>5, <3>2 DEF ImportOf, HandleOf, BoOf
    <3>6. AllocationSize(descriptor).width \in Nat
      BY <3>4, AlignUp
    <3>7. S >= DIV_ROUND_UP((ALIGN(w, 32) \div 2) * 16, 8)
      BY <3>3, <3>4, <3>5, <3>6, StrideSizes
    <3> QED
      BY <3>7, ChromaStride
  <2>8. w <= S /\ 2 * c <= S /\ h <= 2 * r
    <3>1. w <= ALIGN(w, 32) /\ ALIGN(w, 32) \in Nat
      BY AlignUp
    <3>2. 2 * c <= ALIGN(w, 32)
      BY <2>3, ChromaStride
    <3>3. h <= 2 * r
      BY <2>4, ChromaRows
    <3> QED
      BY <2>7, <3>1, <3>2, <3>3
  <2>9. w * h + (c * h) \div 2 + c * r <= S * (h + r)
    BY <2>8, PlanesFit
  <2>10. Ycbcr(handle) = [y |-> 0, cr |-> w * h, cb |-> w * h + (c * h) \div 2,
                          ystride |-> w, cstride |-> c, chroma_step |-> 1]
    <3>1. handle.format = "YV12"
      BY <2>1 DEF HandleOf
    <3> QED
      BY <2>2, <2>3, <3>1 DEF Ycbcr
  <2>11. ASSUME h % 2 = 0
         PROVE  w * h + c * r <= w * h + (c * h) \div 2
    <3>1. h = 2 * r
      BY <2>4, <2>11, ChromaRows
    <3>2. c * h = 2 * (c * r) /\ c * r \in Nat
      BY <3>1
    <3>3. \A x \in Nat : (2 * x) \div 2 = x
      OBVIOUS
    <3>4. (c * h) \div 2 = c * r
      BY <3>2, <3>3
    <3>5. w * h \in Nat
      OBVIOUS
    <3> QED
      BY <3>2, <3>4, <3>5
  <2>12. w * h \in Nat
    OBVIOUS
  <2> QED
    BY <2>2, <2>4, <2>5, <2>6, <2>9, <2>10, <2>11, <2>12
<1> QED
  BY <1>1, ReportsInvHolds, PTL

\* In the formats where a stride in pixels means something, a pixel is a whole
\* number of bytes, the same for the backend and for the pixel stride.
LEMMA RowPixels ==
  ASSUME NEW f, RowFormat(f)
  PROVE  /\ f # "YV12"
         /\ gralloc_gm_get_bytes_per_pixel(f) \in {1, 2, 3, 4, 8}
         /\ BitsInFirstPlane(gralloc_gm_android_format_to_gbm_format(f))
              = 8 * gralloc_gm_get_bytes_per_pixel(f)
<1>1. f # "YV12"
  BY DEF RowFormat, YcbcrFormat
<1>2. f \in DOMAIN GbmFormatOf
  BY DEF RowFormat, gralloc_gm_android_format_to_gbm_format, gralloc_gm_get_bpp_from_gbm_format,
         NoFormat
<1>3. gralloc_gm_android_format_to_gbm_format(f)
        \in {"ABGR8888", "XBGR8888", "BGR888", "BGR565", "ARGB8888", "R16",
             "ABGR16161616F", "ABGR2101010", "YUV422"}
  BY <1>1, <1>2 DEF RowFormat, gralloc_gm_android_format_to_gbm_format, GbmFormatOf,
                    gralloc_gm_get_bpp_from_gbm_format, YcbcrFormat
<1> QED
  BY <1>1, <1>3 DEF gralloc_gm_get_bytes_per_pixel, BitsInFirstPlane,
                    gralloc_gm_get_bpp_from_gbm_format

\* The stride in pixels GbmMesaAllocator returns holds the width requested.
LEMMA PixelStrideHoldsRow ==
  ASSUME ReportsInv, descriptor # NoBuffer, RowFormat(descriptor.format)
  PROVE  allocated.pixelStride >= descriptor.width
<1> DEFINE f == descriptor.format
           g == gralloc_gm_android_format_to_gbm_format(f)
<1>1. PICK pitch \in Pitches : allocated = BoOf(descriptor, pitch)
  BY DEF ReportsInv, BufferFacts
<1>2. PICK w \in Nat : w = descriptor.width
  BY RequestedSizes
<1>3. PICK n \in Nat : n = AllocationSize(descriptor).width /\ n >= w
  <2>1. descriptor.format # "YV12"
    BY RowPixels
  <2>2. CursorSize(w) \in Nat /\ CursorSize(w) >= w
    BY CursorSizes
  <2> HIDE DEF CursorSize
  <2> QED
    BY <1>2, <2>1, <2>2 DEF AllocationSize
<1>4. PICK b \in {1, 2, 3, 4, 8} : b = gralloc_gm_get_bytes_per_pixel(f) /\ BitsInFirstPlane(g) = 8 * b
  BY RowPixels
<1>5. PICK S \in Nat : /\ S = BoStride(AllocationSize(descriptor), g, pitch)
                       /\ S >= DIV_ROUND_UP(n * (8 * b), 8)
  BY <1>3, <1>4, StrideSizes
<1>6. n * b <= DIV_ROUND_UP(n * (8 * b), 8)
  <2>1. n * b \in Nat /\ n * (8 * b) = (n * b) * 8 /\ n * (8 * b) \in Nat
    BY <1>4
  <2> QED
    BY <2>1, RoundUpLeast
<1>7. w * b <= S
  <2>1. w * b <= n * b /\ w * b \in Nat /\ n * b \in Nat
    BY <1>3, <1>4
  <2>2. n * (8 * b) \in Nat
    BY <1>4
  <2>3. DIV_ROUND_UP(n * (8 * b), 8) \in Nat
    BY <2>2, RoundUp
  <2> QED
    BY <1>5, <1>6, <2>1, <2>3
<1>8. w <= DIV_ROUND_UP(S, b)
  BY <1>4, <1>7, RoundUpLeast
<1>9. allocated.pixelStride = DIV_ROUND_UP(S, b)
  BY <1>1, <1>4, <1>5 DEF BoOf, gralloc_gm_android_caculate_pixel_stride
<1> QED
  BY <1>2, <1>8, <1>9

-----------------------------------------------------------------------------
(* A query in progress: whoever sets metadata meanwhile, what it sees of its *)
(* type has one size, so that the call made with the size first returned     *)
(* finds room.                                                               *)

\* What a query has seen of its type: answers, all of the same size.
SeenAlike ==
  /\ \A s \in seen : Answers(query.type, s)
  /\ \A s, t \in seen :
       s.returns = t.returns /\ Reported(query.type, s) = Reported(query.type, t)
  /\ query.type # "CTA861_3" => seen = {Current(query.type)}

\* How far it is: it calls with its guess, or with the size that was returned,
\* and decodes what some value it has seen is encoded as.
Progress ==
  /\ query.stage = "call" =>
       /\ query.size \in Nat /\ query.calls \in {0, 1}
       /\ query.calls = 1 => \A s \in seen : query.size = Reported(query.type, s)
  /\ query.stage = "resize" =>
       query.calls = 1 /\ \A s \in seen : query.returned = Reported(query.type, s)
  /\ query.stage = "decode" =>
       \E s \in seen : /\ query.returned = Reported(query.type, s)
                       /\ query.dest = Delivered(query.type, s)

QueryInv == query # Idle => SeenAlike /\ Progress /\ AnsweredAsWritten

\* What an imported buffer's types are worth.
LEMMA ProvidedAnswers ==
  ASSUME ReportsInv, imported # NotImported, NEW type \in StandardMetadataType,
         NEW w \in HdrValues \cup {NewMetadata.CTA861_3}
  PROVE  Answers(type, Provided(handle, imported, [NewMetadata EXCEPT !.CTA861_3 = w], type))
<1>1. gralloc_gm_android_format_to_gbm_format(handle.format) # NoFormat
  BY DEF ReportsInv, BufferFacts, HandleOf
<1>2. Len(w) = 2
  <2> DEFINE zeros == [i \in 1..2 |-> 0]
  <2>1. HasLength(zeros, 2)
    BY DEF HasLength
  <2>2. Len(zeros) = 2
    BY <2>1, LengthOf
  <2>3. NewMetadata.CTA861_3 = zeros
    BY DEF NewMetadata
  <2> HIDE DEF zeros
  <2> QED
    BY <2>2, <2>3, ReportsAssumption
<1> QED
  BY <1>1, <1>2, ProvidesSmall

\* In particular what they are worth now.
LEMMA CurrentAnswers ==
  ASSUME ReportsInv, imported # NotImported, NEW type \in StandardMetadataType
  PROVE  Answers(type, Current(type))
BY ProvidedAnswers DEF ReportsInv, MetadataFacts, Current

\* A query begins with the answer of the moment.
LEMMA BeginQuery ==
  ASSUME ReportsInv, NEW type \in StandardMetadataType, NEW guess \in Guesses, Begin(type, guess)
  PROVE  QueryInv'
<1>1. /\ imported # NotImported /\ UNCHANGED <<handle, imported, md>>
      /\ seen' = {Current(type)}
      /\ query' = [stage |-> "call", type |-> type, size |-> guess, calls |-> 0]
  BY DEF Begin
<1>2. query'.stage = "call" /\ query'.type = type /\ query'.size = guess /\ query'.calls = 0
  BY <1>1
<1>3. Current(type)' = Current(type) /\ Answers(type, Current(type)) /\ guess \in Nat
  BY <1>1, CurrentAnswers, ReportsAssumption DEF Current
<1>4. SeenAlike'
  BY <1>1, <1>2, <1>3 DEF SeenAlike, Current
<1>5. Progress' /\ AnsweredAsWritten'
  BY <1>2, <1>3 DEF Progress, AnsweredAsWritten
<1> QED
  BY <1>4, <1>5 DEF QueryInv

\* While it goes on nothing is seen that was not.
LEMMA SeenStays ==
  ASSUME ReportsInv, QueryInv, Call \/ Resize \/ Decode
  PROVE  /\ query # Idle /\ query.type \in StandardMetadataType
         /\ Current(query.type) \in seen
         /\ query'.type = query.type /\ seen' = seen
         /\ SeenAlike /\ SeenAlike'
<1>1. query.stage \in {"call", "resize", "decode"} /\ query # Idle
  BY IdleStage DEF Call, Resize, Decode
<1>2. /\ query'.type = query.type /\ seen' = seen
      /\ UNCHANGED <<descriptor, allocated, handle, imported, md>>
  BY DEF Call, Resize, Decode
<1>3. query.type \in StandardMetadataType /\ Current(query.type) \in seen
  BY <1>1 DEF ReportsInv, QueryFacts
<1>4. SeenAlike
  BY <1>1 DEF QueryInv
<1>5. SeenAlike'
  BY <1>2, <1>4 DEF SeenAlike, Current
<1> QED
  BY <1>1, <1>2, <1>3, <1>4, <1>5

\* One call: too small a guess is answered with the size it takes.
LEMMA CallKeepsQuery ==
  ASSUME ReportsInv, QueryInv, Call
  PROVE  QueryInv'
<1> DEFINE now == Current(query.type)
           answer == provideStandardMetadata(query.type, now, query.size)
<1>1. /\ query # Idle /\ query.type \in StandardMetadataType /\ now \in seen
      /\ query'.type = query.type /\ seen' = seen /\ SeenAlike /\ SeenAlike'
  BY SeenStays
<1>2. /\ query.size \in Nat /\ query.calls \in {0, 1}
      /\ query.calls = 1 => query.size = Reported(query.type, now)
  BY <1>1 DEF QueryInv, Progress, Call
<1>3. /\ \A s \in seen : Reported(query.type, s) = Reported(query.type, now)
      /\ Answers(query.type, now)
  BY <1>1 DEF SeenAlike
<1>4. /\ Reported(query.type, now) \in Nat
      /\ answer.desired = Reported(query.type, now)
      /\ Reported(query.type, now) <= query.size => answer.dest = Delivered(query.type, now)
  BY <1>1, <1>2, <1>3, CallReturns
<1>5. /\ query'.stage = IF answer.desired > query.size THEN "resize" ELSE "decode"
      /\ query'.calls = query.calls + 1
      /\ query'.returned = answer.desired /\ query'.dest = answer.dest
  BY DEF Call, Answer, getStandardMetadata, Current
<1> HIDE DEF now, answer
<1>6. Progress'
  <2>1. CASE answer.desired > query.size
    BY <1>1, <1>2, <1>3, <1>4, <1>5, <2>1 DEF Progress
  <2>2. CASE ~(answer.desired > query.size)
    <3>1. query'.dest = Delivered(query.type, now) /\ query'.stage = "decode"
      BY <1>2, <1>4, <1>5, <2>2
    <3> QED
      BY <1>1, <1>4, <1>5, <3>1 DEF Progress
  <2> QED
    BY <2>1, <2>2
<1>7. AnsweredAsWritten'
  BY <1>5 DEF AnsweredAsWritten
<1> QED
  BY <1>1, <1>6, <1>7 DEF QueryInv

\* The client allocates what it was told, after its first call.
LEMMA ResizeKeepsQuery ==
  ASSUME ReportsInv, QueryInv, Resize
  PROVE  QueryInv'
<1>1. /\ query # Idle /\ query.type \in StandardMetadataType /\ Current(query.type) \in seen
      /\ query'.type = query.type /\ seen' = seen /\ SeenAlike /\ SeenAlike'
  BY SeenStays
<1>2. query.calls = 1 /\ \A s \in seen : query.returned = Reported(query.type, s)
  BY <1>1 DEF QueryInv, Progress, Resize
<1>3. query'.stage = "call" /\ query'.size = query.returned /\ query'.calls = 1
  BY <1>2 DEF Resize
<1>4. query.returned \in Nat
  BY <1>1, <1>2, CallReturns, 0 \in Nat DEF SeenAlike
<1>5. Progress' /\ AnsweredAsWritten'
  BY <1>1, <1>2, <1>3, <1>4 DEF Progress, AnsweredAsWritten
<1> QED
  BY <1>1, <1>5 DEF QueryInv

\* It decodes a value the type has had, or learns that there is none.
LEMMA DecodeKeepsQuery ==
  ASSUME ReportsInv, QueryInv, Decode
  PROVE  QueryInv'
<1>1. /\ query # Idle /\ query.type \in StandardMetadataType
      /\ query'.type = query.type /\ seen' = seen /\ SeenAlike /\ SeenAlike'
  BY SeenStays
<1>2. PICK s \in seen : query.returned = Reported(query.type, s)
                        /\ query.dest = Delivered(query.type, s)
  BY <1>1 DEF QueryInv, Progress, Decode
<1>3. Answers(query.type, s)
  BY <1>1 DEF SeenAlike
<1> DEFINE d == decode(query.type, Delivered(query.type, s), Reported(query.type, s))
<1>4. Reported(query.type, s) \in Nat
  BY <1>1, <1>3, CallReturns, 0 \in Nat
<1>5. query' = [stage |-> IF d.ok THEN "answered" ELSE "refused", type |-> query.type,
                value |-> d.value]
  BY <1>2, <1>4 DEF Decode
<1>6. /\ s.returns = 0 => d = [ok |-> TRUE, value |-> Decoded(query.type, s.value)]
      /\ s.returns # 0 => ~d.ok
  BY <1>1, <1>3, DeliveredDecodes
<1> HIDE DEF d
<1>7. AnsweredAsWritten'
  <2>1. CASE s.returns = 0
    <3>1. query'.stage = "answered" /\ query'.value = Decoded(query.type, s.value)
      BY <1>5, <1>6, <2>1
    <3> QED
      BY <1>1, <1>2, <2>1, <3>1 DEF AnsweredAsWritten
  <2>2. CASE s.returns # 0
    <3>1. query'.stage = "refused"
      BY <1>5, <1>6, <2>2
    <3>2. \A t \in seen : t.returns # 0
      BY <1>1, <1>2, <2>2 DEF SeenAlike
    <3> QED
      BY <1>1, <3>1, <3>2 DEF AnsweredAsWritten
  <2> QED
    BY <2>1, <2>2
<1>8. Progress'
  BY <1>5 DEF Progress
<1> QED
  BY <1>1, <1>7, <1>8 DEF QueryInv

\* Another client's HDR metadata, seen by a query for them, are of the size of
\* those it replaces.
LEMMA SetKeepsQuery ==
  ASSUME ReportsInv, QueryInv, NEW value \in HdrValues, NEW encoded \in BOOLEAN,
         Set(value, encoded)
  PROVE  QueryInv'
<1>1. /\ imported # NotImported /\ UNCHANGED <<descriptor, allocated, handle, imported, query>>
      /\ md' \in {[md EXCEPT !.CTA861_3 = value], md}
      /\ seen' = IF query # Idle /\ query.type = "CTA861_3"
                   THEN seen \cup {Provided(handle, imported, md', "CTA861_3")} ELSE seen
  BY DEF Set
<1>2. PICK w \in HdrValues \cup {NewMetadata.CTA861_3} : md = [NewMetadata EXCEPT !.CTA861_3 = w]
  BY DEF ReportsInv, MetadataFacts
<1>3. PICK v \in HdrValues \cup {NewMetadata.CTA861_3} : md' = [NewMetadata EXCEPT !.CTA861_3 = v]
  BY <1>1, <1>2 DEF NewMetadata
<1> SUFFICES ASSUME query # Idle
             PROVE  SeenAlike' /\ Progress' /\ AnsweredAsWritten'
  BY <1>1 DEF QueryInv
<1>4. query.type \in StandardMetadataType /\ SeenAlike /\ Progress /\ AnsweredAsWritten
  BY DEF ReportsInv, QueryFacts, QueryInv
<1>5. CASE query.type # "CTA861_3"
  <2>1. seen' = seen /\ query' = query
    BY <1>1, <1>5
  <2>2. Provided(handle, imported, md', query.type) = Provided(handle, imported, md, query.type)
    BY <1>2, <1>3, <1>4, <1>5, ProvidedStable
  <2>3. SeenAlike'
    BY <1>1, <1>4, <1>5, <2>1, <2>2 DEF SeenAlike, Current
  <2>4. Progress' /\ AnsweredAsWritten'
    BY <1>4, <2>1 DEF Progress, AnsweredAsWritten
  <2> QED
    BY <2>3, <2>4
<1>6. CASE query.type = "CTA861_3"
  <2> DEFINE new == Provided(handle, imported, md', "CTA861_3")
  <2>1. seen' = seen \cup {new} /\ query' = query
    BY <1>1, <1>6
  <2>2. Answers("CTA861_3", new)
    BY <1>1, <1>3, <1>4, <1>6, ProvidedAnswers
  <2> HIDE DEF new
  <2>3. \A s \in seen' : Answers("CTA861_3", s)
    BY <1>4, <1>6, <2>1, <2>2 DEF SeenAlike
  <2>4. \A s, t \in seen' : /\ s.returns = t.returns /\ s.returns = 0
                            /\ Reported("CTA861_3", s) = Reported("CTA861_3", t)
    BY <2>3, CtaAlike
  <2>5. SeenAlike'
    BY <1>6, <2>1, <2>3, <2>4 DEF SeenAlike
  <2>6. PICK old : old \in seen
    BY DEF ReportsInv, QueryFacts
  <2>7. Progress'
    BY <1>4, <1>6, <2>1, <2>4, <2>6 DEF Progress
  <2>8. AnsweredAsWritten'
    BY <1>4, <1>6, <2>1, <2>4, <2>6 DEF AnsweredAsWritten
  <2> QED
    BY <2>5, <2>7, <2>8
<1> QED
  BY <1>5, <1>6

\* The invariant of queries.
THEOREM QueryInvHolds == Spec => []QueryInv
<1>1. Init => QueryInv
  BY DEF Init, QueryInv
<1>2. ReportsInv /\ QueryInv /\ [Next]_vars => QueryInv'
  <2> SUFFICES ASSUME ReportsInv, QueryInv, [Next]_vars
               PROVE  QueryInv'
    OBVIOUS
  <2>1. CASE UNCHANGED vars
    BY <2>1 DEF vars, QueryInv, SeenAlike, Progress, AnsweredAsWritten, Current
  <2>2. ASSUME NEW d \in Descriptors, NEW pitch \in Pitches, Allocate(d, pitch)
        PROVE  QueryInv'
    BY <2>2 DEF Allocate, QueryInv, ReportsInv, BufferFacts, QueryFacts
  <2>3. CASE Import
    BY <2>3 DEF Import, QueryInv, ReportsInv, QueryFacts
  <2>4. CASE Free
    BY <2>4 DEF Free, QueryInv
  <2>5. CASE Finish
    BY <2>5 DEF Finish, QueryInv
  <2> QED
    BY <2>1, <2>2, <2>3, <2>4, <2>5, BeginQuery, CallKeepsQuery, ResizeKeepsQuery,
       DecodeKeepsQuery, SetKeepsQuery DEF Next
<1> QED
  BY <1>1, <1>2, ReportsInvHolds, PTL DEF Spec

\* AnsweredAsWritten: getStandardMetadata encodes into the caller's buffer while
\* another client sets the same metadata; for every buffer, guess and
\* interleaving, the value decoded is one the type had during the query, and a
\* query is refused only where the mapper has no answer.
THEOREM AnsweredAsWrittenHolds == Spec => []AnsweredAsWritten
<1>1. ReportsInv /\ QueryInv => AnsweredAsWritten
  BY DEF QueryInv, AnsweredAsWritten, Idle
<1> QED
  BY <1>1, ReportsInvHolds, QueryInvHolds, PTL

\* The stride a query of an imported buffer is answered with.
LEMMA StrideProvided ==
  ASSUME ReportsInv, imported # NotImported
  PROVE  Current("STRIDE") = [returns |-> 0, value |-> allocated.pixelStride]
<1> DEFINE values == BufferValues(handle, imported, md)
<1>1. descriptor # NoBuffer
  BY DEF ReportsInv, BufferFacts
<1>2. PICK pitch \in Pitches : allocated = BoOf(descriptor, pitch)
  BY <1>1 DEF ReportsInv, BufferFacts
<1>3. handle.format = descriptor.format /\ handle.stride = allocated.stride
  BY <1>1, RequestedSizes
<1>4. allocated.pixelStride
        = gralloc_gm_android_caculate_pixel_stride(handle.format, handle.stride)
  BY <1>2, <1>3 DEF BoOf
<1>5. "STRIDE" \in DOMAIN values /\ values["STRIDE"] = allocated.pixelStride
  BY <1>4 DEF BufferValues
<1> HIDE DEF values
<1>6. Provided(handle, imported, md, "STRIDE") = [returns |-> 0, value |-> values["STRIDE"]]
  BY <1>5 DEF Provided, values
<1> QED
  BY <1>5, <1>6 DEF Current

\* It is one number of a message.
LEMMA StrideDecoded ==
  ASSUME NEW v
  PROVE  Decoded("STRIDE", v) = <<v>>
<1>1. Kind["STRIDE"] = "int32"
  BY DEF Kind
<1>2. Decoded("STRIDE", v) = DataOfFields(Int32(v))
  BY <1>1 DEF Decoded, IsAbsent, Optional, Payload
<1> QED
  BY <1>2 DEF DataOfFields, Int32

\* StrideAgrees: the stride in pixels that the mapper computes from the handle is
\* the one the allocator returned, through both codecs, and in a format with a
\* pixel of its own it holds the row requested.
THEOREM StrideAgreesHolds == Spec => []StrideAgrees
<1>1. ReportsInv /\ QueryInv => StrideAgrees
  <2> SUFFICES ASSUME ReportsInv, QueryInv
               PROVE  StrideAgrees
    OBVIOUS
  <2>1. ASSUME query.stage = "answered", query.type = "STRIDE"
        PROVE  query.value = <<allocated.pixelStride>>
    <3>1. query # Idle
      BY <2>1, IdleStage
    <3>2. imported # NotImported /\ seen = {Current("STRIDE")} /\ AnsweredAsWritten
      BY <2>1, <3>1 DEF ReportsInv, QueryFacts, QueryInv, SeenAlike
    <3>3. query.value = Decoded("STRIDE", Current("STRIDE").value)
      BY <2>1, <3>2 DEF AnsweredAsWritten
    <3> QED
      BY <3>2, <3>3, StrideProvided, StrideDecoded
  <2>2. ASSUME descriptor # NoBuffer, RowFormat(descriptor.format)
        PROVE  allocated.pixelStride >= descriptor.width
    BY <2>2, PixelStrideHoldsRow
  <2> QED
    BY <2>1, <2>2 DEF StrideAgrees
<1> QED
  BY <1>1, ReportsInvHolds, QueryInvHolds, PTL

\* A value the mapper provides is encoded into as many bytes as its size asked
\* for, and read back from them; from one byte less it is not.
LEMMA ProvidedSurvives ==
  ASSUME NEW type \in StandardMetadataType, NEW s, Answers(type, s), s.returns = 0
  PROVE  LET value == s.value
             size == encode(type, value, 0).desired
         IN
         /\ decode(type, encode(type, value, size).dest, size)
              = [ok |-> TRUE, value |-> Decoded(type, value)]
         /\ ~decode(type, encode(type, value, size - 1).dest, size - 1).ok
<1> DEFINE v == s.value
           n == Total(Message(type, v))
<1>1. Fits(Kind[type], v) /\ n <= MaxInt32 /\ ~IsAbsent(type, v)
  BY SmallMessages DEF Answers, UNSUPPORTED
<1>2. n \in Nat /\ n >= 8
  BY <1>1, MessageOfValue, MessageParts
<1>3. 0 \in Nat /\ n - 1 \in Nat /\ n - 1 # 0 /\ n - 1 < n /\ n <= n
  <2> HIDE DEF n
  <2> QED
    BY <1>2
<1> HIDE DEF n, v
<1>4. encode(type, v, 0).desired = n
  BY ONLY <1>1, <1>3, RoundTrip, type \in StandardMetadataType DEF n
<1>5. /\ encode(type, v, n).desired = n
      /\ decode(type, encode(type, v, n).dest, encode(type, v, n).desired)
           = [ok |-> TRUE, value |-> Decoded(type, v)]
  BY ONLY <1>1, <1>2, <1>3, RoundTrip, type \in StandardMetadataType DEF n
<1>6. ~decode(type, encode(type, v, n - 1).dest, n - 1).ok
  BY ONLY <1>1, <1>2, <1>3, ShortRefused, type \in StandardMetadataType DEF n
<1> QED
  BY <1>4, <1>5, <1>6 DEF v

\* Whatever is allocated, imported and set, every value the mapper provides of
\* the buffer survives MetadataValue::encode and decode, and one byte less is
\* refused.  CodecTestsPass is about no state: a run evaluates it.
THEOREM CodecKeepsReportsHolds == CodecTestsPass /\ Spec => []CodecKeepsReports
<1> SUFFICES ASSUME CodecTestsPass
             PROVE  Spec => []CodecKeepsReports
  OBVIOUS
<1>1. ReportsInv => CodecKeepsReports
  <2> SUFFICES ASSUME ReportsInv, imported # NotImported,
                      NEW type \in StandardMetadataType, Current(type).returns = 0
               PROVE  LET value == Current(type).value
                          size == encode(type, value, 0).desired
                      IN
                      /\ decode(type, encode(type, value, size).dest, size)
                           = [ok |-> TRUE, value |-> Decoded(type, value)]
                      /\ ~decode(type, encode(type, value, size - 1).dest, size - 1).ok
    BY DEF CodecKeepsReports
  <2> DEFINE s == Current(type)
  <2>1. Answers(type, s) /\ s.returns = 0
    BY CurrentAnswers
  <2> HIDE DEF s
  <2>2. LET value == s.value
            size == encode(type, value, 0).desired
        IN
        /\ decode(type, encode(type, value, size).dest, size)
             = [ok |-> TRUE, value |-> Decoded(type, value)]
        /\ ~decode(type, encode(type, value, size - 1).dest, size - 1).ok
    BY ONLY <2>1, ProvidedSurvives, type \in StandardMetadataType
  <2> QED
    BY <2>2 DEF s
<1> QED
  BY <1>1, ReportsInvHolds, PTL

=============================================================================
