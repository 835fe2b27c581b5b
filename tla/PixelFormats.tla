---------------------------- MODULE PixelFormats ----------------------------
(***************************************************************************)
(* The pure part of libgralloc_gm: Android formats and usage translated    *)
(* for GBM, the dimensions a buffer is allocated and imported with,        *)
(* strides, the planes of a YCbCr lock, and the plane layouts of the       *)
(* mapper.  Formats and flags are named by strings; usage is a set of the  *)
(* GRALLOC_USAGE_ and GBM_BO_USE_ names.                                   *)
(***************************************************************************)
EXTENDS Integers, Sequences

\* The macros; the alignments are powers of two.
ALIGN(a, b) == ((a + b - 1) \div b) * b
DIV_ROUND_UP(n, d) == (n + d - 1) \div d
AtLeast(a, b) == IF a < b THEN b ELSE a

\* The value 0 the switch leaves for a format it does not know.
NoFormat == "0"

GbmFormatOf ==
  [RGBA_8888 |-> "ABGR8888", RGBX_8888 |-> "XBGR8888", RGB_888 |-> "BGR888",
   RGB_565 |-> "BGR565", BGRA_8888 |-> "ARGB8888", RAW16 |-> "R16", YV12 |-> "GR88",
   Y8 |-> "R8", Y16 |-> "R16", RGBA_FP16 |-> "ABGR16161616F",
   RGBA_1010102 |-> "ABGR2101010", YCBCR_422_SP |-> "YUV422", YCBCR_420_888 |-> "YUV420",
   YCRCB_420_SP |-> "YUV420", YCBCR_P010 |-> "P010", BLOB |-> "R8",
   IMPLEMENTATION_DEFINED |-> "9998"]

gralloc_gm_android_format_to_gbm_format(f) ==
  IF f \in DOMAIN GbmFormatOf THEN GbmFormatOf[f] ELSE NoFormat

gralloc_gm_get_gbm_flags_from_android_usage(usage, f) ==
  LET Asks(bits) == usage \cap bits # {}
      When(condition, flags) == IF condition THEN flags ELSE {}
  IN
  UNION {When(Asks({"SW_READ_OFTEN", "SW_WRITE_OFTEN"}), {"LINEAR"}),
         When(Asks({"CURSOR"}) /\ gralloc_gm_android_format_to_gbm_format(f) = "ARGB8888",
              {"CURSOR"}),
         When(Asks({"HW_RENDER", "HW_TEXTURE"}), {"RENDERING"}),
         When(Asks({"HW_FB"}), {"SCANOUT"}),
         When(Asks({"HW_COMPOSER"}), {"SCANOUT", "RENDERING"}),
         When(Asks({"PROTECTED"}), {"PROTECTED"})}

\* The bits of a pixel of each format the switch knows, 0 of any other.
gralloc_gm_get_bpp_from_gbm_format(g) ==
  CASE g \in {"C8", "RGB332", "BGR233"} -> 8
    [] g \in {"YUV420", "NV12", "NV21", "YVU420"} -> 12
    [] g \in {"XRGB4444", "XBGR4444", "RGBX4444", "BGRX4444", "ARGB4444", "ABGR4444",
              "RGBA4444", "BGRA4444", "XRGB1555", "XBGR1555", "RGBX5551", "BGRX5551",
              "ARGB1555", "ABGR1555", "RGBA5551", "BGRA5551", "RGB565", "BGR565",
              "YUYV", "YVYU", "UYVY", "VYUY", "YUV422", "R16", "GR88"} -> 16
    [] g \in {"RGB888", "BGR888", "YUV444"} -> 24
    [] g \in {"XRGB8888", "XBGR8888", "RGBX8888", "BGRX8888", "ARGB8888", "ABGR8888",
              "RGBA8888", "BGRA8888", "XRGB2101010", "XBGR2101010", "ARGB2101010",
              "ABGR2101010", "RG1616"} -> 32
    [] g \in {"XBGR16161616", "ABGR16161616", "XBGR16161616F", "ABGR16161616F"} -> 64
    [] OTHER -> 0

\* Fault: a pixel is rounded up past its last byte.
BytesPerPixelPastLast(f) ==
  LET bpp == gralloc_gm_get_bpp_from_gbm_format(gralloc_gm_android_format_to_gbm_format(f)) IN
  IF bpp > 0 THEN (bpp + 8) \div 8 ELSE 4

gralloc_gm_get_bytes_per_pixel(f) ==
  LET bpp == gralloc_gm_get_bpp_from_gbm_format(gralloc_gm_android_format_to_gbm_format(f)) IN
  IF bpp > 0 THEN (bpp + 7) \div 8 ELSE 4

gralloc_gm_android_caculate_pixel_stride(f, stride) ==
  DIV_ROUND_UP(stride, gralloc_gm_get_bytes_per_pixel(f))

-----------------------------------------------------------------------------
(* The buffer object's dimensions. *)

CursorSize(n) == ALIGN(AtLeast(n, 64), 16)

\* gralloc_allocate: YV12 is asked for as GR88 of half the width, with room for
\* the chroma planes below the luma plane.
AllocationSize(d) ==
  LET cursor == "CURSOR" \in gralloc_gm_get_gbm_flags_from_android_usage(d.usage, d.format)
      width  == IF cursor THEN CursorSize(d.width) ELSE d.width
      height == IF cursor THEN CursorSize(d.height) ELSE d.height
  IN
  IF d.format = "YV12"
    THEN [width |-> ALIGN(d.width, 32) \div 2, height |-> height + ALIGN(d.height, 2) \div 2]
    ELSE [width |-> width, height |-> height]

\* Fault: the import does not make room for the chroma planes.
ImportSizeLumaOnly(d) == [width |-> d.width, height |-> d.height]

\* gralloc_gm_buffer_import: the cursor usage alone decides, whatever the format.
ImportSize(d) ==
  IF d.format = "YV12"
    THEN [width |-> ALIGN(d.width, 32) \div 2, height |-> d.height + ALIGN(d.height, 2) \div 2]
  ELSE IF "CURSOR" \in d.usage
    THEN [width |-> CursorSize(d.width), height |-> CursorSize(d.height)]
    ELSE [width |-> d.width, height |-> d.height]

\* gbm_bo_create: the backend rounds a row, of the first plane, up to its pitch.
\* It knows three formats the switch above does not.
BitsInFirstPlane(gbmFormat) ==
  CASE gbmFormat \in {"YUV420", "R8"} -> 8
    [] gbmFormat = "P010" -> 16
    [] gbmFormat = "9998" -> 32
    [] OTHER -> gralloc_gm_get_bpp_from_gbm_format(gbmFormat)
BoStride(size, gbmFormat, pitch) ==
  ALIGN(DIV_ROUND_UP(size.width * BitsInFirstPlane(gbmFormat), 8), pitch)

-----------------------------------------------------------------------------
(* Planes. *)

\* gralloc_gbm_bo_lock_ycbcr: offsets from the mapped address.
YcbcrFormat == {"YCRCB_420_SP", "YV12"}

\* Fault: Cb starts where Cr starts.
YcbcrSamePlane(d) ==
  LET c == ALIGN(d.width \div 2, 16) IN
  [y |-> 0, cr |-> d.width * d.height, cb |-> d.width * d.height,
   ystride |-> d.width, cstride |-> c, chroma_step |-> 1]

Ycbcr(d) ==
  LET s == ALIGN(d.width, 16)
      c == ALIGN(d.width \div 2, 16)
  IN
  IF d.format = "YCRCB_420_SP"
    THEN [y |-> 0, cr |-> s * d.height, cb |-> s * d.height + 1,
          ystride |-> s, cstride |-> s, chroma_step |-> 2]
    ELSE [y |-> 0, cr |-> d.width * d.height,
          cb |-> d.width * d.height + (c * d.height) \div 2,
          ystride |-> d.width, cstride |-> c, chroma_step |-> 1]

\* GetPlaneLayoutsMap: for each plane its components, each with offset and size
\* in bits, its sample increment and its subsampling in both directions.
Plane(components, increment, subsampling) ==
  [components |-> components, sampleIncrementInBits |-> increment, subsampling |-> subsampling]

Rgb(order, bits, increment) ==
  Plane([i \in 1..Len(order) |-> <<order[i], (i - 1) * bits, bits>>], increment, 1)

Luma == Plane(<< <<"Y", 0, 8>> >>, 8, 1)
Chroma(first, second) == Plane(<< <<first, 0, 8>>, <<second, 8, 8>> >>, 16, 2)

RgbaLayouts ==
  [ABGR8888 |-> <<Rgb(<<"R", "G", "B", "A">>, 8, 32)>>,
   ABGR2101010 |-> <<Plane(<< <<"R", 0, 10>>, <<"G", 10, 10>>, <<"B", 20, 10>>, <<"A", 30, 2>> >>,
                           32, 1)>>,
   ABGR16161616F |-> <<Rgb(<<"R", "G", "B", "A">>, 16, 64)>>,
   ARGB8888 |-> <<Rgb(<<"B", "G", "R", "A">>, 8, 32)>>]

SemiPlanarLayouts == [NV12 |-> <<Luma, Chroma("CB", "CR")>>, NV21 |-> <<Luma, Chroma("CR", "CB")>>]

RgbLayouts ==
  [R8 |-> <<Rgb(<<"R">>, 8, 8)>>,
   R16 |-> <<Rgb(<<"R">>, 16, 16)>>,
   RGB565 |-> <<Plane(<< <<"B", 0, 5>>, <<"G", 5, 6>>, <<"R", 11, 5>> >>, 16, 1)>>,
   BGR888 |-> <<Rgb(<<"R", "G", "B">>, 8, 24)>>,
   XBGR8888 |-> <<Rgb(<<"R", "G", "B">>, 8, 32)>>]

OtherLayouts ==
  [YVU420 |-> <<Luma, Plane(<< <<"CR", 0, 8>> >>, 8, 2), Plane(<< <<"CB", 0, 8>> >>, 8, 2)>>,
   RGBX8888 |-> <<Plane(<< <<"B", 16, 8>>, <<"G", 8, 8>>, <<"R", 0, 8>> >>, 32, 1)>>,
   XRGB8888 |-> <<Plane(<< <<"B", 16, 8>>, <<"G", 8, 8>>, <<"R", 0, 8>> >>, 32, 1)>>]

\* A format without layouts leaves the caller's vector empty.
getPlaneLayouts(g) ==
  CASE g \in DOMAIN RgbaLayouts -> RgbaLayouts[g]
    [] g \in DOMAIN SemiPlanarLayouts -> SemiPlanarLayouts[g]
    [] g \in DOMAIN RgbLayouts -> RgbLayouts[g]
    [] g \in DOMAIN OtherLayouts -> OtherLayouts[g]
    [] OTHER -> <<>>

=============================================================================
