------------------------------ MODULE DspImage ------------------------------
(***************************************************************************)
(* The images, regions and buffers of the imaging library, and the checks  *)
(* it makes on them before a command goes to the driver: image_utils.cpp,  *)
(* the verify_* helpers of resize.cpp, blend.cpp, blur.cpp and dewarp.cpp, *)
(* BufferList and send_command.cpp's add_images_to_buffer_list.            *)
(*                                                                         *)
(* A quantity of the API is a size_t, a number below SizeMod; the driver   *)
(* and the DSP are given 32-bit numbers, below U32Mod.  Sums and products  *)
(* of size_t wrap, and a narrowing cast keeps the low 32 bits.  Most       *)
(* quotients are taken in floating point: the size_t is first rounded to   *)
(* the numbers a double, or in the limits of a privacy mask's regions a    *)
(* float, can hold.  The divisors are powers of two, so the quotient of    *)
(* the rounded number is exact, and so is its ceil.                        *)
(*                                                                         *)
(* An image is [width, height, format, memory, planes]; planes is the      *)
(* array, so planes_count is its length and a NULL array is the empty one. *)
(* A plane is [ptr, bytesperline, bytesused]; ptr is the union of userptr  *)
(* and fd.                                                                 *)
(***************************************************************************)
EXTENDS Naturals, SequencesExt

CONSTANTS
  SizeMod,      \* 2 to the width of size_t
  U32Mod,       \* 2 to the width of __u32
  FloatExact,   \* 2^24: a float has 24 significant bits, and holds every
  DoubleExact,  \* integer up to here; a double has 53, so 2^53
  NULL          \* the null pointer

\* A power of two has no odd divisor but 1.
PowerOfTwo(u) == \A d \in 2..u : u % d = 0 => d % 2 = 0

ASSUME WordAssumption ==
  /\ SizeMod \in Nat \ {0}
  /\ PowerOfTwo(SizeMod)
  /\ U32Mod \in 1..SizeMod

\* A double holds every 32-bit number; a float has 8 bits less than those.
ASSUME FloatingAssumption ==
  /\ FloatExact \in Nat \ {0}
  /\ DoubleExact \in Nat \ {0}
  /\ U32Mod <= DoubleExact
  /\ 256 * FloatExact \in U32Mod..SizeMod

Size(n) == n % SizeMod
U32(n) == n % U32Mod
CeilDiv(a, b) == (a + b - 1) \div b
RoundUp(n, s) == CeilDiv(n, s) * s

\* The distance of the floating-point numbers around n: the least power of two
\* that keeps the mantissa, n divided by it, below exact, but at least 1.
Spacing(n, exact) ==
  IF n < exact THEN 1
  ELSE CHOOSE u \in 1..SizeMod :
         /\ PowerOfTwo(u) /\ n < exact * u
         /\ \A v \in 1..(u - 1) : PowerOfTwo(v) => n >= exact * v

\* n rounded to the nearest of them; from the middle, to the even multiple.
RoundedTo(n, exact) ==
  LET u == Spacing(n, exact)
      down == n \div u
      over == 2 * (n % u)
  IN  u * (IF over < u \/ (over = u /\ down % 2 = 0) THEN down ELSE down + 1)

Float(n) == RoundedTo(n, FloatExact)
Double(n) == RoundedTo(n, DoubleExact)

MaskQuantization == 4
MeshSquare == 64

(***************************************************************************)
(* What verify_image_properties asks of an image.  For each format, its    *)
(* planes: bytes per sample, and how many pixels of a line and how many    *)
(* lines share a sample.                                                   *)
(***************************************************************************)
Plane(bytes, across, down) == [bytes |-> bytes, across |-> across, down |-> down]

PlaneLayout ==
  [ GRAY8 |-> << Plane(1, 1, 1) >>,
    RGB   |-> << Plane(3, 1, 1) >>,
    NV12  |-> << Plane(1, 1, 1), Plane(2, 2, 2) >>,
    A420  |-> << Plane(1, 1, 1), Plane(1, 2, 2), Plane(1, 2, 2), Plane(1, 1, 1) >> ]

\* With one mistake: a line is compared with the number of its pixels.
VerifyPlaneOneBytePixels(image, plane, layout) ==
  /\ plane.ptr # NULL
  /\ Double(plane.bytesperline) >= CeilDiv(Double(image.width), layout.across)
  /\ Double(plane.bytesused)
       >= CeilDiv(Double(Size(plane.bytesperline * image.height)), layout.down)

VerifyPlane(image, plane, layout) ==
  /\ plane.ptr # NULL
  /\ Double(plane.bytesperline)
       >= CeilDiv(Double(Size(image.width * layout.bytes)), layout.across)
  /\ Double(plane.bytesused)
       >= CeilDiv(Double(Size(plane.bytesperline * image.height)), layout.down)

VerifyYuv420(image) == image.width % 2 = 0 /\ image.height % 2 = 0

VerifyImage(image) ==
  /\ image # NULL
  /\ image.width # 0
  /\ image.height # 0
  /\ image.planes # <<>>
  /\ image.format \in DOMAIN PlaneLayout
  /\ Len(image.planes) = Len(PlaneLayout[image.format])
  /\ image.format \in {"NV12", "A420"} => VerifyYuv420(image)
  /\ \A j \in DOMAIN image.planes :
       VerifyPlane(image, image.planes[j], PlaneLayout[image.format][j])

(***************************************************************************)
(* Regions of interest, overlays and meshes.  verify_crop_params (resize)  *)
(* and verify_roi_params (blur) make the same checks.                      *)
(***************************************************************************)
\* With one mistake: the vertical end is not compared with the height.
VerifyRoiAnyHeight(width, height, roi) ==
  /\ roi.start_x < roi.end_x
  /\ roi.start_y < roi.end_y
  /\ roi.end_x <= width

VerifyRoi(width, height, roi) ==
  /\ roi.start_x < roi.end_x
  /\ roi.start_y < roi.end_y
  /\ roi.end_x <= width
  /\ roi.end_y <= height

VerifyCrop(image, roi) ==
  /\ image # NULL
  /\ roi # NULL
  /\ VerifyRoi(image.width, image.height, roi)

WholeImage(image) ==
  [start_x |-> 0, start_y |-> 0, end_x |-> image.width, end_y |-> image.height]

Cropped(image, roi) ==
  [image EXCEPT !.width = roi.end_x - roi.start_x, !.height = roi.end_y - roi.start_y]

\* The limits of a mask's regions, which the check takes in float.
MaskWidthLimit(image) == CeilDiv(Float(image.width), MaskQuantization)
MaskHeightLimit(image) == CeilDiv(Float(image.height), MaskQuantization)

\* With one mistake: no limit on the number of regions.
VerifyMaskAnyCount(image, mask, maxRois) ==
  mask # NULL =>
    /\ image # NULL
    /\ mask.bitmask # NULL
    /\ Len(mask.rois) > 0
    /\ \A i \in DOMAIN mask.rois :
         VerifyRoi(MaskWidthLimit(image), MaskHeightLimit(image), mask.rois[i])

VerifyMask(image, mask, maxRois) ==
  mask # NULL =>
    /\ image # NULL
    /\ mask.bitmask # NULL
    /\ Len(mask.rois) \in 1..maxRois
    /\ \A i \in DOMAIN mask.rois :
         VerifyRoi(MaskWidthLimit(image), MaskHeightLimit(image), mask.rois[i])

\* The bitmask as it is described to the DSP: a bit for 4x4 pixels, and lines
\* padded to a multiple of 8 bytes.  These quotients are taken in double.
MaskStride(image) == RoundUp(CeilDiv(Double(image.width), MaskQuantization * 8), 8)
MaskLines(image) == CeilDiv(Double(image.height), MaskQuantization)
\* With one mistake: the last, partial line of blocks is not counted.
MaskSizeFullBlocks(image) == Size(MaskStride(image) * (image.height \div MaskQuantization))
MaskSize(image) == Size(MaskStride(image) * MaskLines(image))

\* With one mistake: only the corner of the overlay has to be in the image.
VerifyOverlayCorner(image, o) ==
  /\ o.x_offset <= image.width
  /\ o.y_offset <= image.height

VerifyOverlay(image, o) ==
  /\ Size(o.x_offset + o.overlay.width) <= image.width
  /\ Size(o.y_offset + o.overlay.height) <= image.height

MinimumMesh(n) == n \div MeshSquare + (IF n % MeshSquare = 0 THEN 0 ELSE 1)

VerifyMesh(mesh, dst) ==
  /\ mesh.width # 0
  /\ mesh.height # 0
  /\ mesh.table # NULL
  /\ mesh.width >= MinimumMesh(dst.width)
  /\ mesh.height >= MinimumMesh(dst.height)

(***************************************************************************)
(* The buffers of a command: BufferList, convert_image and                 *)
(* add_images_to_buffer_list.  An element of images is [image, access].    *)
(* Buffer indices count from 0.                                            *)
(***************************************************************************)
AddBuffer(buffers, ptr, size, access) ==
  Append(buffers, [ptr |-> ptr, size |-> U32(size), access |-> access,
                   memory |-> "USERPTR"])

\* convert_image, with the index of the buffer of each plane; the first plane's
\* is the given one.
ConvertImage(image, first) ==
  [ width |-> U32(image.width), height |-> U32(image.height), format |-> image.format,
    planes |-> [j \in DOMAIN image.planes |->
      [ index |-> first + j - 1,
        stride |-> U32(image.planes[j].bytesperline),
        size |-> U32(image.planes[j].bytesused) ]] ]

PlaneBuffers(im) ==
  [j \in DOMAIN im.image.planes |->
    [ ptr |-> im.image.planes[j].ptr, size |-> U32(im.image.planes[j].bytesused),
      access |-> im.access, memory |-> im.image.memory ]]

\* The index of the first plane of images[k]: the length the list has then.
\* With one mistake: the length it has after the image's planes were added.
FirstIndexAfter(buffers, images, k) ==
  Len(buffers) + Len(FlattenSeq([i \in 1..k |-> PlaneBuffers(images[i])]))

FirstIndex(buffers, images, k) ==
  Len(buffers) + Len(FlattenSeq([i \in 1..(k - 1) |-> PlaneBuffers(images[i])]))

AddImages(buffers, images) ==
  [ buffers |-> buffers \o FlattenSeq([k \in DOMAIN images |-> PlaneBuffers(images[k])]),
    images |-> [k \in DOMAIN images |->
                 ConvertImage(images[k].image, FirstIndex(buffers, images, k))] ]
=============================================================================
