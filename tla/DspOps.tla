------------------------------- MODULE DspOps -------------------------------
(***************************************************************************)
(* The imaging operations of the library: crop and resize, multi crop and  *)
(* resize with or without a privacy mask, blend, blur, format conversion   *)
(* and dewarp.  A call checks its arguments in the code's order, builds    *)
(* the request and the list of buffers, and hands them to the driver in    *)
(* one ioctl; an argument that fails its check ends the call with no       *)
(* command.  The library keeps no state between calls: call and command    *)
(* hold one call's arguments and what it gave the driver, until it         *)
(* returns.  What the ioctl answers is the driver's.                       *)
(*                                                                         *)
(* dsp_multi_crop_and_resize is the call whose mask is NULL.               *)
(***************************************************************************)
EXTENDS DspImage

CONSTANTS
  Devices,            \* handles a caller may pass, NULL among them
  Interpolations,     \* values of dsp_interpolation_type_t and the next one
  Sources, Targets,   \* images, or NULL
  Rois,               \* regions, or NULL
  RoiLists,           \* arrays of regions, or NULL
  KernelSizes,
  Masks,              \* privacy masks, or NULL
  TargetLists,        \* arrays of MultiOutputs images, each of which may be NULL
  OverlayLists,       \* arrays of overlays, or NULL
  Meshes,             \* dewarp meshes, or NULL
  MultiOutputs,       \* DSP_MULTI_RESIZE_OUTPUTS_COUNT
  MaxBlendOverlays, MaxBlurRois, MaxMaskRois,
  KernelMaxSize

ASSUME LimitAssumption ==
  /\ MultiOutputs \in Nat \ {0}
  /\ {MaxBlendOverlays, MaxBlurRois, MaxMaskRois, KernelMaxSize} \subseteq Nat \ {0}

\* The numbers a caller can pass are values of size_t.
SizeT == 0..(SizeMod - 1)
HasSides(image) == image.width \in SizeT /\ image.height \in SizeT
HasRoi(r) == {r.start_x, r.start_y, r.end_x, r.end_y} \subseteq SizeT
IsArray(a) == Len(a) \in Nat /\ DOMAIN a = 1..Len(a)
HasRois(rs) == IsArray(rs) /\ \A i \in DOMAIN rs : HasRoi(rs[i])
IsImage(image) ==
  /\ {"width", "height", "format", "memory", "planes"} \subseteq DOMAIN image
  /\ HasSides(image)
  /\ IsArray(image.planes)
  /\ \A j \in DOMAIN image.planes :
       {image.planes[j].bytesperline, image.planes[j].bytesused} \subseteq SizeT

ASSUME InputAssumption ==
  /\ \A s \in (Sources \cup Targets) \ {NULL} : IsImage(s)
  /\ \A r \in Rois \ {NULL} : HasRoi(r)
  /\ \A rs \in RoiLists \ {NULL} : HasRois(rs)
  /\ \A ts \in TargetLists :
       DOMAIN ts = 1..MultiOutputs /\ \A i \in DOMAIN ts : ts[i] # NULL => IsImage(ts[i])
  /\ \A os \in OverlayLists \ {NULL} :
       /\ IsArray(os)
       /\ \A i \in DOMAIN os :
            IsImage(os[i].overlay) /\ {os[i].x_offset, os[i].y_offset} \subseteq SizeT
  /\ \A m \in Masks \ {NULL} : HasRois(m.rois)
  /\ \A m \in Meshes \ {NULL} : {m.width, m.height} \subseteq SizeT

\* What a command says of a bitmask or a mesh is not the null pointer.
ASSUME NullAssumption ==
  /\ NULL \notin [index : Nat, stride : Nat, size : Nat,
                  rois : Seq([start_x : Nat, start_y : Nat, end_x : Nat, end_y : Nat])]
  /\ NULL \notin [index : Nat, stride : Nat, size : Nat, width : Nat, height : Nat]

VARIABLES
  call,         \* the call being made: its operation and arguments, or NULL
  status,       \* what it is about to return
  command       \* what it gave the driver, or NULL

vars == <<call, status, command>>

Supported(format) == format \in {"GRAY8", "RGB", "NV12"}

RoiU32(roi) == [start_x |-> U32(roi.start_x), start_y |-> U32(roi.start_y),
                end_x |-> U32(roi.end_x), end_y |-> U32(roi.end_y)]

\* The request without the parts only some operations have.
Request(op, added) ==
  [op |-> op, images |-> added.images, buffers |-> added.buffers,
   rois |-> <<>>, overlays |-> <<>>, mask |-> NULL, mesh |-> NULL]

Read(image) == [image |-> image, access |-> {"R"}]
Write(image) == [image |-> image, access |-> {"W"}]
ReadWrite(image) == [image |-> image, access |-> {"R", "W"}]

(***************************************************************************)
(* A call whose arguments pass sends its command and returns what the      *)
(* ioctl answers; any other returns DSP_INVALID_ARGUMENT.                  *)
(***************************************************************************)
Reject(c) ==
  /\ call' = c
  /\ status' = "INVALID_ARGUMENT"
  /\ command' = NULL

Send(c, request) ==
  /\ call' = c
  /\ status' \in {"SUCCESS", "RUN_COMMAND_FAILED"}
  /\ command' = request

(***************************************************************************)
(* dsp_crop_and_resize and dsp_resize, which is a crop to the whole image. *)
(***************************************************************************)
CropAccepted(c) ==
  /\ c.device # NULL
  /\ VerifyCrop(c.src, c.roi)
  /\ VerifyImage(Cropped(c.src, c.roi))
  /\ VerifyImage(c.dst)
  /\ c.interpolation # "COUNT"
  /\ c.src.format = c.dst.format
  /\ Supported(c.src.format)
  /\ c.interpolation = "AREA" =>
       /\ c.roi.end_x - c.roi.start_x >= c.dst.width
       /\ c.roi.end_y - c.roi.start_y >= c.dst.height

CropRequest(c) ==
  [Request("CROP_AND_RESIZE", AddImages(<<>>, <<Read(c.src), Write(c.dst)>>))
     EXCEPT !.rois = <<RoiU32(c.roi)>>]

CropCall(c) ==
  \/ CropAccepted(c) /\ Send(c, CropRequest(c))
  \/ ~CropAccepted(c) /\ Reject(c)

CropAndResize ==
  /\ call = NULL
  /\ \E d \in Devices, s \in Sources, t \in Targets, r \in Rois, i \in Interpolations :
       CropCall([op |-> "CROP", device |-> d, src |-> s, dst |-> t, roi |-> r,
                 interpolation |-> i])

Resize ==
  /\ call = NULL
  /\ \E d \in Devices, s \in Sources, t \in Targets, i \in Interpolations :
       IF s = NULL
       THEN Reject([op |-> "RESIZE", device |-> d, src |-> NULL])
       ELSE CropCall([op |-> "RESIZE", device |-> d, src |-> s, dst |-> t,
                      roi |-> WholeImage(s), interpolation |-> i])

(***************************************************************************)
(* dsp_multi_crop_and_resize, and with a privacy mask.                     *)
(***************************************************************************)
MultiAccepted(c) ==
  /\ c.device # NULL
  /\ VerifyCrop(c.src, c.roi)
  /\ VerifyMask(c.src, c.mask, MaxMaskRois)
  /\ VerifyImage(Cropped(c.src, c.roi))
  /\ c.src.format = "NV12"
  /\ \A i \in 1..MultiOutputs :
       c.dsts[i] # NULL => VerifyImage(c.dsts[i]) /\ c.dsts[i].format = "NV12"
  /\ c.interpolation \in {"BILINEAR", "BICUBIC"}

\* The outputs that are there, in order: the k-th is dsts[i] for the i up to
\* which there are k.
Present(dsts) == {i \in 1..MultiOutputs : dsts[i] # NULL}
PresentOutputs(dsts) ==
  [k \in 1..Cardinality(Present(dsts)) |->
     dsts[CHOOSE i \in Present(dsts) : Cardinality(Present(dsts) \cap (1..i)) = k]]

MultiRequest(c) ==
  LET outputs == PresentOutputs(c.dsts)
      added == AddImages(<<>>, <<Read(c.src)>> \o [i \in DOMAIN outputs |-> Write(outputs[i])])
      plain == [Request("MULTI_CROP_AND_RESIZE", added) EXCEPT !.rois = <<RoiU32(c.roi)>>]
  IN  IF c.mask = NULL THEN plain
      ELSE [plain EXCEPT
              !.op = "MULTI_CROP_AND_RESIZE_PRIVACY_MASK",
              !.buffers = AddBuffer(@, c.mask.bitmask, MaskSize(c.src), {"R"}),
              !.mask = [index |-> Len(added.buffers),
                        stride |-> U32(MaskStride(c.src)),
                        size |-> U32(MaskSize(c.src)),
                        rois |-> [i \in DOMAIN c.mask.rois |-> RoiU32(c.mask.rois[i])]]]

MultiCropAndResize ==
  /\ call = NULL
  /\ \E d \in Devices, s \in Sources, ts \in TargetLists, r \in Rois,
        m \in Masks, i \in Interpolations :
       LET c == [op |-> "MULTI", device |-> d, src |-> s, dsts |-> ts, roi |-> r,
                 mask |-> m, interpolation |-> i]
       IN  \/ MultiAccepted(c) /\ Send(c, MultiRequest(c))
           \/ ~MultiAccepted(c) /\ Reject(c)

(***************************************************************************)
(* dsp_blend and dsp_blur.                                                 *)
(***************************************************************************)
BlendAccepted(c) ==
  /\ c.device # NULL
  /\ c.src # NULL
  /\ c.overlays # NULL
  /\ Len(c.overlays) <= MaxBlendOverlays
  /\ VerifyImage(c.src)
  /\ c.src.format = "NV12"
  /\ \A i \in DOMAIN c.overlays :
       /\ VerifyImage(c.overlays[i].overlay)
       /\ VerifyOverlay(c.src, c.overlays[i])
       /\ c.overlays[i].overlay.format = "A420"

\* With one mistake: the base image is given to the DSP to read only.
BlendRequestReadOnly(c) ==
  [Request("BLEND", AddImages(<<>>,
      <<Read(c.src)>>
        \o [i \in DOMAIN c.overlays |-> Read(c.overlays[i].overlay)]))
     EXCEPT !.overlays = [i \in DOMAIN c.overlays |->
       [x_offset |-> U32(c.overlays[i].x_offset), y_offset |-> U32(c.overlays[i].y_offset)]]]

BlendRequest(c) ==
  [Request("BLEND", AddImages(<<>>,
      <<ReadWrite(c.src)>>
        \o [i \in DOMAIN c.overlays |-> Read(c.overlays[i].overlay)]))
     EXCEPT !.overlays = [i \in DOMAIN c.overlays |->
       [x_offset |-> U32(c.overlays[i].x_offset), y_offset |-> U32(c.overlays[i].y_offset)]]]

Blend ==
  /\ call = NULL
  /\ \E d \in Devices, s \in Sources, os \in OverlayLists :
       LET c == [op |-> "BLEND", device |-> d, src |-> s, overlays |-> os]
       IN  \/ BlendAccepted(c) /\ Send(c, BlendRequest(c))
           \/ ~BlendAccepted(c) /\ Reject(c)

BlurAccepted(c) ==
  /\ c.device # NULL
  /\ c.src # NULL
  /\ c.rois # NULL
  /\ c.kernel_size % 2 = 1
  /\ c.kernel_size <= KernelMaxSize
  /\ Len(c.rois) <= MaxBlurRois
  /\ VerifyImage(c.src)
  /\ c.src.format \in {"GRAY8", "NV12"}
  /\ \A i \in DOMAIN c.rois : VerifyCrop(c.src, c.rois[i])

BlurRequest(c) ==
  [Request("BLUR", AddImages(<<>>, <<ReadWrite(c.src)>>))
     EXCEPT !.rois = [i \in DOMAIN c.rois |-> RoiU32(c.rois[i])]]

Blur ==
  /\ call = NULL
  /\ \E d \in Devices, s \in Sources, rs \in RoiLists, k \in KernelSizes :
       LET c == [op |-> "BLUR", device |-> d, src |-> s, rois |-> rs, kernel_size |-> k]
       IN  \/ BlurAccepted(c) /\ Send(c, BlurRequest(c))
           \/ ~BlurAccepted(c) /\ Reject(c)

(***************************************************************************)
(* dsp_convert_format and dsp_dewarp.  The mesh is the first buffer of a   *)
(* dewarp: it is added before the images.                                  *)
(***************************************************************************)
ConvertAccepted(c) ==
  /\ c.device # NULL
  /\ VerifyImage(c.src)
  /\ VerifyImage(c.dst)
  /\ <<c.src.format, c.dst.format>> \in {<<"RGB", "NV12">>, <<"NV12", "RGB">>}
  /\ c.src.width = c.dst.width
  /\ c.src.height = c.dst.height

ConvertRequest(c) ==
  Request("CONVERT_FORMAT", AddImages(<<>>, <<Read(c.src), Write(c.dst)>>))

ConvertFormat ==
  /\ call = NULL
  /\ \E d \in Devices, s \in Sources, t \in Targets :
       LET c == [op |-> "CONVERT", device |-> d, src |-> s, dst |-> t]
       IN  \/ ConvertAccepted(c) /\ Send(c, ConvertRequest(c))
           \/ ~ConvertAccepted(c) /\ Reject(c)

DewarpAccepted(c) ==
  /\ c.device # NULL
  /\ c.mesh # NULL
  /\ VerifyImage(c.src)
  /\ VerifyImage(c.dst)
  /\ VerifyMesh(c.mesh, c.dst)
  /\ c.src.format = "NV12"
  /\ c.dst.format = "NV12"
  /\ c.interpolation \in {"BILINEAR", "BICUBIC"}

DewarpRequest(c) ==
  LET stride == Size(c.mesh.width * 2 * 4)
      size == Size(stride * c.mesh.height)
      added == AddImages(AddBuffer(<<>>, c.mesh.table, size, {"R"}),
                         <<Read(c.src), Write(c.dst)>>)
  IN  [Request("DEWARP", added)
         EXCEPT !.mesh = [index |-> 0, stride |-> U32(stride), size |-> U32(size),
                          width |-> U32(c.mesh.width), height |-> U32(c.mesh.height)]]

Dewarp ==
  /\ call = NULL
  /\ \E d \in Devices, s \in Sources, t \in Targets, m \in Meshes, i \in Interpolations :
       LET c == [op |-> "DEWARP", device |-> d, src |-> s, dst |-> t, mesh |-> m,
                 interpolation |-> i]
       IN  \/ DewarpAccepted(c) /\ Send(c, DewarpRequest(c))
           \/ ~DewarpAccepted(c) /\ Reject(c)

Return ==
  /\ call # NULL
  /\ call' = NULL
  /\ status' = "UNINITIALIZED"
  /\ command' = NULL

Init ==
  /\ call = NULL
  /\ status = "UNINITIALIZED"
  /\ command = NULL

Next ==
  \/ CropAndResize \/ Resize \/ MultiCropAndResize
  \/ Blend \/ Blur \/ ConvertFormat \/ Dewarp
  \/ Return

Spec == Init /\ [][Next]_vars

(***************************************************************************)
(* Properties.                                                             *)
(***************************************************************************)
Outputs(c) ==
  CASE c.op \in {"CROP", "RESIZE", "CONVERT", "DEWARP"} -> {c.dst}
    [] c.op = "MULTI" -> {c.dsts[i] : i \in DOMAIN c.dsts} \ {NULL}
    [] c.op \in {"BLEND", "BLUR"} -> {c.src}

Inputs(c) ==
  {c.src} \cup (IF c.op = "BLEND" THEN {c.overlays[i].overlay : i \in DOMAIN c.overlays} ELSE {})

Pointers(images) == UNION {{im.planes[j].ptr : j \in DOMAIN im.planes} : im \in images}

\* The side tables of a command: a privacy mask's bitmask and a dewarp mesh.
SideTables == {command.mask, command.mesh} \ {NULL}

PlanesOf(im) == {im.planes[j] : j \in DOMAIN im.planes}
AllPlanes ==
  SideTables \cup UNION {PlanesOf(command.images[k]) : k \in DOMAIN command.images}

\* A number that neither a size_t nor a double changes.
ExactSize(n) == n < SizeMod /\ n < DoubleExact

\* An image whose sizes the driver's 32-bit fields, and the code's products
\* with their conversion to double, can hold.
Representable(image) ==
  /\ image.width < U32Mod /\ image.height < U32Mod
  /\ \A j \in DOMAIN image.planes :
       /\ image.planes[j].bytesperline < U32Mod
       /\ image.planes[j].bytesused < U32Mod
       /\ ExactSize(image.planes[j].bytesperline * image.height)
       /\ ExactSize(image.width * PlaneLayout[image.format][j].bytes)

\* The last byte of each sample of pixel (x, y) lies in its line and in the
\* buffer the driver is given for the plane.
PixelInside(im, x, y) ==
  \A j \in DOMAIN im.planes :
    LET layout == PlaneLayout[im.format][j]
        plane == im.planes[j]
        last == (x \div layout.across) * layout.bytes + layout.bytes - 1
    IN  /\ last < plane.stride
        /\ (y \div layout.down) * plane.stride + last < command.buffers[plane.index + 1].size

(***************************************************************************)
(* The arrays of imaging_request_t are as long as their limits, every      *)
(* number in a command fits the DSP's 32-bit field, and a call that        *)
(* returns an error of its own has sent nothing.                           *)
(***************************************************************************)
TypeOK ==
  /\ status \in {"UNINITIALIZED", "SUCCESS", "INVALID_ARGUMENT", "RUN_COMMAND_FAILED"}
  /\ command # NULL =>
       /\ status \in {"SUCCESS", "RUN_COMMAND_FAILED"}
       /\ Len(command.overlays) <= MaxBlendOverlays
       /\ Len(command.rois) <= (IF command.op = "BLUR" THEN MaxBlurRois ELSE 1)
       /\ command.mask # NULL => Len(command.mask.rois) <= MaxMaskRois
       /\ \A i \in DOMAIN command.buffers : command.buffers[i].size < U32Mod
       /\ \A p \in AllPlanes : p.size < U32Mod /\ p.stride < U32Mod

(***************************************************************************)
(* Every plane, bitmask and mesh of a command names a buffer of its own,   *)
(* as large as the plane says, and no buffer is left without a plane: the  *)
(* indices the code counts out while the list grows are right whatever     *)
(* outputs are absent and whichever of mesh and images comes first.        *)
(***************************************************************************)
EveryPlaneHasItsBuffer ==
  command # NULL =>
    LET planes == [k \in DOMAIN command.images |-> command.images[k].planes]
        places == {p \in (DOMAIN planes) \X (1..4) : p[2] \in DOMAIN planes[p[1]]}
        index == {planes[p[1]][p[2]].index : p \in places}
                   \cup {t.index : t \in SideTables}
    IN  /\ index = {i - 1 : i \in DOMAIN command.buffers}
        /\ Cardinality(index) = Cardinality(places) + Cardinality(SideTables)
        /\ \A p \in AllPlanes : command.buffers[p.index + 1].size = p.size

(***************************************************************************)
(* The DSP may write exactly the images the operation is documented to     *)
(* write, and is given every image the operation reads: "Image data will   *)
(* not change" for a source, "image data is overwritten" for a base image. *)
(***************************************************************************)
WritesOnlyOutputs ==
  command # NULL =>
    LET given(a) == {command.buffers[i].ptr :
                       i \in {b \in DOMAIN command.buffers : a \in command.buffers[b].access}}
    IN  /\ given("W") = Pointers(Outputs(call))
        /\ Pointers(Inputs(call)) \subseteq given("R")

(***************************************************************************)
(* Every pixel of every image the DSP works on whole lies, in each plane,  *)
(* inside its line and inside the buffer the driver is given: the size     *)
(* checks of verify_plane, with the format's subsampling, are enough.  The *)
(* source of a crop is read only in part, and is left to CropReadsInside.  *)
(***************************************************************************)
PixelsInside ==
  command # NULL =>
    \A k \in DOMAIN command.images :
      LET im == command.images[k]
      IN  ~(k = 1 /\ call.op \in {"CROP", "MULTI"})
            /\ (\A i \in Inputs(call) \cup Outputs(call) : Representable(i))
          => \A x \in 0..(im.width - 1), y \in 0..(im.height - 1) : PixelInside(im, x, y)

(***************************************************************************)
(* What a crop reads of its source is inside the source's planes, if the   *)
(* caller's source is itself a correct image.                              *)
(***************************************************************************)
CropPixelsInside ==
  \A x \in command.rois[1].start_x..(command.rois[1].end_x - 1),
     y \in command.rois[1].start_y..(command.rois[1].end_y - 1) :
    PixelInside(command.images[1], x, y)

CropOfCorrectSource ==
  (command # NULL /\ call.op \in {"CROP", "MULTI"} /\ VerifyImage(call.src)
     /\ Representable(call.src))
    => CropPixelsInside

(***************************************************************************)
(* The same of any accepted crop.  verify_crop_params, which the two crop  *)
(* operations call first, "assumes that 'image' params is already checked  *)
(* for correctness" (resize.cpp:36), and nothing checks the whole source.  *)
(***************************************************************************)
CropReadsInside ==
  (command # NULL /\ call.op \in {"CROP", "MULTI"} /\ Representable(call.src))
    => CropPixelsInside

RegionsFit(cmd) ==
  LET base == cmd.images[1]
  IN  /\ \A i \in DOMAIN cmd.rois : VerifyRoi(base.width, base.height, cmd.rois[i])
      /\ \A i \in DOMAIN cmd.overlays :
           /\ cmd.overlays[i].x_offset + cmd.images[i + 1].width <= base.width
           /\ cmd.overlays[i].y_offset + cmd.images[i + 1].height <= base.height

(***************************************************************************)
(* Every region and overlay the DSP is given is non-empty and lies in the  *)
(* image it is for, with the numbers the DSP sees.                         *)
(***************************************************************************)
RegionsInImage == command # NULL => RegionsFit(command)

(***************************************************************************)
(* The bitmask of a privacy mask has a bit for every pixel of the source   *)
(* and for every block of every region, in lines of a multiple of 8 bytes, *)
(* and each vertex of a mesh, two 4-byte numbers, is in the mesh's buffer: *)
(* the sizes the code computes for these tables agree with its checks.     *)
(* The check of a region rounds the source's sides to float and the size   *)
(* of the bitmask does not; that the two agree needs a source of fewer     *)
(* than 2^26 lines, from where floats are more than a block apart, and, as *)
(* lines are padded, nothing of its width but that 32 bits hold it.        *)
(***************************************************************************)
FloatHeights == 4 * FloatExact

SideTablesFit ==
  (command # NULL /\ Representable(call.src)
     /\ (command.mask # NULL => call.src.height < FloatHeights)) =>
    LET inside(t, line, last) ==
          last < t.stride /\ line * t.stride + last < command.buffers[t.index + 1].size
    IN  /\ command.mask # NULL =>
             /\ command.mask.stride % 8 = 0
             /\ \A x \in 0..(call.src.width - 1), y \in 0..(call.src.height - 1) :
                  inside(command.mask, y \div 4, (x \div 4) \div 8)
             /\ \A i \in DOMAIN command.mask.rois :
                  LET r == command.mask.rois[i]
                  IN  \A x \in r.start_x..(r.end_x - 1), y \in r.start_y..(r.end_y - 1) :
                        inside(command.mask, y, x \div 8)
        /\ command.mesh # NULL =>
             \A i \in 0..(command.mesh.width - 1), k \in 0..(command.mesh.height - 1) :
               inside(command.mesh, k, 8 * i + 7)
=============================================================================
