------------------------------ MODULE MCDspOps ------------------------------
(* DspOps for TLC: images of a few pixels whose planes are exactly large   *)
(* enough, one byte or one line byte short, or larger; sizes around the    *)
(* blocks of a bitmask and the squares of a mesh, and, with floats that    *)
(* are exact up to 64 only, heights that the float rounds up; regions and  *)
(* counts on and just past their limits.                                   *)
EXTENDS DspOps

\* An image with tight planes, but for the given number of bytes more than
\* one short in a line and in a plane.
Image(tag, format, w, h, line, used) ==
  [ width |-> w, height |-> h, format |-> format, memory |-> "USERPTR",
    planes |-> [j \in DOMAIN PlaneLayout[format] |->
      LET p == PlaneLayout[format][j]
          stride == CeilDiv(w * p.bytes, p.across) + line - 1
      IN  [ptr |-> <<tag, j>>, bytesperline |-> stride,
           bytesused |-> CeilDiv(stride * h, p.down) + used - 1]] ]

Slacks == {<<1, 1>>, <<0, 1>>, <<1, 0>>, <<3, 4>>}
Formats == {"GRAY8", "RGB", "NV12", "A420"}

Whole(tag, w, h) == {Image(tag, f, w, h, s[1], s[2]) : f \in Formats, s \in Slacks}

NoPlanes(image) == [image EXCEPT !.planes = <<>>]
NullPlane(image) == [image EXCEPT !.planes[1].ptr = NULL]

Good(tag, w, h) == Image(tag, "NV12", w, h, 1, 1)
Dmabuf(image) == [image EXCEPT !.memory = "DMABUF"]

MCSources ==
  {NULL, NoPlanes(Good("s", 4, 2)), NullPlane(Good("s", 4, 2)), Dmabuf(Good("s", 4, 2)),
   Good("s", 3, 2), Good("s", 4, 3), Good("s", 36, 6), Good("s", 34, 2), Good("s", 66, 2),
   Good("s", 4, 246), Good("s", 4, 268)}
    \cup Whole("s", 4, 2) \cup {Image("s", "GRAY8", 4, 2, 1, U32Mod)}

MCTargets ==
  {NULL, Good("t", 2, 2), Good("t", 0, 2), Good("t", 2, 0), Good("t", 66, 2), Good("t", 64, 66)}
    \cup Whole("t", 4, 2)

Roi(x0, y0, x1, y1) == [start_x |-> x0, start_y |-> y0, end_x |-> x1, end_y |-> y1]
MCRois == {NULL, Roi(0, 0, 4, 2), Roi(2, 0, 4, 2), Roi(1, 0, 3, 2), Roi(0, 0, 5, 2), Roi(0, 0, 4, 3), Roi(0, 1, 4, 3),
           Roi(2, 0, 2, 2), Roi(0, 2, 2, 2), Roi(30, 0, 34, 2), Roi(1, 0, 4, 1)}
MCRoiLists == {NULL, <<>>} \cup {<<r>> : r \in MCRois \ {NULL}}
                \cup {<<Roi(0, 0, 4, 2), r>> : r \in MCRois \ {NULL}}
                \cup {<<Roi(0, 0, 4, 2), Roi(0, 0, 4, 2), Roi(0, 0, 4, 2)>>}

Mask(b, rois) == [bitmask |-> b, rois |-> rois]
MCMasks == {NULL, Mask(NULL, <<Roi(0, 0, 1, 1)>>), Mask(<<"bits">>, <<>>)}
             \cup {Mask(<<"bits">>, <<Roi(0, 0, 1, 1), Roi(x - 1, 0, x, y)>>) : x \in {1, 2, 9, 17}, y \in {1, 2}}
             \cup {Mask(<<"bits">>, <<Roi(0, y - 1, 1, y)>>) : y \in {62, 63, 67, 68}}
             \cup {Mask(<<"bits">>, [i \in 1..3 |-> Roi(0, 0, 1, 1)])}

MCTargetLists == [1..2 -> {NULL, Good("t", 2, 2), Good("u", 4, 2), Image("t", "GRAY8", 2, 2, 1, 1),
                           Image("t", "NV12", 2, 2, 1, 0)}]

Overlay(tag, w, h, x, y) == [overlay |-> Image(tag, "A420", w, h, 1, 1), x_offset |-> x, y_offset |-> y]
Overlays == {Overlay("o", w, 2, x, y) : w \in {2, 4}, x \in {0, 2, 3}, y \in {0, 1}}
              \cup {[overlay |-> Good("o", 2, 2), x_offset |-> 0, y_offset |-> 0]}
MCOverlayLists == {NULL, <<>>} \cup {<<o>> : o \in Overlays}
                    \cup {<<Overlay("p", 2, 2, 2, 0), o>> : o \in Overlays}
                    \cup {<<Overlay("q", 2, 2, 0, 0), Overlay("q", 2, 2, 0, 0), Overlay("q", 2, 2, 0, 0)>>}

\* The same with offsets from which the sum with the width wraps.
WrappingOverlayLists == {<<Overlay("o", 2, 2, x, 0)>> : x \in {0, 2, SizeMod - 2, SizeMod - 1}}

Mesh(w, h, t) == [width |-> w, height |-> h, table |-> t]
MCMeshes == {NULL, Mesh(1, 1, NULL)} \cup {Mesh(w, h, <<"mesh">>) : w \in 0..3, h \in 0..2}
=============================================================================
