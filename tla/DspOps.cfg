SPECIFICATION Spec
CONSTANTS
  NULL = NULL
  SizeMod = 65536
  U32Mod = 4096
  FloatExact = 64
  DoubleExact = 8192
  Devices = {NULL, dev}
  Interpolations = {"NEAREST", "BILINEAR", "AREA", "BICUBIC", "COUNT"}
  Sources <- MCSources
  Targets <- MCTargets
  Rois <- MCRois
  RoiLists <- MCRoiLists
  KernelSizes = {0, 1, 2, 3, 5}
  Masks <- MCMasks
  TargetLists <- MCTargetLists
  OverlayLists <- MCOverlayLists
  Meshes <- MCMeshes
  MultiOutputs = 2
  MaxBlendOverlays = 2
  MaxBlurRois = 2
  MaxMaskRois = 2
  KernelMaxSize = 3
INVARIANT TypeOK
INVARIANT EveryPlaneHasItsBuffer
INVARIANT WritesOnlyOutputs
INVARIANT PixelsInside
INVARIANT CropOfCorrectSource
INVARIANT RegionsInImage
INVARIANT SideTablesFit
