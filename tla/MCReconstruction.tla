--------------------------- MODULE MCReconstruction ---------------------------
EXTENDS Reconstruction

Setting(interactive, reconstruct, model, quality, preset) ==
  [interactive |-> interactive, reconstruct |-> reconstruct, model |-> model,
   quality |-> quality, preset |-> preset, autoExposure |-> FALSE]

\* Reference, and both models at two qualities and presets.
FewSettings ==
  {Setting(FALSE, TRUE, "superResolution", "native", "default"),
   Setting(TRUE, TRUE, "superResolution", "native", "default"),
   Setting(TRUE, TRUE, "superResolution", "native", "transformer"),
   Setting(TRUE, TRUE, "rayReconstruction", "performance", "stable")}
=============================================================================
