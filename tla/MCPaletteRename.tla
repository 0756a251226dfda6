--------------------------- MODULE MCPaletteRename ---------------------------
\* The palette's dialog for a new name.
EXTENDS ProjectDialogs

Spec == DialogSpec
=============================================================================
