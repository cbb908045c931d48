------------------------- MODULE MCWorkspaceService -------------------------
EXTENDS WorkspaceService
=============================================================================
