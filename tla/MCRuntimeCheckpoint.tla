------------------------ MODULE MCRuntimeCheckpoint ------------------------
EXTENDS RuntimeCheckpoint
=============================================================================
