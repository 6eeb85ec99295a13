--------------------------- MODULE MCSharedMemory ----------------------------
\* Model values and bounds for SharedMemory: two regions, so that a region is
\* replaced once under an attached driver, one of each kind of client.
EXTENDS SharedMemory

CONSTANTS zoom, voiceMemos, micOnly, mixed
MCRings == {micOnly, mixed}
MCBundles == {zoom, voiceMemos}
=============================================================================
