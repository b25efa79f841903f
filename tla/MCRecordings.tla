---------------------------- MODULE MCRecordings ----------------------------
EXTENDS Recordings
=============================================================================
