---------------------------- MODULE MCTTSManager ----------------------------
EXTENDS TTSManager
=============================================================================
