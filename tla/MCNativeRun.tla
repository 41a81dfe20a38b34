---------------------------- MODULE MCNativeRun ----------------------------
EXTENDS NativeRun
=============================================================================
