----------------------- MODULE MCCrateBufferedOutput -----------------------
(* A small instance of CrateBufferedOutput for TLC: a caller that saves and *)
(* one worker.                                                             *)
EXTENDS CrateBufferedOutput
=============================================================================
