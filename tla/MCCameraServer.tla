--------------------------- MODULE MCCameraServer ---------------------------
(* TLC instance of CameraServer: three clients, so that one can be skipped *)
(* between two others; a frame that does not fit the network.              *)
EXTENDS CameraServer
=============================================================================
