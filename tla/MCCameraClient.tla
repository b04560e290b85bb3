--------------------------- MODULE MCCameraClient ---------------------------
(* TLC instance of CameraClient: a header of two bytes (a byte of size, a  *)
(* byte of resolution) can be cut, an image of three bytes can be cut      *)
(* twice, and the window holds more than a frame, so that recv may reach   *)
(* into the next one.                                                      *)
EXTENDS CameraClient
=============================================================================
