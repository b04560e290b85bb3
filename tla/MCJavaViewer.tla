---------------------------- MODULE MCJavaViewer ----------------------------
(* TLC instance of JavaViewer: an image of two parts, so that a timeout    *)
(* can fall inside it, and room for one image and one heartbeat; two       *)
(* descriptors, so that one can be used again or not.                      *)
EXTENDS JavaViewer
=============================================================================
