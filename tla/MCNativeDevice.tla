--------------------------- MODULE MCNativeDevice ---------------------------
(* Instances of NativeDevice for TLC. *)
EXTENDS NativeDevice
=============================================================================
