---------------------------- MODULE MC_PxfBridge ----------------------------
(* PxfBridge on a small instance: a response of up to three bytes read     *)
(* through buffers of one and two bytes, so that a read call can be filled *)
(* in one chunk, in two, or cut short by the end of the response.          *)
EXTENDS PxfBridge

MC_MaxData == 3
MC_ReadSizes == {1, 2}
MC_WriteSizes == {0, 2}
=============================================================================
