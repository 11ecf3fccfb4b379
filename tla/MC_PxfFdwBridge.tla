--------------------------- MODULE MC_PxfFdwBridge ---------------------------
(* A response of up to three bytes, COPY asking for at least one or two    *)
(* bytes and at most two, and inserts of zero or two bytes.                *)
EXTENDS PxfFdwBridge

MC_MaxData == 3
MC_ReadSizes == {<<1, 2>>, <<2, 2>>}
MC_WriteSizes == {0, 2}
=============================================================================
