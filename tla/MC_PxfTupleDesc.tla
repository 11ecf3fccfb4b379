--------------------------- MODULE MC_PxfTupleDesc ---------------------------
(* PxfTupleDesc on every relation of three attributes, each dropped   *)
(* or of one type from each case of the switch on atttypid (numeric,      *)
(* varchar, timestamp, interval) or int4, with or without a modifier.     *)
EXTENDS PxfTupleDesc

MC_NAtts == 3
MC_TypeIds == {1700, 1043, 1114, 1186, 23}
MC_Params == {0, 5}
=============================================================================
