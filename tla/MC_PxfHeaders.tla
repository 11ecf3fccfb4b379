---------------------------- MODULE MC_PxfHeaders ----------------------------
(* build_http_headers with the COPY option delimiter, LOCATION options     *)
(* profile, delimiter and an empty key, at most two of each kind: enough   *)
(* for an option of each source, for both in one call, and for the ERROR  *)
(* of normalize_key_name after other options were sent.                    *)
EXTENDS PxfHeaders, TLC

MC_Upper == ("delimiter" :> "DELIMITER") @@ ("profile" :> "PROFILE")
MC_FmtKeys == {"delimiter"}
MC_LocKeys == {"profile", "delimiter", ""}
MC_MaxOpts == 2
=============================================================================
