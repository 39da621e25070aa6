------------------------- MODULE MCMerchantsSilver -------------------------
(***************************************************************************)
(* A small instance of MerchantsSilver: one merchant that is blacklisted   *)
(* between two uploads, more than the watermark delay apart.               *)
(***************************************************************************)
EXTENDS MerchantsSilver
=============================================================================
