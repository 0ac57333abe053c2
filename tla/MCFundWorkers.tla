--------------------------- MODULE MCFundWorkers ---------------------------
(***************************************************************************)
(* Two derived addresses, and what a service may answer the cross-check    *)
(* with: the same, another key, fewer paths, another path prefix.          *)
(***************************************************************************)
EXTENDS FundWorkers, TLC

CONSTANTS load1, load2, soak1, soak2, address1, address2, other1, other2

DerivedByScript == load1 :> address1 @@ load2 :> address2

ReportedByService ==
    { DerivedByScript,
      load1 :> other1 @@ load2 :> other2,
      load1 :> address1,
      soak1 :> other1 @@ soak2 :> other2 }
=============================================================================
