------------------------------- MODULE Catalog -------------------------------
(***************************************************************************)
(* What the Gateway's and the Scheduler's tables both name.                *)
(***************************************************************************)

CONSTANTS
    Products,   \* product ids
    URLs,       \* marketplace addresses that pass validation
    NoURL,      \* of a product without a row
    ForceIds    \* TaskIDs of forced checks

ASSUME CatalogAssumption == NoURL \notin URLs

=============================================================================
