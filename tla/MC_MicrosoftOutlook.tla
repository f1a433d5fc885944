------------------------ MODULE MC_MicrosoftOutlook ------------------------
(* Two input items, so that an item's branch runs after another's and an   *)
(* early return can leave one out; lists of up to two records with a      *)
(* limit of 1; one value of fields and one of filter.                      *)
EXTENDS MicrosoftOutlook

CONSTANTS fld, flt

MC_Limits == {1}
MC_Fields == {fld}
MC_FilterVals == {flt}
=============================================================================
