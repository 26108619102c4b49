------------------------- MODULE MCVacancyDelivery -------------------------
(* Small instances of VacancyDelivery for TLC. *)
EXTENDS VacancyDelivery

CONSTANTS morning, evening

BothListings == {morning, evening}
OneListing == {morning}
BothRoutes == <<"dm", "channel">>
OneOrder == {"MA,JU"}
TwoOrders == {"MA,JU", "JU,MA"}
OneDetail == {"d1"}
TwoDetails == {"d1", "d2"}
OneVersion == {"v1"}
TwoVersions == {"v1", "v2"}
=============================================================================
