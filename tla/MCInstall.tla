------------------------------- MODULE MCInstall -------------------------------
(* Two display managers, so that one may be installed ahead of the other.    *)
EXTENDS Install

MCKnownDMs == <<"gdm3", "lightdm">>
===============================================================================
