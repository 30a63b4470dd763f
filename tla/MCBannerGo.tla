----------------------------- MODULE MCBannerGo -----------------------------
(* Instances of BannerGo for TLC: the .cfg file gives the constants. *)
EXTENDS BannerGo
=============================================================================
