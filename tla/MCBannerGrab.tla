---------------------------- MODULE MCBannerGrab ----------------------------
(* Instances of BannerGrab for TLC: the .cfg file gives the constants. *)
EXTENDS BannerGrab
=============================================================================
