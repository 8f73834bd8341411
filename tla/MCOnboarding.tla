---------------------------- MODULE MCOnboarding ----------------------------
(* Instances of module Onboarding for TLC.                                  *)
EXTENDS Onboarding
=============================================================================
