-------------------------- MODULE MCCampaignRunner --------------------------
(***************************************************************************)
(* TLC instances of CampaignRunner.                                        *)
(***************************************************************************)
EXTENDS CampaignRunner

MCCalls == (1 .. N) \X Tasks
=============================================================================
