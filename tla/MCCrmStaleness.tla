-------------------------- MODULE MCCrmStaleness --------------------------
(* The instances of MCCrmResolver, with the clock.                           *)
EXTENDS CrmStaleness, MCCrmResolver
=============================================================================
