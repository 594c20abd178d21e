------------------------------ MODULE MCService ------------------------------
(* TLC instances of what surrounds the hub in the chat service: the daemon *)
(* that deploys it, its registry of user names and its metrics.  They      *)
(* share no state, so a behaviour is one of them at work and the others as *)
(* they start; focus says which.                                           *)
EXTENDS OpsManager, UsernameRegistry, Metrics, TLC

CONSTANTS alice, Alice, paddedAlice

VARIABLE focus

(* Two spellings of one key, and the same name with blanks around it, whose *)
(* key is its own and whose line is read back without them.  The bloom     *)
(* filter has four bits, and the keys collide in it.                       *)
ServiceNames == {alice, Alice, paddedAlice}
ServiceKeys == (alice :> "alice") @@ (Alice :> "alice") @@ (paddedAlice :> " alice")
ServiceTrim == (alice :> alice) @@ (Alice :> Alice) @@ (paddedAlice :> alice)
ServiceHash == ("alice" :> {1, 2}) @@ (" alice" :> {2, 3}) @@ ("system" :> {1, 3})
SystemOnly == {"system"}

(* Two items share a register, one of them with the higher rank.           *)
ItemSlot == ("p" :> 1) @@ ("q" :> 1) @@ ("r" :> 2)
ItemRank == ("p" :> 2) @@ ("q" :> 1) @@ ("r" :> 1)

serviceVars == <<opsVars, registryVars, metricsVars, focus>>

ServiceInit ==
  /\ focus \in {"ops", "registry", "metrics"}
  /\ OpsInit /\ RegistryInit /\ MetricsInit

ServiceNext ==
  /\ UNCHANGED focus
  /\ \/ focus = "ops" /\ OpsNext /\ UNCHANGED <<registryVars, metricsVars>>
     \/ focus = "registry" /\ RegistryNext /\ UNCHANGED <<opsVars, metricsVars>>
     \/ focus = "metrics" /\ MetricsNext /\ UNCHANGED <<opsVars, registryVars>>

ServiceSpec ==
  /\ ServiceInit /\ [][ServiceNext]_serviceVars
  /\ focus = "ops" => OpsFairness

(* The variables of the parts keep their types.                            *)
ServiceTypeOK == OpsTypeOK /\ RegistryTypeOK /\ MetricsTypeOK
=============================================================================
