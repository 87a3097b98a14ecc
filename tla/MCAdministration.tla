--------------------------- MODULE MCAdministration ---------------------------
(***************************************************************************)
(* What administrators, staff and users change through single requests:    *)
(* accounts, organizations, logins, lab set-up, the Cloudflare tool, the   *)
(* clusters and their templates.  These parts share no state with one      *)
(* another, so the product of their states has nothing to tell: each       *)
(* behaviour is about one of them, its focus, and the others stay in       *)
(* their initial state.                                                    *)
(***************************************************************************)
EXTENDS Identity, Tenancy, LoginThrottle, LabSetup, CloudflareProvisioning,
        ClusterSetup, TemplateCatalog

VARIABLE focus \* the component this behaviour is about

administrationVars == <<focus, identityVars, tenancyVars, throttleVars, setupVars,
                        cloudVars, clusterVars, catalogVars>>

Components == {"identity", "tenancy", "throttle", "setup", "cloud", "cluster", "catalog"}

\* One initial state stands for those of a component that is not looked at.
AdministrationInit ==
  /\ focus \in Components
  /\ IdentityInit /\ TenancyInit /\ ThrottleInit /\ SetupInit
  /\ CloudInit /\ (focus # "cloud" => ~meddled)
  /\ ClusterInit /\ (focus # "cluster" => access.role = None /\ access.user = None)
  /\ CatalogInit /\ (focus # "catalog" => Rows(catalog) = {} /\ activeNow = CHOOSE s \in ServerOf : TRUE)

FocusMoves ==
  \/ /\ focus = "identity" /\ IdentityNext
     /\ UNCHANGED <<tenancyVars, throttleVars, setupVars, cloudVars, clusterVars, catalogVars>>
  \/ /\ focus = "tenancy" /\ TenancyNext
     /\ UNCHANGED <<identityVars, throttleVars, setupVars, cloudVars, clusterVars, catalogVars>>
  \/ /\ focus = "throttle" /\ ThrottleNext
     /\ UNCHANGED <<identityVars, tenancyVars, setupVars, cloudVars, clusterVars, catalogVars>>
  \/ /\ focus = "setup" /\ SetupNext
     /\ UNCHANGED <<identityVars, tenancyVars, throttleVars, cloudVars, clusterVars, catalogVars>>
  \/ /\ focus = "cloud" /\ CloudNext
     /\ UNCHANGED <<identityVars, tenancyVars, throttleVars, setupVars, clusterVars, catalogVars>>
  \/ /\ focus = "cluster" /\ ClusterNext
     /\ UNCHANGED <<identityVars, tenancyVars, throttleVars, setupVars, cloudVars, catalogVars>>
  \/ /\ focus = "catalog" /\ CatalogNext
     /\ UNCHANGED <<identityVars, tenancyVars, throttleVars, setupVars, cloudVars, clusterVars>>

AdministrationNext == focus' = focus /\ FocusMoves

AdministrationSpec == AdministrationInit /\ [][AdministrationNext]_administrationVars

\* Every component's variables are of their types.
AdministrationTypeOK ==
  /\ focus \in Components
  /\ IdentityTypeOK /\ TenancyTypeOK /\ ThrottleTypeOK /\ SetupTypeOK
  /\ CloudflareTypeOK /\ ClusterTypeOK /\ CatalogTypeOK
=============================================================================
