----------------------- MODULE CloudflareProvisioning -----------------------
(***************************************************************************)
(* deploy/provision_cloudflare.py: one administrator runs the tool again   *)
(* and again until the hostname is published.  A run discovers what exists *)
(* at Cloudflare, refuses what it does not own, creates what is missing    *)
(* (policy, application, tunnel and its ingress), configures the host,     *)
(* creates the DNS record last and records what it owns in a state file.   *)
(* Cloudflare is the environment: an answer may be refused, lost or        *)
(* unreadable, whether or not the request took effect.                     *)
(*                                                                         *)
(* A resource is the number of the run that made it and a link: to the     *)
(* policy (application), to the tunnel (DNS record), to itself once it has *)
(* the desired rule (policy) or ingress (tunnel), 0 if it has drifted.     *)
(***************************************************************************)
EXTENDS Integers, Sequences

CONSTANTS
  MaxRuns,        \* bound on runs of the tool
  MaxCloudFaults  \* bound on refused, lost and unreadable answers and crashes

ASSUME CloudBounds == MaxRuns \in Nat \ {0} /\ MaxCloudFaults \in Nat

VARIABLES
  cloud,       \* the deployment's resources at Cloudflare, one slot a kind
  ownership,   \* the ids in the state file, 0 where there is none
  localHost,   \* .env and the tunnel token installed on the appliance
  invocation,  \* the run under way: its step, what it found and created
  toolRuns,    \* runs started
  cloudFaults, \* faults so far
  ending,      \* how the last run ended
  orphaned,    \* a delete failed, or a create took effect behind an error
  meddled      \* resources were changed outside of the tool

cloudVars == <<cloud, ownership, localHost, invocation, toolRuns, cloudFaults,
               ending, orphaned, meddled>>

Kinds == {"policy", "app", "tunnel", "dns"}
Nothing == [id |-> 0, link |-> 0]
Foreign == MaxRuns + 1   \* the id of a look-alike the tool did not make
Exists(c, k) == c[k].id # 0

Resting == [pc |-> "idle", found |-> [k \in Kinds |-> Nothing],
            created |-> <<>>, enabled |-> FALSE]

CloudflareTypeOK ==
  LET Ids == 0..Foreign
      Resources == [id : Ids, link : Ids]
  IN  /\ cloud \in [Kinds -> Resources]
      /\ ownership \in [Kinds -> Ids]
      /\ localHost \in [enabled : BOOLEAN, audience : Ids, token : Ids]
      /\ invocation.pc \in Kinds \cup {"idle", "prompt", "ingress", "local",
                                       "state", "disable", "undo"}
      /\ invocation.found \in [Kinds -> Resources]
      /\ invocation.created \in Seq(Kinds) /\ Len(invocation.created) <= 4
      /\ invocation.enabled \in BOOLEAN
      /\ toolRuns \in 0..MaxRuns /\ cloudFaults \in 0..MaxCloudFaults
      /\ ending \in {"none", "refused", "declined", "failed", "ambiguous",
                     "crashed", "published"}
      /\ orphaned \in BOOLEAN /\ meddled \in BOOLEAN

\* What the link of a resource of kind k must be, 0 if its target is missing.
Expected(c, k) ==
  CASE k = "app" -> c["policy"].id
    [] k = "dns" -> c["tunnel"].id
    [] OTHER     -> c[k].id

\* _verify_ownership: every resource found must be the state file's, or be
\* adopted, and must be exactly what the deployment asks for.
PlanRefused(c, owned, adopt) ==
  \E k \in Kinds :
    /\ Exists(c, k)
    /\ \/ ~adopt /\ owned[k] # c[k].id
       \/ Expected(c, k) = 0
       \/ c[k].link # Expected(c, k)

\* _local_matches: the tunnel the token belongs to is not looked at.
LocalMatches(c) ==
  /\ Exists(c, "app") /\ Exists(c, "tunnel")
  /\ localHost.enabled /\ localHost.token # 0
  /\ localHost.audience = c["app"].id

\* The resource the run works with: the one it found, or the one it made.
InUse(k) == IF Exists(invocation.found, k) THEN invocation.found[k].id
                                           ELSE toolRuns

----------------------------------------------------------------------------
(* The run.  Every error but a lost POST goes to the clean-up.             *)

MovesTo(pc) == invocation' = [invocation EXCEPT !.pc = pc]

Ends(how) == ending' = how /\ invocation' = Resting

FailsOver ==
  invocation' = [invocation EXCEPT
                   !.pc = IF invocation.enabled THEN "disable" ELSE "undo"]

\* Mutant: a POST without an answer is cleaned up after like any other failure.
AfterLostPostMutant == FailsOver /\ UNCHANGED ending

\* A POST without an answer may have taken effect: nothing is taken back.
AfterLostPost == Ends("ambiguous")

Fault == cloudFaults < MaxCloudFaults /\ cloudFaults' = cloudFaults + 1

\* Mutant: the DNS record before the host.
NextStepMutant(k) == CASE k = "policy"  -> "app"
                       [] k = "app"     -> "tunnel"
                       [] k = "tunnel"  -> "ingress"
                       [] k = "ingress" -> "dns"
                       [] k = "dns"     -> "local"
                       [] k = "local"   -> "state"

NextStep(k) == CASE k = "policy"  -> "app"
                 [] k = "app"     -> "tunnel"
                 [] k = "tunnel"  -> "ingress"
                 [] k = "ingress" -> "local"
                 [] k = "local"   -> "dns"
                 [] k = "dns"     -> "state"

\* main: discover, then show the plan.
DiscoverCloud(adopt) ==
  /\ invocation.pc = "idle" /\ toolRuns < MaxRuns
  /\ toolRuns' = toolRuns + 1
  /\ IF PlanRefused(cloud, ownership, adopt)
       THEN Ends("refused")
       ELSE /\ invocation' = [Resting EXCEPT !.pc = "prompt", !.found = cloud]
            /\ UNCHANGED ending
  /\ UNCHANGED <<cloud, ownership, localHost, cloudFaults, orphaned, meddled>>

Decline ==
  /\ invocation.pc = "prompt"
  /\ Ends("declined")
  /\ UNCHANGED <<cloud, ownership, localHost, toolRuns, cloudFaults, orphaned,
                 meddled>>

Confirm ==
  /\ invocation.pc = "prompt"
  /\ MovesTo("policy")
  /\ UNCHANGED <<cloud, ownership, localHost, toolRuns, cloudFaults, ending,
                 orphaned, meddled>>

Keep ==
  /\ invocation.pc \in Kinds
  /\ Exists(invocation.found, invocation.pc)
  /\ MovesTo(IF invocation.pc = "tunnel" THEN "local"
                                         ELSE NextStep(invocation.pc))
  /\ UNCHANGED <<cloud, ownership, localHost, toolRuns, cloudFaults, ending,
                 orphaned, meddled>>

\* The effect of a POST: the body of an application names the policy, that
\* of a DNS record the tunnel, and a new tunnel has no ingress yet.
Added(k) ==
  [cloud EXCEPT ![k] =
    [id |-> toolRuns, link |-> CASE k = "policy" -> toolRuns
                                 [] k = "app"    -> InUse("policy")
                                 [] k = "tunnel" -> 0
                                 [] k = "dns"    -> InUse("tunnel")]]

Create ==
  LET k == invocation.pc
  IN  /\ k \in Kinds /\ ~Exists(invocation.found, k)
      /\ \/ /\ cloud' = Added(k)
            /\ invocation' = [invocation EXCEPT
                                !.pc = NextStep(k),
                                !.created = Append(@, k)]
            /\ UNCHANGED <<cloudFaults, ending, orphaned>>
         \/ /\ Fault /\ FailsOver
            /\ UNCHANGED <<cloud, ending, orphaned>>
         \/ /\ Fault /\ cloud' = Added(k) /\ FailsOver
            /\ orphaned' = TRUE
            /\ UNCHANGED ending
         \/ /\ Fault /\ AfterLostPost
            /\ cloud' \in {cloud, Added(k)}
            /\ UNCHANGED orphaned
      /\ UNCHANGED <<ownership, localHost, toolRuns, meddled>>

PutIngress ==
  LET configured == [cloud EXCEPT !["tunnel"].link = toolRuns]
  IN  /\ invocation.pc = "ingress"
      /\ \/ /\ cloud' = configured /\ MovesTo(NextStep("ingress"))
            /\ UNCHANGED cloudFaults
         \/ /\ Fault /\ FailsOver
            /\ cloud' \in {cloud, configured}
      /\ UNCHANGED <<ownership, localHost, toolRuns, ending, orphaned, meddled>>

\* The helper configure-cloudflare.sh: enable writes the managed block of
\* .env and the token, and puts both back when the stack does not get ready;
\* disable removes the block and keeps the token.
HostEnabled == [enabled |-> TRUE, audience |-> InUse("app"),
                 token |-> InUse("tunnel")]
HostDisabled == [localHost EXCEPT !.enabled = FALSE, !.audience = 0]

ConfigureLocal ==
  /\ invocation.pc = "local"
  /\ \/ /\ LocalMatches(cloud)
        /\ MovesTo(NextStep("local"))
        /\ UNCHANGED <<localHost, cloudFaults>>
     \/ /\ ~LocalMatches(cloud)
        /\ localHost' = HostEnabled
        /\ invocation' = [invocation EXCEPT !.pc = NextStep("local"),
                                            !.enabled = TRUE]
        /\ UNCHANGED cloudFaults
     \/ /\ ~LocalMatches(cloud)
        /\ Fault /\ FailsOver
        /\ UNCHANGED localHost
  /\ UNCHANGED <<cloud, ownership, toolRuns, ending, orphaned, meddled>>

\* write_state: an error after os.replace leaves the new file in place.
Owned == [k \in Kinds |-> InUse(k)]

WriteState ==
  /\ invocation.pc = "state"
  /\ \/ /\ ownership' = Owned /\ Ends("published")
        /\ UNCHANGED cloudFaults
     \/ /\ Fault /\ FailsOver
        /\ ownership' \in {ownership, Owned}
        /\ UNCHANGED ending
  /\ UNCHANGED <<cloud, localHost, toolRuns, orphaned, meddled>>

DisableLocal ==
  /\ invocation.pc = "disable"
  /\ MovesTo("undo")
  /\ \/ localHost' = HostDisabled /\ UNCHANGED cloudFaults
     \/ Fault /\ UNCHANGED localHost
  /\ UNCHANGED <<cloud, ownership, toolRuns, ending, orphaned, meddled>>

\* The clean-up deletes the last resource created that is still listed.
LastCreated == invocation.created[Len(invocation.created)]

Undo ==
  /\ invocation.pc = "undo" /\ invocation.created # <<>>
  /\ invocation' = [invocation EXCEPT
                      !.created = SubSeq(@, 1, Len(@) - 1)]
  /\ \/ /\ cloud' = [cloud EXCEPT ![LastCreated] = Nothing]
        /\ UNCHANGED <<cloudFaults, orphaned>>
     \/ /\ Fault /\ orphaned' = TRUE
        /\ UNCHANGED cloud
  /\ UNCHANGED <<ownership, localHost, toolRuns, ending, meddled>>

Undone ==
  /\ invocation.pc = "undo" /\ invocation.created = <<>>
  /\ Ends("failed")
  /\ UNCHANGED <<cloud, ownership, localHost, toolRuns, cloudFaults, orphaned,
                 meddled>>

----------------------------------------------------------------------------
(* The environment.                                                        *)

\* The tool is killed; in the helper's place the host has either setting.
Crash ==
  /\ invocation.pc # "idle"
  /\ Fault /\ Ends("crashed")
  /\ localHost' \in IF invocation.pc = "local" /\ ~LocalMatches(cloud)
                      THEN {localHost, HostEnabled} ELSE {localHost}
  /\ UNCHANGED <<cloud, ownership, toolRuns, orphaned, meddled>>

\* Between runs someone removes a resource in the dashboard.
Meddle ==
  /\ invocation.pc = "idle"
  /\ \E k \in Kinds :
       Exists(cloud, k) /\ cloud' = [cloud EXCEPT ![k] = Nothing]
  /\ meddled' = TRUE
  /\ UNCHANGED <<ownership, localHost, invocation, toolRuns, cloudFaults,
                 ending, orphaned>>

\* A zone without the deployment's resources, or with one look-alike.
CloudInit ==
  /\ \/ cloud = [k \in Kinds |-> Nothing] /\ meddled = FALSE
     \/ /\ \E k \in Kinds, link \in {0, Foreign} :
             cloud = [[j \in Kinds |-> Nothing] EXCEPT
                        ![k] = [id |-> Foreign, link |-> link]]
        /\ meddled = TRUE
  /\ ownership = [k \in Kinds |-> 0]
  /\ localHost = [enabled |-> FALSE, audience |-> 0, token |-> 0]
  /\ invocation = Resting
  /\ toolRuns = 0 /\ cloudFaults = 0
  /\ ending = "none" /\ orphaned = FALSE

CloudNext ==
  \/ \E adopt \in BOOLEAN : DiscoverCloud(adopt)
  \/ Decline \/ Confirm \/ Keep \/ Create \/ PutIngress \/ ConfigureLocal
  \/ WriteState \/ DisableLocal \/ Undo \/ Undone \/ Crash \/ Meddle

CloudSpec == CloudInit /\ [][CloudNext]_cloudVars

----------------------------------------------------------------------------
(* A DNS record comes into being only when the policy, the application     *)
(* that links it, the tunnel with its ingress and the appliance that       *)
(* demands this application's assertions are all in place: whatever the    *)
(* runs before it left behind, no half-configured path is advertised.      *)
PublicationIsLast ==
  [][~Exists(cloud, "dns") /\ Exists(cloud', "dns") =>
       /\ \A k \in {"policy", "app", "tunnel"} :
            Exists(cloud, k) /\ cloud[k].link = Expected(cloud, k)
       /\ localHost.enabled /\ localHost.audience = cloud["app"].id]_cloudVars

(* After any ending (lost answer, failure with its clean-up, crash, a file *)
(* that was not written) the next run with --adopt-existing is accepted:   *)
(* no resource is left pointing to a deleted one.  Excepted are a delete   *)
(* that failed, a create that took effect behind an HTTP error, changes    *)
(* made outside of the tool, and a tunnel left without its ingress.        *)
RerunRecovers ==
  /\ invocation.pc = "idle" /\ ~orphaned /\ ~meddled
  /\ Exists(cloud, "tunnel") => cloud["tunnel"].link # 0
  => ~PlanRefused(cloud, ownership, TRUE)
=============================================================================
