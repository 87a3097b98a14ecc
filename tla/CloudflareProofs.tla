--------------------------- MODULE CloudflareProofs ---------------------------
(***************************************************************************)
(* Proofs about the publication of a deployment at Cloudflare, for any     *)
(* number of runs of the tool and of faults.                               *)
(***************************************************************************)
EXTENDS CloudflareProvisioning, TLAPS

ResourceIds == 0..Foreign
Resource == [id : ResourceIds, link : ResourceIds]
Invocation ==
  [pc : Kinds \cup {"idle", "prompt", "ingress", "local", "state", "disable", "undo"},
   found : [Kinds -> Resource], created : Seq(Kinds), enabled : BOOLEAN]

\* The order of the steps of a run, and how many resources it can have made before each.
Rank == [policy |-> 1, app |-> 2, tunnel |-> 3, ingress |-> 4, local |-> 5, dns |-> 6, state |-> 7]
Makes == [policy |-> 0, app |-> 1, tunnel |-> 2, ingress |-> 3, local |-> 3, dns |-> 3, state |-> 4]
Working == {"policy", "app", "tunnel", "ingress", "local", "dns", "state"}

\* What the run under way has made and not taken back.
Made == {invocation.created[i] : i \in DOMAIN invocation.created}

-----------------------------------------------------------------------------
(* The inductive invariant.                                                *)

\* Every link leads to what it must, but for a tunnel without its ingress.
WellLinked ==
  /\ Exists(cloud, "policy") => cloud["policy"].link = cloud["policy"].id
  /\ Exists(cloud, "app") => Exists(cloud, "policy") /\ cloud["app"].link = cloud["policy"].id
  /\ Exists(cloud, "tunnel") => cloud["tunnel"].link \in {0, cloud["tunnel"].id}
  /\ Exists(cloud, "dns") => Exists(cloud, "tunnel") /\ cloud["dns"].link = cloud["tunnel"].id

\* The clean-up goes backwards: what links a resource the run made was made after it.
CleanUpSafe ==
  /\ \A i, j \in DOMAIN invocation.created :
       i < j => Rank[invocation.created[i]] < Rank[invocation.created[j]]
  /\ ~orphaned => /\ "policy" \in Made /\ Exists(cloud, "app") => "app" \in Made
                  /\ "tunnel" \in Made /\ Exists(cloud, "dns") => "dns" \in Made

\* The plan was accepted: what it found is as desired, and nothing but what the run made
\* has changed since.
PlanHolds ==
  /\ toolRuns >= 1
  /\ \A k \in Kinds \ Made : cloud[k] = invocation.found[k]
  /\ \A k \in Made : cloud[k].id = toolRuns /\ ~Exists(invocation.found, k)
  /\ \A k \in Kinds : Exists(invocation.found, k) =>
       /\ Expected(invocation.found, k) # 0
       /\ invocation.found[k].link = Expected(invocation.found, k)

\* What the steps before this one have put in place.
InPlace ==
  LET rank == Rank[invocation.pc] IN
  /\ rank > 1 => Exists(cloud, "policy") /\ cloud["policy"].link = cloud["policy"].id
  /\ rank > 2 => Exists(cloud, "app") /\ cloud["app"].link = cloud["policy"].id
  /\ rank > 3 => Exists(cloud, "tunnel")
  /\ rank = 4 => "tunnel" \in Made
  /\ rank > 4 => cloud["tunnel"].link = cloud["tunnel"].id
  /\ rank > 5 => localHost.enabled /\ localHost.audience = cloud["app"].id
  /\ Len(invocation.created) <= Makes[invocation.pc]
  /\ \A k \in Made : Rank[k] < rank

CloudInv ==
  /\ CloudflareTypeOK /\ invocation \in Invocation
  /\ ~orphaned /\ ~meddled => WellLinked
  /\ CleanUpSafe
  /\ invocation.pc \in {"idle", "prompt"} => invocation.created = <<>>
  /\ invocation.pc \in Working \cup {"prompt"} => PlanHolds
  /\ invocation.pc \in Working => InPlace

-----------------------------------------------------------------------------
(* Lemmas about the operators.                                             *)

\* What the link of each kind must be.
LEMMA ExpectedIs ==
  ASSUME NEW c
  PROVE  /\ Expected(c, "policy") = c["policy"].id /\ Expected(c, "app") = c["policy"].id
         /\ Expected(c, "tunnel") = c["tunnel"].id /\ Expected(c, "dns") = c["tunnel"].id
BY DEF Expected

\* The ids there can be.
LEMMA IdsFit ==
  /\ Foreign \in Nat /\ 0 \in ResourceIds /\ Foreign \in ResourceIds
  /\ \A n \in 0..MaxRuns : n \in ResourceIds
  /\ Nothing \in Resource /\ Nothing.id = 0
BY CloudBounds DEF Foreign, ResourceIds, Resource, Nothing

\* A run between runs.
LEMMA RestingFits ==
  /\ Resting \in Invocation /\ Resting.pc = "idle" /\ Resting.created = <<>>
  /\ Resting.enabled = FALSE /\ Resting.found = [k \in Kinds |-> Nothing]
BY IdsFit DEF Resting, Invocation

\* A run works with what exists.
LEMMA InUseExists ==
  ASSUME PlanHolds, NEW k \in Kinds, Exists(cloud, k)
  PROVE  InUse(k) = cloud[k].id
BY DEF PlanHolds, InUse, Exists

\* The ids a run works with.
LEMMA InUseFits ==
  ASSUME CloudflareTypeOK, invocation \in Invocation, NEW k \in Kinds
  PROVE  InUse(k) \in ResourceIds
BY IdsFit DEF CloudflareTypeOK, Invocation, Resource, InUse

\* A POST changes one slot.
LEMMA AddedIs ==
  ASSUME CloudflareTypeOK, invocation \in Invocation, NEW k \in Kinds
  PROVE  /\ Added(k) \in [Kinds -> Resource] /\ Added(k)[k].id = toolRuns
         /\ k = "policy" => Added(k)[k].link = toolRuns
         /\ k = "app" => Added(k)[k].link = InUse("policy")
         /\ k = "tunnel" => Added(k)[k].link = 0
         /\ k = "dns" => Added(k)[k].link = InUse("tunnel")
         /\ \A j \in Kinds : j # k => Added(k)[j] = cloud[j]
<1> DEFINE link == CASE k = "policy" -> toolRuns
                     [] k = "app"    -> InUse("policy")
                     [] k = "tunnel" -> 0
                     [] k = "dns"    -> InUse("tunnel")
           new == [id |-> toolRuns, link |-> link]
<1>1. toolRuns \in ResourceIds /\ cloud \in [Kinds -> Resource]
  BY IdsFit DEF CloudflareTypeOK, ResourceIds, Resource
<1>2. InUse("policy") \in ResourceIds /\ InUse("tunnel") \in ResourceIds
  BY InUseFits DEF Kinds
<1>3. /\ link \in ResourceIds
      /\ k = "policy" => link = toolRuns
      /\ k = "app" => link = InUse("policy")
      /\ k = "tunnel" => link = 0
      /\ k = "dns" => link = InUse("tunnel")
  BY <1>1, <1>2, IdsFit DEF Kinds
<1>4. Added(k) = [cloud EXCEPT ![k] = new]
  BY DEF Added
<1> HIDE DEF link
<1>5. new \in Resource /\ new.id = toolRuns /\ new.link = link
  BY <1>1, <1>3 DEF Resource
<1> HIDE DEF new
<1> QED BY <1>1, <1>3, <1>4, <1>5

-----------------------------------------------------------------------------
(* Steps that end a run or give it up.                                     *)

Host == [enabled : BOOLEAN, audience : ResourceIds, token : ResourceIds]
Ending == {"none", "refused", "declined", "failed", "ambiguous", "crashed", "published"}

\* The types, one variable at a time.
LEMMA TypesAre ==
  CloudflareTypeOK <=>
    /\ cloud \in [Kinds -> Resource] /\ ownership \in [Kinds -> ResourceIds] /\ localHost \in Host
    /\ invocation.pc \in Kinds \cup {"idle", "prompt", "ingress", "local", "state", "disable", "undo"}
    /\ invocation.found \in [Kinds -> Resource]
    /\ invocation.created \in Seq(Kinds) /\ Len(invocation.created) <= 4
    /\ invocation.enabled \in BOOLEAN
    /\ toolRuns \in 0..MaxRuns /\ cloudFaults \in 0..MaxCloudFaults
    /\ ending \in Ending /\ orphaned \in BOOLEAN /\ meddled \in BOOLEAN
BY DEF CloudflareTypeOK, Resource, ResourceIds, Host, Ending

\* A fault is counted within its bound.
LEMMA FaultCounts ==
  ASSUME CloudflareTypeOK, Fault \/ UNCHANGED cloudFaults
  PROVE  cloudFaults' \in 0..MaxCloudFaults
BY CloudBounds, TypesAre DEF Fault

\* The end of a run keeps the invariant if it leaves the links as they must be.
LEMMA EndKeeps ==
  ASSUME CloudInv, invocation' = Resting, ending' \in Ending,
         cloud' \in [Kinds -> Resource], ownership' \in [Kinds -> ResourceIds], localHost' \in Host,
         toolRuns' \in 0..MaxRuns, cloudFaults' \in 0..MaxCloudFaults,
         orphaned' \in BOOLEAN, meddled' \in BOOLEAN,
         ~orphaned' /\ ~meddled' => WellLinked'
  PROVE  CloudInv'
<1>1. /\ invocation' \in Invocation /\ invocation'.pc = "idle" /\ invocation'.created = <<>>
      /\ invocation'.enabled = FALSE /\ invocation'.found = [k \in Kinds |-> Nothing]
  BY RestingFits
<1>2. CloudflareTypeOK'
  <2>1. invocation'.found \in [Kinds -> Resource]
    BY <1>1, IdsFit
  <2>2. invocation'.created \in Seq(Kinds) /\ Len(invocation'.created) <= 4
    BY <1>1
  <2> QED BY <1>1, <2>1, <2>2 DEF CloudflareTypeOK, Resource, ResourceIds, Host, Ending
<1>3. CleanUpSafe'
  BY <1>1 DEF CleanUpSafe, Made
<1> QED BY <1>1, <1>2, <1>3 DEF CloudInv, Working

\* A run that gives up keeps it if the clean-up is safe.
LEMMA GivingUpKeeps ==
  ASSUME CloudInv, NEW pc \in {"disable", "undo"}, NEW created \in Seq(Kinds), Len(created) <= 4,
         invocation' = [invocation EXCEPT !.pc = pc, !.created = created],
         cloud' \in [Kinds -> Resource], ownership' \in [Kinds -> ResourceIds], localHost' \in Host,
         UNCHANGED <<toolRuns, ending, meddled>>, Fault \/ UNCHANGED cloudFaults,
         orphaned' \in BOOLEAN, ~orphaned' /\ ~meddled' => WellLinked',
         CleanUpSafe'
  PROVE  CloudInv'
<1>1. CloudflareTypeOK /\ invocation \in Invocation
  BY DEF CloudInv
<1>2. /\ invocation' \in Invocation /\ invocation'.pc = pc /\ invocation'.created = created
      /\ invocation'.found \in [Kinds -> Resource] /\ invocation'.enabled \in BOOLEAN
  BY <1>1 DEF Invocation
<1>3. CloudflareTypeOK'
  <2>1. toolRuns' \in 0..MaxRuns /\ ending' \in Ending /\ meddled' \in BOOLEAN
    BY <1>1, TypesAre
  <2>2. cloudFaults' \in 0..MaxCloudFaults
    BY <1>1, FaultCounts
  <2> QED BY <1>2, <2>1, <2>2 DEF CloudflareTypeOK, Resource, ResourceIds, Host, Ending
<1> QED BY <1>2, <1>3 DEF CloudInv, Working

\* A step goes on with the run.
LEMMA GoingOnKeeps ==
  ASSUME CloudInv, NEW pc \in Working, NEW created \in Seq(Kinds), Len(created) <= 4,
         NEW enabled \in BOOLEAN,
         invocation' = [invocation EXCEPT !.pc = pc, !.created = created, !.enabled = enabled],
         cloud' \in [Kinds -> Resource], localHost' \in Host,
         UNCHANGED <<ownership, toolRuns, cloudFaults, ending, orphaned, meddled>>,
         ~orphaned /\ ~meddled => WellLinked',
         CleanUpSafe', PlanHolds', InPlace'
  PROVE  CloudInv'
<1>1. CloudflareTypeOK /\ invocation \in Invocation
  BY DEF CloudInv
<1>2. pc \in Kinds \cup {"ingress", "local", "state"}
  BY DEF Working, Kinds
<1>3. /\ invocation' \in Invocation /\ invocation'.pc = pc /\ invocation'.created = created
      /\ invocation'.found \in [Kinds -> Resource] /\ invocation'.enabled \in BOOLEAN
  BY <1>1, <1>2 DEF Invocation
<1>4. CloudflareTypeOK'
  <2>1. /\ toolRuns' \in 0..MaxRuns /\ ending' \in Ending /\ meddled' \in BOOLEAN
        /\ ownership' \in [Kinds -> ResourceIds] /\ cloudFaults' \in 0..MaxCloudFaults
        /\ orphaned' \in BOOLEAN
    BY <1>1, TypesAre
  <2> QED BY <1>2, <1>3, <2>1 DEF CloudflareTypeOK, Resource, ResourceIds, Host, Ending
<1> QED BY <1>2, <1>3, <1>4 DEF CloudInv, Working

\* What a step needs to know of a run that goes on.
LEMMA RunKnown ==
  ASSUME CloudInv, invocation.pc \in Working
  PROVE  /\ CloudflareTypeOK /\ invocation \in Invocation /\ PlanHolds /\ InPlace /\ CleanUpSafe
         /\ ~orphaned /\ ~meddled => WellLinked
         /\ cloud \in [Kinds -> Resource] /\ localHost \in Host
         /\ invocation.created \in Seq(Kinds) /\ Len(invocation.created) <= 4
BY TypesAre DEF CloudInv

\* A step that leaves the resources alone.
LEMMA ForwardKeeps ==
  ASSUME CloudInv, invocation.pc \in Working \cup {"prompt"}, NEW pc \in Working,
         NEW enabled \in BOOLEAN,
         invocation' = [invocation EXCEPT !.pc = pc, !.enabled = enabled], localHost' \in Host,
         UNCHANGED <<cloud, ownership, toolRuns, cloudFaults, ending, orphaned, meddled>>,
         InPlace'
  PROVE  CloudInv'
<1>1. /\ CloudflareTypeOK /\ invocation \in Invocation /\ CleanUpSafe /\ PlanHolds
      /\ ~orphaned /\ ~meddled => WellLinked
  BY DEF CloudInv
<1>2. /\ cloud \in [Kinds -> Resource]
      /\ invocation.created \in Seq(Kinds) /\ Len(invocation.created) <= 4
  BY <1>1, TypesAre
<1>3. invocation' = [invocation EXCEPT !.pc = pc, !.created = invocation.created, !.enabled = enabled]
  BY <1>1 DEF Invocation
<1>4. invocation'.created = invocation.created /\ invocation'.found = invocation.found
  BY <1>1 DEF Invocation
<1>5. Made' = Made
  BY <1>4 DEF Made
<1>6. CleanUpSafe'
  BY <1>1, <1>4, <1>5 DEF CleanUpSafe
<1>7. PlanHolds'
  BY <1>1, <1>4, <1>5 DEF PlanHolds
<1>8. WellLinked' <=> WellLinked
  BY DEF WellLinked
<1> QED BY <1>1, <1>2, <1>3, <1>6, <1>7, <1>8, GoingOnKeeps

\* Discovery and the prompt.
LEMMA PlanKeeps ==
  ASSUME CloudInv, (\E adopt \in BOOLEAN : DiscoverCloud(adopt)) \/ Decline \/ Confirm
  PROVE  CloudInv'
<1>1. /\ CloudflareTypeOK /\ invocation \in Invocation
      /\ ~orphaned /\ ~meddled => WellLinked
  BY DEF CloudInv
<1>2. /\ cloud \in [Kinds -> Resource] /\ ownership \in [Kinds -> ResourceIds] /\ localHost \in Host
      /\ toolRuns \in 0..MaxRuns /\ cloudFaults \in 0..MaxCloudFaults
      /\ ending \in Ending /\ orphaned \in BOOLEAN /\ meddled \in BOOLEAN
  BY <1>1, TypesAre
<1>3. WellLinked' <=> WellLinked
  BY DEF DiscoverCloud, Decline, Confirm, WellLinked
<1>4. ASSUME NEW adopt \in BOOLEAN, DiscoverCloud(adopt) PROVE CloudInv'
  <2>1. /\ toolRuns' = toolRuns + 1 /\ toolRuns' \in 0..MaxRuns
        /\ UNCHANGED <<cloud, ownership, localHost, cloudFaults, orphaned, meddled>>
    BY <1>2, <1>4, CloudBounds DEF DiscoverCloud
  <2>2. CASE PlanRefused(cloud, ownership, adopt)
    <3>1. ending' \in Ending /\ invocation' = Resting
      BY <1>4, <2>2 DEF DiscoverCloud, Ends, Ending
    <3> QED BY <1>1, <1>2, <1>3, <2>1, <3>1, EndKeeps
  <2>3. CASE ~PlanRefused(cloud, ownership, adopt)
    <3>1. invocation' = [Resting EXCEPT !.pc = "prompt", !.found = cloud] /\ ending' = ending
      BY <1>4, <2>3 DEF DiscoverCloud
    <3>2. /\ invocation' \in Invocation /\ invocation'.pc = "prompt" /\ invocation'.found = cloud
          /\ invocation'.created = <<>> /\ invocation'.enabled = FALSE
      BY <1>2, <3>1, RestingFits DEF Invocation
    <3>3. CloudflareTypeOK'
      <4>1. invocation'.created \in Seq(Kinds) /\ Len(invocation'.created) <= 4
        BY <3>2
      <4> QED BY <1>2, <2>1, <3>1, <3>2, <4>1
              DEF CloudflareTypeOK, Resource, ResourceIds, Host, Ending
    <3>4. Made' = {}
      BY <3>2 DEF Made
    <3>5. CleanUpSafe'
      BY <3>2, <3>4 DEF CleanUpSafe
    <3>6. \A k \in Kinds : Exists(cloud, k) => Expected(cloud, k) # 0 /\ cloud[k].link = Expected(cloud, k)
      BY <2>3 DEF PlanRefused
    <3>7. toolRuns' >= 1
      BY <1>2, <2>1
    <3>8. PlanHolds'
      BY <2>1, <3>2, <3>4, <3>6, <3>7 DEF PlanHolds
    <3> QED BY <1>1, <1>3, <2>1, <3>2, <3>3, <3>5, <3>8 DEF CloudInv, Working
  <2> QED BY <2>2, <2>3
<1>5. CASE Decline
  <2>1. ending' \in Ending /\ invocation' = Resting
    BY <1>5 DEF Decline, Ends, Ending
  <2> QED BY <1>1, <1>2, <1>3, <1>5, <2>1, EndKeeps DEF Decline
<1>6. CASE Confirm
  <2>1. /\ invocation.pc = "prompt" /\ invocation.created = <<>> /\ "policy" \in Working
        /\ invocation' = [invocation EXCEPT !.pc = "policy", !.enabled = invocation.enabled]
        /\ invocation.enabled \in BOOLEAN
    BY <1>1, <1>6 DEF Confirm, MovesTo, CloudInv, Invocation, Working
  <2>2. invocation'.pc = "policy" /\ invocation'.created = <<>>
    BY <1>1, <2>1 DEF Invocation
  <2>3. Rank["policy"] = 1 /\ Makes["policy"] = 0
    BY DEF Rank, Makes
  <2>4. InPlace'
    BY <2>2, <2>3 DEF InPlace, Made
  <2> QED BY <1>2, <1>6, <2>1, <2>4, ForwardKeeps DEF Confirm
<1> QED BY <1>4, <1>5, <1>6

-----------------------------------------------------------------------------
(* The steps of a run.                                                     *)

\* The numbers of the steps.
LEMMA RankIs ==
  /\ Rank["policy"] = 1 /\ Rank["app"] = 2 /\ Rank["tunnel"] = 3 /\ Rank["ingress"] = 4
  /\ Rank["local"] = 5 /\ Rank["dns"] = 6 /\ Rank["state"] = 7
  /\ Makes["policy"] = 0 /\ Makes["app"] = 1 /\ Makes["tunnel"] = 2 /\ Makes["ingress"] = 3
  /\ Makes["local"] = 3 /\ Makes["dns"] = 3 /\ Makes["state"] = 4
  /\ \A k \in Kinds : Rank[k] \in 1..6
BY DEF Rank, Makes, Kinds

\* The kinds a run has made are kinds.
LEMMA MadeKinds ==
  ASSUME invocation.created \in Seq(Kinds)
  PROVE  Made \subseteq Kinds
BY DEF Made

\* What a run has made before a step it has made before a later one.
LEMMA StepOrder ==
  ASSUME invocation.created \in Seq(Kinds), invocation.pc \in Working, InPlace,
         NEW after \in Working, Rank[invocation.pc] <= Rank[after]
  PROVE  /\ Len(invocation.created) <= Makes[after]
         /\ \A j \in Made : Rank[j] < Rank[after]
<1>1. /\ Rank \in [Working -> 1..7] /\ Makes \in [Working -> 0..4]
      /\ Made \subseteq Kinds /\ Kinds \subseteq Working
  BY MadeKinds DEF Rank, Makes, Working, Kinds
<1>2. Makes[invocation.pc] <= Makes[after]
  BY RankIs DEF Working
<1>3. /\ Len(invocation.created) <= Makes[invocation.pc] /\ Len(invocation.created) \in Nat
      /\ \A j \in Made : Rank[j] < Rank[invocation.pc]
  BY DEF InPlace
<1>4. /\ Makes[invocation.pc] \in 0..4 /\ Makes[after] \in 0..4
      /\ Rank[invocation.pc] \in 1..7 /\ Rank[after] \in 1..7 /\ \A j \in Made : Rank[j] \in 1..7
  BY <1>1
<1> QED BY <1>2, <1>3, <1>4

\* What was found is in place: the plan was accepted.
LEMMA FoundIsInPlace ==
  ASSUME CloudInv, invocation.pc \in Working, NEW k \in Kinds, Exists(invocation.found, k)
  PROVE  /\ k \notin Made /\ Exists(cloud, k)
         /\ cloud[k].link = Expected(invocation.found, k)
         /\ k \in {"policy", "tunnel"} => cloud[k].link = cloud[k].id
         /\ k = "app" => /\ "policy" \notin Made /\ Exists(cloud, "policy")
                         /\ cloud["app"].link = cloud["policy"].id
         /\ k = "dns" => /\ "tunnel" \notin Made /\ Exists(cloud, "tunnel")
                         /\ cloud["dns"].link = cloud["tunnel"].id
<1>1. PlanHolds
  BY RunKnown
<1>2. k \notin Made /\ cloud[k] = invocation.found[k] /\ Exists(cloud, k)
  BY <1>1 DEF PlanHolds, Exists
<1>3. cloud[k].link = Expected(invocation.found, k) /\ Expected(invocation.found, k) # 0
  BY <1>1, <1>2 DEF PlanHolds
<1>4. "policy" \in Kinds /\ "tunnel" \in Kinds
  BY DEF Kinds
<1>5. ASSUME NEW j \in Kinds, invocation.found[j].id # 0
      PROVE  j \notin Made /\ cloud[j] = invocation.found[j]
  BY <1>1, <1>5 DEF PlanHolds, Exists
<1> QED BY <1>2, <1>3, <1>4, <1>5, ExpectedIs DEF Exists

\* What the run leaves as it found it.
LEMMA KeepKeeps ==
  ASSUME CloudInv, Keep
  PROVE  CloudInv'
<1> DEFINE k == invocation.pc
           pc == IF k = "tunnel" THEN "local" ELSE NextStep(k)
<1>1. /\ k \in Kinds /\ Exists(invocation.found, k) /\ invocation' = [invocation EXCEPT !.pc = pc]
      /\ UNCHANGED <<cloud, ownership, localHost, toolRuns, cloudFaults, ending, orphaned, meddled>>
  BY DEF Keep, MovesTo
<1>2. k \in Working
  BY <1>1 DEF Kinds, Working
<1>3. /\ invocation \in Invocation /\ PlanHolds /\ InPlace /\ localHost \in Host
      /\ invocation.created \in Seq(Kinds)
  BY <1>2, RunKnown
<1>4. /\ pc \in Working
      /\ k = "policy" => pc = "app"
      /\ k = "app" => pc = "tunnel"
      /\ k = "tunnel" => pc = "local"
      /\ k = "dns" => pc = "state"
  BY <1>1 DEF NextStep, Kinds, Working
<1> HIDE DEF pc
<1>5. /\ invocation' = [invocation EXCEPT !.pc = pc, !.enabled = invocation.enabled]
      /\ invocation.enabled \in BOOLEAN /\ invocation'.pc = pc
      /\ invocation'.created = invocation.created
  BY <1>1, <1>3 DEF Invocation
<1>6. Made' = Made
  BY <1>5 DEF Made
<1>7. /\ k \in {"policy", "tunnel"} => Exists(cloud, k) /\ cloud[k].link = cloud[k].id
      /\ k = "app" => Exists(cloud, k) /\ cloud["app"].link = cloud["policy"].id
  BY <1>1, <1>2, FoundIsInPlace
<1>8. \A after \in Working : Rank[k] <= Rank[after] =>
        Len(invocation'.created) <= Makes[after] /\ \A j \in Made' : Rank[j] < Rank[after]
  BY <1>2, <1>3, <1>5, <1>6, StepOrder
<1>9. InPlace'
  <2>1. CASE k = "policy"
    <3>1. invocation'.pc = "app"
      BY <1>4, <1>5, <2>1
    <3>2. Len(invocation'.created) <= Makes["app"] /\ \A j \in Made' : Rank[j] < Rank["app"]
      BY <1>8, <2>1, RankIs DEF Working
    <3> QED BY <1>1, <1>3, <1>6, <1>7, <2>1, <3>1, <3>2, RankIs DEF InPlace, Exists
  <2>2. CASE k = "app"
    <3>1. invocation'.pc = "tunnel"
      BY <1>4, <1>5, <2>2
    <3>2. Len(invocation'.created) <= Makes["tunnel"] /\ \A j \in Made' : Rank[j] < Rank["tunnel"]
      BY <1>8, <2>2, RankIs DEF Working
    <3> QED BY <1>1, <1>3, <1>6, <1>7, <2>2, <3>1, <3>2, RankIs DEF InPlace, Exists
  <2>3. CASE k = "tunnel"
    <3>1. invocation'.pc = "local"
      BY <1>4, <1>5, <2>3
    <3>2. Len(invocation'.created) <= Makes["local"] /\ \A j \in Made' : Rank[j] < Rank["local"]
      BY <1>8, <2>3, RankIs DEF Working
    <3> QED BY <1>1, <1>3, <1>6, <1>7, <2>3, <3>1, <3>2, RankIs DEF InPlace, Exists
  <2>4. CASE k = "dns"
    <3>1. invocation'.pc = "state"
      BY <1>4, <1>5, <2>4
    <3>2. Len(invocation'.created) <= Makes["state"] /\ \A j \in Made' : Rank[j] < Rank["state"]
      BY <1>8, <2>4, RankIs DEF Working
    <3> QED BY <1>1, <1>3, <1>6, <1>7, <2>4, <3>1, <3>2, RankIs DEF InPlace, Exists
  <2> QED BY <1>1, <2>1, <2>2, <2>3, <2>4 DEF Kinds
<1> QED BY <1>1, <1>2, <1>3, <1>4, <1>5, <1>9, ForwardKeeps

\* A run that fails here leaves a clean-up that is safe.
LEMMA FailsOverKeeps ==
  ASSUME CloudInv, invocation.pc \in Working, FailsOver,
         cloud' \in [Kinds -> Resource], ownership' \in [Kinds -> ResourceIds], localHost' \in Host,
         UNCHANGED <<toolRuns, ending, meddled>>, Fault \/ UNCHANGED cloudFaults,
         orphaned' \in BOOLEAN, ~orphaned' => ~orphaned,
         ~orphaned' /\ ~meddled => WellLinked',
         ~orphaned' => \A k \in Kinds : Exists(cloud', k) <=> Exists(cloud, k)
  PROVE  CloudInv'
<1> DEFINE pc == IF invocation.enabled THEN "disable" ELSE "undo"
<1>1. /\ invocation \in Invocation /\ CleanUpSafe
      /\ invocation.created \in Seq(Kinds) /\ Len(invocation.created) <= 4
  BY RunKnown
<1>2. invocation' = [invocation EXCEPT !.pc = pc, !.created = invocation.created]
      /\ pc \in {"disable", "undo"}
  BY <1>1 DEF FailsOver, Invocation
<1> HIDE DEF pc
<1>3. invocation'.created = invocation.created
  BY <1>1, <1>2 DEF Invocation
<1>4. Made' = Made
  BY <1>3 DEF Made
<1>5. CleanUpSafe'
  <2>1. "app" \in Kinds /\ "dns" \in Kinds
    BY DEF Kinds
  <2> QED BY <1>1, <1>3, <1>4, <2>1 DEF CleanUpSafe
<1> QED BY <1>1, <1>2, <1>5, GivingUpKeeps

\* Before a run makes a resource nothing links it, and it has what it links itself.
LEMMA BeforeCreate ==
  ASSUME CloudInv, invocation.pc \in Kinds, ~Exists(invocation.found, invocation.pc)
  PROVE  /\ invocation.pc \notin Made
         /\ invocation.pc = "policy" => ~Exists(cloud, "app")
         /\ invocation.pc = "app" => Exists(cloud, "policy") /\ InUse("policy") = cloud["policy"].id
         /\ invocation.pc = "tunnel" => ~Exists(cloud, "dns")
         /\ invocation.pc = "dns" => Exists(cloud, "tunnel") /\ InUse("tunnel") = cloud["tunnel"].id
<1>1. invocation.pc \in Working
  BY DEF Kinds, Working
<1>2. PlanHolds /\ InPlace /\ invocation.created \in Seq(Kinds)
  BY <1>1, RunKnown
<1>3. Made \subseteq Kinds /\ \A k \in Made : Rank[k] < Rank[invocation.pc]
  BY <1>2, MadeKinds DEF InPlace
<1>4. invocation.pc \notin Made
  <2>1. Rank[invocation.pc] \in 1..6
    BY RankIs
  <2> QED BY <1>3, <2>1
<1>5. /\ invocation.pc = "policy" => "app" \notin Made
      /\ invocation.pc = "tunnel" => "dns" \notin Made
  BY <1>3, RankIs
<1>6. ASSUME NEW j \in Kinds, j \notin Made
      PROVE  Exists(cloud, j) <=> Exists(invocation.found, j)
  BY <1>2, <1>6 DEF PlanHolds, Exists
<1>7. "app" \in Kinds /\ "dns" \in Kinds /\ "policy" \in Kinds /\ "tunnel" \in Kinds
  BY DEF Kinds
<1>8. invocation.pc = "policy" => ~Exists(cloud, "app")
  <2> SUFFICES ASSUME invocation.pc = "policy", Exists(cloud, "app") PROVE FALSE
    OBVIOUS
  <2>1. Exists(invocation.found, "app")
    BY <1>5, <1>6, <1>7
  <2>2. Exists(cloud, "policy") /\ "policy" \notin Made
    BY <1>1, <1>7, <2>1, FoundIsInPlace
  <2> QED BY <1>6, <1>7, <2>2
<1>9. invocation.pc = "tunnel" => ~Exists(cloud, "dns")
  <2> SUFFICES ASSUME invocation.pc = "tunnel", Exists(cloud, "dns") PROVE FALSE
    OBVIOUS
  <2>1. Exists(invocation.found, "dns")
    BY <1>5, <1>6, <1>7
  <2>2. Exists(cloud, "tunnel") /\ "tunnel" \notin Made
    BY <1>1, <1>7, <2>1, FoundIsInPlace
  <2> QED BY <1>6, <1>7, <2>2
<1>10. /\ invocation.pc = "app" => Exists(cloud, "policy")
       /\ invocation.pc = "dns" => Exists(cloud, "tunnel")
  BY <1>2, RankIs DEF InPlace
<1>11. /\ invocation.pc = "app" => InUse("policy") = cloud["policy"].id
       /\ invocation.pc = "dns" => InUse("tunnel") = cloud["tunnel"].id
  BY <1>2, <1>7, <1>10, InUseExists
<1> QED BY <1>4, <1>8, <1>9, <1>10, <1>11

\* What a POST adds leads to what it must.
LEMMA AddedLinks ==
  ASSUME CloudInv, invocation.pc \in Kinds, ~Exists(invocation.found, invocation.pc),
         cloud' = Added(invocation.pc), WellLinked
  PROVE  WellLinked'
<1> DEFINE k == invocation.pc
<1>1. CloudflareTypeOK /\ invocation \in Invocation
  BY DEF CloudInv
<1>2. /\ cloud'[k].id = toolRuns
      /\ k = "policy" => cloud'[k].link = toolRuns
      /\ k = "app" => cloud'[k].link = InUse("policy")
      /\ k = "tunnel" => cloud'[k].link = 0
      /\ k = "dns" => cloud'[k].link = InUse("tunnel")
      /\ \A j \in Kinds : j # k => cloud'[j] = cloud[j]
  BY <1>1, AddedIs
<1>3. /\ k = "policy" => ~Exists(cloud, "app")
      /\ k = "app" => Exists(cloud, "policy") /\ InUse("policy") = cloud["policy"].id
      /\ k = "tunnel" => ~Exists(cloud, "dns")
      /\ k = "dns" => Exists(cloud, "tunnel") /\ InUse("tunnel") = cloud["tunnel"].id
  BY BeforeCreate
<1>4. toolRuns # 0
  <2>1. PlanHolds
    BY RunKnown DEF Kinds, Working
  <2> QED BY <2>1 DEF PlanHolds
<1> HIDE DEF k
<1>5. CASE k = "policy"
  BY <1>2, <1>3, <1>4, <1>5 DEF WellLinked, Exists, Kinds
<1>6. CASE k = "app"
  BY <1>2, <1>3, <1>4, <1>6 DEF WellLinked, Exists, Kinds
<1>7. CASE k = "tunnel"
  BY <1>2, <1>3, <1>4, <1>7 DEF WellLinked, Exists, Kinds
<1>8. CASE k = "dns"
  BY <1>2, <1>3, <1>4, <1>8 DEF WellLinked, Exists, Kinds
<1>9. k \in Kinds
  BY DEF k
<1> QED BY <1>5, <1>6, <1>7, <1>8, <1>9 DEF Kinds

\* A resource that is made and answered for.
LEMMA CreateSucceeds ==
  ASSUME CloudInv, invocation.pc \in Kinds, ~Exists(invocation.found, invocation.pc),
         cloud' = Added(invocation.pc),
         invocation' = [invocation EXCEPT !.pc = NextStep(invocation.pc),
                                          !.created = Append(@, invocation.pc)],
         UNCHANGED <<cloudFaults, ending, orphaned, ownership, localHost, toolRuns, meddled>>
  PROVE  CloudInv'
<1> DEFINE k == invocation.pc
           created == Append(invocation.created, k)
<1>1. k \in Working /\ k \in Kinds
  BY DEF Kinds, Working
<1>2. /\ CloudflareTypeOK /\ invocation \in Invocation /\ PlanHolds /\ InPlace /\ CleanUpSafe
      /\ ~orphaned /\ ~meddled => WellLinked
      /\ localHost \in Host /\ invocation.created \in Seq(Kinds)
      /\ Made \subseteq Kinds
  BY <1>1, RunKnown, MadeKinds
<1>3. /\ cloud' \in [Kinds -> Resource] /\ cloud'[k].id = toolRuns /\ toolRuns # 0
      /\ k = "policy" => cloud'[k].link = toolRuns
      /\ k = "app" => cloud'[k].link = InUse("policy")
      /\ \A j \in Kinds : j # k => cloud'[j] = cloud[j]
  BY <1>1, <1>2, AddedIs DEF PlanHolds
<1>4. /\ k \notin Made
      /\ k = "policy" => ~Exists(cloud, "app")
      /\ k = "app" => InUse("policy") = cloud["policy"].id
      /\ k = "tunnel" => ~Exists(cloud, "dns")
  BY <1>1, BeforeCreate
<1>5. /\ NextStep(k) \in Working
      /\ k = "policy" => NextStep(k) = "app"
      /\ k = "app" => NextStep(k) = "tunnel"
      /\ k = "tunnel" => NextStep(k) = "ingress"
      /\ k = "dns" => NextStep(k) = "state"
  BY <1>1 DEF NextStep, Kinds, Working
<1>6. /\ invocation' = [invocation EXCEPT !.pc = NextStep(k), !.created = created,
                                          !.enabled = invocation.enabled]
      /\ invocation.enabled \in BOOLEAN /\ invocation'.pc = NextStep(k)
      /\ invocation'.created = created /\ invocation'.found = invocation.found
  BY <1>2 DEF Invocation
<1>7. /\ created \in Seq(Kinds) /\ Len(created) = Len(invocation.created) + 1
      /\ DOMAIN created = 1..(Len(invocation.created) + 1)
      /\ DOMAIN invocation.created = 1..Len(invocation.created)
      /\ \A i \in DOMAIN invocation.created : created[i] = invocation.created[i]
      /\ created[Len(invocation.created) + 1] = k /\ Len(invocation.created) \in Nat
  BY <1>1, <1>2
<1> HIDE DEF created
<1>8. Made' = Made \cup {k}
  BY <1>6, <1>7 DEF Made
<1> HIDE DEF k
<1>9. Len(invocation.created) <= Makes[k] /\ \A j \in Made : Rank[j] < Rank[k]
  BY <1>2 DEF InPlace, k
<1>10. Len(created) <= 4
  BY <1>1, <1>7, <1>9, RankIs DEF Kinds
<1>11. CleanUpSafe'
  <2>1. \A i, j \in DOMAIN created : i < j => Rank[created[i]] < Rank[created[j]]
    <3> SUFFICES ASSUME NEW i \in DOMAIN created, NEW j \in DOMAIN created, i < j
                 PROVE  Rank[created[i]] < Rank[created[j]]
      OBVIOUS
    <3>1. i \in DOMAIN invocation.created /\ created[i] = invocation.created[i]
      BY <1>7
    <3>2. CASE j \in DOMAIN invocation.created
      BY <1>2, <1>7, <3>1, <3>2 DEF CleanUpSafe
    <3>3. CASE j = Len(invocation.created) + 1
      BY <1>7, <1>9, <3>1, <3>3 DEF Made
    <3> QED BY <1>7, <3>2, <3>3
  <2>2. Exists(cloud, "app") /\ k # "app" <=> Exists(cloud', "app") /\ k # "app"
    BY <1>3 DEF Exists, Kinds
  <2>3. Exists(cloud, "dns") /\ k # "dns" <=> Exists(cloud', "dns") /\ k # "dns"
    BY <1>3 DEF Exists, Kinds
  <2> QED BY <1>2, <1>4, <1>6, <1>8, <2>1, <2>2, <2>3 DEF CleanUpSafe
<1>12. PlanHolds'
  <2>1. ~Exists(invocation.found, k)
    BY DEF k
  <2> QED BY <1>1, <1>2, <1>3, <1>4, <1>6, <1>8, <2>1 DEF PlanHolds
<1>13. InPlace'
  <2>1. /\ Len(invocation'.created) <= Makes[NextStep(k)]
        /\ \A j \in Made' : Rank[j] < Rank[NextStep(k)]
    <3>1. Makes[NextStep(k)] = Makes[k] + 1 /\ Makes[k] \in 0..3 /\ Rank[k] < Rank[NextStep(k)]
      BY <1>1, <1>5, RankIs DEF Kinds
    <3>2. Rank[k] \in 1..6 /\ Rank[NextStep(k)] \in 1..7 /\ \A j \in Made : Rank[j] \in 1..6
      BY <1>1, <1>2, <1>5, RankIs DEF Kinds
    <3>3. Len(invocation'.created) <= Makes[NextStep(k)]
      BY <1>6, <1>7, <1>9, <3>1
    <3>4. \A j \in Made' : Rank[j] < Rank[NextStep(k)]
      BY <1>8, <1>9, <3>1, <3>2
    <3> QED BY <3>3, <3>4
  <2>2. CASE k = "policy"
    BY <1>3, <1>5, <1>6, <2>1, <2>2, RankIs DEF InPlace, Exists
  <2>3. CASE k = "app"
    <3>1. Exists(cloud, "policy") /\ cloud["policy"].link = cloud["policy"].id
      BY <1>2, <2>3, RankIs DEF InPlace, k
    <3> QED BY <1>3, <1>4, <1>5, <1>6, <2>1, <2>3, <3>1, RankIs DEF InPlace, Exists, Kinds
  <2>4. CASE k = "tunnel"
    <3>1. /\ Exists(cloud, "policy") /\ cloud["policy"].link = cloud["policy"].id
          /\ Exists(cloud, "app") /\ cloud["app"].link = cloud["policy"].id
      BY <1>2, <2>4, RankIs DEF InPlace, k
    <3> QED BY <1>3, <1>5, <1>6, <1>8, <2>1, <2>4, <3>1, RankIs DEF InPlace, Exists, Kinds
  <2>5. CASE k = "dns"
    <3>1. /\ Exists(cloud, "policy") /\ cloud["policy"].link = cloud["policy"].id
          /\ Exists(cloud, "app") /\ cloud["app"].link = cloud["policy"].id
          /\ Exists(cloud, "tunnel") /\ cloud["tunnel"].link = cloud["tunnel"].id
          /\ localHost.enabled /\ localHost.audience = cloud["app"].id
      BY <1>2, <2>5, RankIs DEF InPlace, k
    <3> QED BY <1>3, <1>5, <1>6, <2>1, <2>5, <3>1, RankIs DEF InPlace, Exists, Kinds
  <2> QED BY <1>1, <2>2, <2>3, <2>4, <2>5 DEF Kinds
<1>14. ~orphaned /\ ~meddled => WellLinked'
  BY <1>2, AddedLinks DEF k
<1>15. /\ NextStep(k) \in Working /\ created \in Seq(Kinds) /\ invocation.enabled \in BOOLEAN
       /\ invocation' = [invocation EXCEPT !.pc = NextStep(k), !.created = created,
                                           !.enabled = invocation.enabled]
       /\ cloud' \in [Kinds -> Resource] /\ localHost' \in Host
  BY <1>2, <1>3, <1>5, <1>6, <1>7
<1> QED BY <1>10, <1>11, <1>12, <1>13, <1>14, <1>15, GoingOnKeeps

\* A POST, with every answer it may get.
LEMMA CreateKeeps ==
  ASSUME CloudInv, Create
  PROVE  CloudInv'
<1> DEFINE k == invocation.pc
<1>1. k \in Kinds /\ ~Exists(invocation.found, k) /\ UNCHANGED <<ownership, localHost, toolRuns, meddled>>
  BY DEF Create
<1>2. k \in Working
  BY <1>1 DEF Kinds, Working
<1>3. /\ CloudflareTypeOK /\ invocation \in Invocation
      /\ ~orphaned /\ ~meddled => WellLinked
  BY DEF CloudInv
<1>4. /\ cloud \in [Kinds -> Resource] /\ ownership \in [Kinds -> ResourceIds] /\ localHost \in Host
      /\ toolRuns \in 0..MaxRuns /\ ending \in Ending /\ orphaned \in BOOLEAN /\ meddled \in BOOLEAN
      /\ Added(k) \in [Kinds -> Resource]
  BY <1>1, <1>3, TypesAre, AddedIs
<1>5. CASE /\ cloud' = Added(k)
           /\ invocation' = [invocation EXCEPT !.pc = NextStep(k), !.created = Append(@, k)]
           /\ UNCHANGED <<cloudFaults, ending, orphaned>>
  BY <1>1, <1>5, CreateSucceeds
<1>6. CASE Fault /\ FailsOver /\ UNCHANGED <<cloud, ending, orphaned>>
  <2>1. WellLinked' <=> WellLinked
    BY <1>6 DEF WellLinked
  <2>2. \A j \in Kinds : Exists(cloud', j) <=> Exists(cloud, j)
    BY <1>6
  <2> QED BY <1>1, <1>2, <1>3, <1>4, <1>6, <2>1, <2>2, FailsOverKeeps
<1>7. CASE Fault /\ cloud' = Added(k) /\ FailsOver /\ orphaned' = TRUE /\ UNCHANGED ending
  BY <1>1, <1>2, <1>4, <1>7, FailsOverKeeps
<1>8. CASE Fault /\ AfterLostPost /\ cloud' \in {cloud, Added(k)} /\ UNCHANGED orphaned
  <2>1. invocation' = Resting /\ ending' \in Ending
    BY <1>8 DEF AfterLostPost, Ends, Ending
  <2>2. ~orphaned /\ ~meddled => WellLinked'
    <3>1. CASE cloud' = cloud
      BY <1>3, <3>1 DEF WellLinked
    <3>2. CASE cloud' = Added(k)
      BY <1>1, <1>3, <3>2, AddedLinks
    <3> QED BY <1>8, <3>1, <3>2
  <2>3. cloudFaults' \in 0..MaxCloudFaults
    BY <1>3, <1>8, FaultCounts
  <2> QED BY <1>1, <1>4, <1>8, <2>1, <2>2, <2>3, EndKeeps
<1> QED BY <1>5, <1>6, <1>7, <1>8 DEF Create

\* The ingress goes to the tunnel the run has made.
LEMMA PutIngressKeeps ==
  ASSUME CloudInv, PutIngress
  PROVE  CloudInv'
<1> DEFINE configured == [cloud EXCEPT !["tunnel"].link = toolRuns]
<1>1. invocation.pc = "ingress" /\ UNCHANGED <<ownership, localHost, toolRuns, ending, orphaned, meddled>>
  BY DEF PutIngress
<1>2. "ingress" \in Working /\ "local" \in Working
  BY DEF Working
<1>3. /\ CloudflareTypeOK /\ invocation \in Invocation /\ PlanHolds /\ InPlace /\ CleanUpSafe
      /\ ~orphaned /\ ~meddled => WellLinked
      /\ cloud \in [Kinds -> Resource] /\ localHost \in Host
      /\ invocation.created \in Seq(Kinds) /\ Len(invocation.created) <= 4
      /\ Made \subseteq Kinds
  BY <1>1, <1>2, RunKnown, MadeKinds
<1>4. /\ ownership \in [Kinds -> ResourceIds] /\ orphaned \in BOOLEAN /\ toolRuns \in ResourceIds
  BY <1>3, TypesAre, IdsFit
<1>5. /\ Exists(cloud, "tunnel") /\ "tunnel" \in Made /\ cloud["tunnel"].id = toolRuns
      /\ Exists(cloud, "policy") /\ cloud["policy"].link = cloud["policy"].id
      /\ Exists(cloud, "app") /\ cloud["app"].link = cloud["policy"].id
  BY <1>1, <1>3, RankIs DEF InPlace, PlanHolds
<1>6. /\ configured \in [Kinds -> Resource]
      /\ configured["tunnel"].id = toolRuns /\ configured["tunnel"].link = toolRuns
      /\ \A j \in Kinds : j # "tunnel" => configured[j] = cloud[j]
      /\ \A j \in Kinds : configured[j].id = cloud[j].id
  BY <1>3, <1>4, <1>5 DEF Kinds, Resource
<1>7. WellLinked => (cloud' \in {cloud, configured} => WellLinked')
  <2> SUFFICES ASSUME WellLinked, cloud' \in {cloud, configured} PROVE WellLinked'
    OBVIOUS
  <2>1. CASE cloud' = cloud
    BY <2>1 DEF WellLinked
  <2>2. CASE cloud' = configured
    <3> HIDE DEF configured
    <3> QED BY <1>6, <2>2 DEF WellLinked, Exists, Kinds
  <2> QED BY <2>1, <2>2
<1> HIDE DEF configured
<1>8. CASE cloud' = configured /\ MovesTo(NextStep("ingress")) /\ UNCHANGED cloudFaults
  <2>1. /\ invocation' = [invocation EXCEPT !.pc = "local", !.created = invocation.created,
                                            !.enabled = invocation.enabled]
        /\ invocation.enabled \in BOOLEAN /\ invocation'.pc = "local"
        /\ invocation'.created = invocation.created /\ invocation'.found = invocation.found
    BY <1>3, <1>8 DEF MovesTo, NextStep, Invocation
  <2>2. Made' = Made
    BY <2>1 DEF Made
  <2>3. CleanUpSafe'
    <3>1. /\ Exists(cloud', "app") <=> Exists(cloud, "app")
          /\ Exists(cloud', "dns") <=> Exists(cloud, "dns")
      BY <1>6, <1>8 DEF Exists, Kinds
    <3>2. orphaned' = orphaned
      BY <1>1
    <3> QED BY <1>3, <2>1, <2>2, <3>1, <3>2 DEF CleanUpSafe
  <2>4. PlanHolds'
    BY <1>1, <1>3, <1>5, <1>6, <1>8, <2>1, <2>2 DEF PlanHolds
  <2>5. /\ Len(invocation.created) <= Makes["local"]
        /\ \A j \in Made : Rank[j] < Rank["local"]
    BY <1>1, <1>2, <1>3, StepOrder, RankIs
  <2>6. InPlace'
    <3>1. /\ Exists(cloud', "policy") /\ cloud'["policy"].link = cloud'["policy"].id
          /\ Exists(cloud', "app") /\ cloud'["app"].link = cloud'["policy"].id
          /\ Exists(cloud', "tunnel") /\ cloud'["tunnel"].link = cloud'["tunnel"].id
      BY <1>5, <1>6, <1>8 DEF Exists, Kinds
    <3> QED BY <2>1, <2>2, <2>5, <3>1, RankIs DEF InPlace
  <2>7. ~orphaned /\ ~meddled => WellLinked'
    BY <1>3, <1>7, <1>8
  <2>8. cloud' \in [Kinds -> Resource] /\ localHost' \in Host
    BY <1>1, <1>3, <1>6, <1>8
  <2>9. UNCHANGED <<ownership, toolRuns, cloudFaults, ending, orphaned, meddled>>
    BY <1>1, <1>8
  <2> QED BY <1>2, <1>3, <2>1, <2>3, <2>4, <2>6, <2>7, <2>8, <2>9, GoingOnKeeps
<1>9. CASE Fault /\ FailsOver /\ cloud' \in {cloud, configured}
  <2>1. cloud' \in [Kinds -> Resource] /\ \A j \in Kinds : Exists(cloud', j) <=> Exists(cloud, j)
    BY <1>3, <1>6, <1>9 DEF Exists
  <2>2. ~orphaned /\ ~meddled => WellLinked'
    BY <1>3, <1>7, <1>9
  <2> QED BY <1>1, <1>2, <1>3, <1>4, <1>9, <2>1, <2>2, FailsOverKeeps
<1> QED BY <1>8, <1>9 DEF PutIngress, configured

\* The host is configured for the application in use, or matches already.
LEMMA ConfigureLocalKeeps ==
  ASSUME CloudInv, ConfigureLocal
  PROVE  CloudInv'
<1>1. /\ invocation.pc = "local" /\ "local" \in Working /\ "dns" \in Working
      /\ UNCHANGED <<cloud, ownership, toolRuns, ending, orphaned, meddled>>
  BY DEF ConfigureLocal, Working
<1>2. /\ CloudflareTypeOK /\ invocation \in Invocation /\ PlanHolds /\ InPlace
      /\ ~orphaned /\ ~meddled => WellLinked
      /\ cloud \in [Kinds -> Resource] /\ localHost \in Host
      /\ invocation.created \in Seq(Kinds)
  BY <1>1, RunKnown
<1>3. /\ Exists(cloud, "policy") /\ cloud["policy"].link = cloud["policy"].id
      /\ Exists(cloud, "app") /\ cloud["app"].link = cloud["policy"].id
      /\ Exists(cloud, "tunnel") /\ cloud["tunnel"].link = cloud["tunnel"].id
  BY <1>1, <1>2, RankIs DEF InPlace
<1>4. /\ "app" \in Kinds /\ "tunnel" \in Kinds /\ InUse("app") = cloud["app"].id
      /\ InUse("app") \in ResourceIds /\ InUse("tunnel") \in ResourceIds
  BY <1>2, <1>3, InUseExists, InUseFits DEF Kinds
<1>5. CASE Fault /\ FailsOver /\ UNCHANGED localHost
  <2>1. ownership \in [Kinds -> ResourceIds] /\ orphaned \in BOOLEAN
    BY <1>2, TypesAre
  <2>2. WellLinked' <=> WellLinked
    BY <1>1 DEF WellLinked
  <2> QED BY <1>1, <1>2, <1>5, <2>1, <2>2, FailsOverKeeps
<1>6. ASSUME NEW enabled \in BOOLEAN,
             invocation' = [invocation EXCEPT !.pc = "dns", !.enabled = enabled],
             localHost' \in Host, localHost'.enabled, localHost'.audience = cloud["app"].id,
             UNCHANGED cloudFaults
      PROVE  CloudInv'
  <2>1. /\ invocation'.pc = "dns" /\ invocation'.created = invocation.created
    BY <1>2, <1>6 DEF Invocation
  <2>2. Made' = Made
    BY <2>1 DEF Made
  <2>3. Len(invocation.created) <= Makes["dns"] /\ \A j \in Made : Rank[j] < Rank["dns"]
    <3>1. invocation.pc \in Working /\ Rank[invocation.pc] <= Rank["dns"]
      BY <1>1, RankIs
    <3>2. InPlace /\ invocation.created \in Seq(Kinds) /\ "dns" \in Working
      BY <1>1, <1>2
    <3> QED BY <3>1, <3>2, StepOrder
  <2>4. InPlace'
    <3>1. /\ Exists(cloud', "policy") /\ cloud'["policy"].link = cloud'["policy"].id
          /\ Exists(cloud', "app") /\ cloud'["app"].link = cloud'["policy"].id
          /\ Exists(cloud', "tunnel") /\ cloud'["tunnel"].link = cloud'["tunnel"].id
          /\ localHost'.enabled /\ localHost'.audience = cloud'["app"].id
      BY <1>1, <1>3, <1>6 DEF Exists
    <3> QED BY <2>1, <2>2, <2>3, <3>1, RankIs DEF InPlace
  <2> QED BY <1>1, <1>6, <2>4, ForwardKeeps
<1>7. CASE LocalMatches(cloud) /\ MovesTo(NextStep("local")) /\ UNCHANGED <<localHost, cloudFaults>>
  <2>1. /\ invocation' = [invocation EXCEPT !.pc = "dns", !.enabled = invocation.enabled]
        /\ invocation.enabled \in BOOLEAN
    BY <1>2, <1>7 DEF MovesTo, NextStep, Invocation
  <2>2. localHost'.enabled /\ localHost'.audience = cloud["app"].id /\ localHost' \in Host
    BY <1>2, <1>7 DEF LocalMatches
  <2> QED BY <1>6, <1>7, <2>1, <2>2
<1>8. CASE /\ localHost' = HostEnabled
           /\ invocation' = [invocation EXCEPT !.pc = NextStep("local"), !.enabled = TRUE]
           /\ UNCHANGED cloudFaults
  <2>1. invocation' = [invocation EXCEPT !.pc = "dns", !.enabled = TRUE]
    BY <1>8 DEF NextStep
  <2>2. localHost' \in Host /\ localHost'.enabled /\ localHost'.audience = cloud["app"].id
    BY <1>4, <1>8 DEF HostEnabled, Host
  <2> QED BY <1>6, <1>8, <2>1, <2>2
<1> QED BY <1>5, <1>7, <1>8 DEF ConfigureLocal

\* The state file is the last thing a run writes.
LEMMA WriteStateKeeps ==
  ASSUME CloudInv, WriteState
  PROVE  CloudInv'
<1>1. /\ invocation.pc = "state" /\ "state" \in Working
      /\ UNCHANGED <<cloud, localHost, toolRuns, orphaned, meddled>>
  BY DEF WriteState, Working
<1>2. /\ CloudflareTypeOK /\ invocation \in Invocation
      /\ ~orphaned /\ ~meddled => WellLinked
  BY DEF CloudInv
<1>3. /\ cloud \in [Kinds -> Resource] /\ ownership \in [Kinds -> ResourceIds] /\ localHost \in Host
      /\ toolRuns \in 0..MaxRuns /\ cloudFaults \in 0..MaxCloudFaults
      /\ orphaned \in BOOLEAN /\ meddled \in BOOLEAN
  BY <1>2, TypesAre
<1>4. Owned \in [Kinds -> ResourceIds]
  BY <1>2, InUseFits DEF Owned
<1>5. WellLinked' <=> WellLinked
  BY <1>1 DEF WellLinked
<1>6. CASE ownership' = Owned /\ Ends("published") /\ UNCHANGED cloudFaults
  <2>1. invocation' = Resting /\ ending' \in Ending
    BY <1>6 DEF Ends, Ending
  <2> QED BY <1>1, <1>2, <1>3, <1>4, <1>5, <1>6, <2>1, EndKeeps
<1>7. CASE Fault /\ FailsOver /\ ownership' \in {ownership, Owned} /\ UNCHANGED ending
  BY <1>1, <1>2, <1>3, <1>4, <1>5, <1>7, FailsOverKeeps
<1> QED BY <1>6, <1>7 DEF WriteState

-----------------------------------------------------------------------------
(* The clean-up and the environment.                                       *)

\* The clean-up begins with the host.
LEMMA DisableKeeps ==
  ASSUME CloudInv, DisableLocal
  PROVE  CloudInv'
<1>1. /\ CloudflareTypeOK /\ invocation \in Invocation /\ CleanUpSafe
      /\ ~orphaned /\ ~meddled => WellLinked
  BY DEF CloudInv
<1>2. /\ cloud \in [Kinds -> Resource] /\ ownership \in [Kinds -> ResourceIds] /\ localHost \in Host
      /\ orphaned \in BOOLEAN /\ 0 \in ResourceIds
      /\ invocation.created \in Seq(Kinds) /\ Len(invocation.created) <= 4
  BY <1>1, TypesAre, IdsFit
<1>3. /\ invocation' = [invocation EXCEPT !.pc = "undo", !.created = invocation.created]
      /\ invocation'.created = invocation.created
  BY <1>1 DEF DisableLocal, MovesTo, Invocation
<1>4. Made' = Made
  BY <1>3 DEF Made
<1>5. UNCHANGED <<cloud, ownership, toolRuns, ending, orphaned, meddled>>
  BY DEF DisableLocal
<1>6. CleanUpSafe'
  BY <1>1, <1>3, <1>4, <1>5 DEF CleanUpSafe
<1>7. WellLinked' <=> WellLinked
  BY <1>5 DEF WellLinked
<1>8. localHost' \in Host /\ (Fault \/ UNCHANGED cloudFaults)
  <2>1. HostDisabled \in Host
    BY <1>2 DEF HostDisabled, Host
  <2> QED BY <1>2, <2>1 DEF DisableLocal
<1> QED BY <1>1, <1>2, <1>3, <1>5, <1>6, <1>7, <1>8, GivingUpKeeps

\* It then takes back what the run has made, the last first.
LEMMA UndoKeeps ==
  ASSUME CloudInv, Undo
  PROVE  CloudInv'
<1> DEFINE created == SubSeq(invocation.created, 1, Len(invocation.created) - 1)
           n == Len(invocation.created)
<1>1. /\ CloudflareTypeOK /\ invocation \in Invocation /\ CleanUpSafe
      /\ ~orphaned /\ ~meddled => WellLinked
  BY DEF CloudInv
<1>2. /\ cloud \in [Kinds -> Resource] /\ ownership \in [Kinds -> ResourceIds] /\ localHost \in Host
      /\ orphaned \in BOOLEAN
      /\ invocation.created \in Seq(Kinds) /\ n <= 4
  BY <1>1, TypesAre
<1>3. /\ invocation.created # <<>> /\ invocation.pc = "undo"
      /\ invocation' = [invocation EXCEPT !.created = created]
      /\ UNCHANGED <<ownership, localHost, toolRuns, ending, meddled>>
  BY DEF Undo
<1>4. /\ n \in Nat /\ n > 0 /\ DOMAIN invocation.created = 1..n /\ LastCreated \in Kinds
      /\ created \in Seq(Kinds) /\ Len(created) <= 4 /\ DOMAIN created = 1..(n - 1)
      /\ \A i \in 1..(n - 1) : created[i] = invocation.created[i]
      /\ LastCreated = invocation.created[n]
  BY <1>2, <1>3 DEF LastCreated
<1> HIDE DEF created, n
<1>5. /\ invocation' = [invocation EXCEPT !.pc = "undo", !.created = created]
      /\ invocation'.created = created
  BY <1>1, <1>3 DEF Invocation
<1>6. Made = Made' \cup {LastCreated} /\ LastCreated \in Made
  BY <1>4, <1>5 DEF Made
<1>7. \A k \in Made : k = LastCreated \/ Rank[k] < Rank[LastCreated]
  <2> SUFFICES ASSUME NEW i \in 1..n
               PROVE  invocation.created[i] = LastCreated \/ Rank[invocation.created[i]] < Rank[LastCreated]
    BY <1>4 DEF Made
  <2>1. CASE i = n
    BY <1>4, <2>1
  <2>2. CASE i < n
    BY <1>1, <1>4, <2>2 DEF CleanUpSafe
  <2> QED BY <1>4, <2>1, <2>2
<1>8. \A i, j \in DOMAIN created : i < j => Rank[created[i]] < Rank[created[j]]
  <2>1. \A i \in DOMAIN created : i \in DOMAIN invocation.created /\ created[i] = invocation.created[i]
    BY <1>4
  <2> QED BY <1>1, <2>1 DEF CleanUpSafe
<1>9. CASE Fault /\ orphaned' = TRUE /\ UNCHANGED cloud
  <2>1. CleanUpSafe'
    BY <1>5, <1>8, <1>9 DEF CleanUpSafe
  <2> QED BY <1>2, <1>3, <1>4, <1>5, <1>9, <2>1, GivingUpKeeps
<1>10. CASE cloud' = [cloud EXCEPT ![LastCreated] = Nothing] /\ UNCHANGED <<cloudFaults, orphaned>>
  <2>1. /\ cloud' \in [Kinds -> Resource] /\ ~Exists(cloud', LastCreated)
        /\ \A k \in Kinds : k # LastCreated => cloud'[k] = cloud[k]
    BY <1>2, <1>4, <1>10, IdsFit DEF Exists
  <2>2. CleanUpSafe'
    <3>1. /\ "policy" \in Made' /\ Exists(cloud', "app") /\ ~orphaned => "app" \in Made'
          /\ "tunnel" \in Made' /\ Exists(cloud', "dns") /\ ~orphaned => "dns" \in Made'
      BY <1>1, <1>6, <2>1 DEF CleanUpSafe, Exists, Kinds
    <3> QED BY <1>5, <1>8, <1>10, <3>1 DEF CleanUpSafe
  <2>3. ~orphaned => /\ LastCreated = "policy" => ~Exists(cloud, "app")
                     /\ LastCreated = "tunnel" => ~Exists(cloud, "dns")
    BY <1>1, <1>6, <1>7, RankIs DEF CleanUpSafe
  <2>4. ~orphaned' /\ ~meddled' => WellLinked'
    <3> SUFFICES ASSUME ~orphaned, ~meddled PROVE WellLinked'
      BY <1>3, <1>10
    <3>1. WellLinked
      BY <1>1
    <3>2. CASE LastCreated = "policy"
      BY <2>1, <2>3, <3>1, <3>2 DEF WellLinked, Exists, Kinds
    <3>3. CASE LastCreated = "app"
      BY <2>1, <3>1, <3>3 DEF WellLinked, Exists, Kinds
    <3>4. CASE LastCreated = "tunnel"
      BY <2>1, <2>3, <3>1, <3>4 DEF WellLinked, Exists, Kinds
    <3>5. CASE LastCreated = "dns"
      BY <2>1, <3>1, <3>5 DEF WellLinked, Exists, Kinds
    <3> QED BY <1>4, <3>2, <3>3, <3>4, <3>5 DEF Kinds
  <2> QED BY <1>2, <1>3, <1>4, <1>5, <1>10, <2>1, <2>2, <2>4, GivingUpKeeps
<1> QED BY <1>9, <1>10 DEF Undo

\* The end of the clean-up, a crash and the dashboard.
LEMMA OutsideKeeps ==
  ASSUME CloudInv, Undone \/ Crash \/ Meddle
  PROVE  CloudInv'
<1>1. /\ CloudflareTypeOK /\ invocation \in Invocation
      /\ ~orphaned /\ ~meddled => WellLinked
  BY DEF CloudInv
<1>2. /\ cloud \in [Kinds -> Resource] /\ ownership \in [Kinds -> ResourceIds] /\ localHost \in Host
      /\ toolRuns \in 0..MaxRuns /\ cloudFaults \in 0..MaxCloudFaults
      /\ ending \in Ending /\ orphaned \in BOOLEAN /\ meddled \in BOOLEAN
  BY <1>1, TypesAre
<1>3. CASE Undone \/ Crash
  <2>1. invocation' = Resting /\ ending' \in Ending
    BY <1>3 DEF Undone, Crash, Ends, Ending
  <2>2. UNCHANGED <<cloud, ownership, toolRuns, orphaned, meddled>>
    BY <1>3 DEF Undone, Crash
  <2>3. cloudFaults' \in 0..MaxCloudFaults
    BY <1>1, <1>3, FaultCounts DEF Undone, Crash
  <2>4. localHost' \in Host
    <3>1. InUse("app") \in ResourceIds /\ InUse("tunnel") \in ResourceIds
      BY <1>1, InUseFits DEF Kinds
    <3>2. HostEnabled \in Host
      BY <3>1 DEF HostEnabled, Host
    <3> QED BY <1>2, <1>3, <3>2 DEF Undone, Crash
  <2>5. WellLinked' <=> WellLinked
    BY <2>2 DEF WellLinked
  <2> QED BY <1>1, <1>2, <2>1, <2>2, <2>3, <2>4, <2>5, EndKeeps
<1>4. CASE Meddle
  <2>1. PICK k \in Kinds : cloud' = [cloud EXCEPT ![k] = Nothing]
    BY <1>4 DEF Meddle
  <2>2. /\ meddled' = TRUE /\ invocation.pc = "idle" /\ invocation.created = <<>>
        /\ UNCHANGED <<ownership, localHost, invocation, toolRuns, cloudFaults, ending, orphaned>>
    BY <1>4 DEF Meddle, CloudInv
  <2>3. cloud' \in [Kinds -> Resource]
    BY <1>2, <2>1, IdsFit
  <2>4. CloudflareTypeOK'
    BY <1>1, <2>2, <2>3 DEF CloudflareTypeOK, Resource, ResourceIds
  <2>5. CleanUpSafe'
    BY <2>2 DEF CleanUpSafe, Made
  <2> QED BY <1>1, <2>2, <2>4, <2>5 DEF CloudInv, Working
<1> QED BY <1>3, <1>4

\* It holds of a zone without the deployment's resources, or with a look-alike.
LEMMA CloudInvInit == CloudInit => CloudInv
<1> SUFFICES ASSUME CloudInit PROVE CloudInv
  OBVIOUS
<1>1. /\ invocation \in Invocation /\ invocation.pc = "idle" /\ invocation.created = <<>>
      /\ invocation.enabled = FALSE /\ invocation.found \in [Kinds -> Resource]
  BY RestingFits, IdsFit DEF CloudInit
<1>2. cloud \in [Kinds -> Resource]
  <2>1. CASE cloud = [k \in Kinds |-> Nothing]
    BY <2>1, IdsFit
  <2>2. CASE \E k \in Kinds, link \in {0, Foreign} :
               cloud = [[j \in Kinds |-> Nothing] EXCEPT ![k] = [id |-> Foreign, link |-> link]]
    <3>1. PICK k \in Kinds, link \in {0, Foreign} :
            cloud = [[j \in Kinds |-> Nothing] EXCEPT ![k] = [id |-> Foreign, link |-> link]]
      BY <2>2
    <3>2. [id |-> Foreign, link |-> link] \in Resource
      BY IdsFit DEF Resource
    <3> QED BY <3>1, <3>2, IdsFit
  <2> QED BY <2>1, <2>2 DEF CloudInit
<1>3. ~meddled => WellLinked
  BY IdsFit DEF CloudInit, WellLinked, Exists, Kinds
<1>4. /\ ownership \in [Kinds -> ResourceIds] /\ localHost \in Host /\ toolRuns = 0
      /\ cloudFaults = 0 /\ ending \in Ending /\ orphaned = FALSE /\ meddled \in BOOLEAN
  BY IdsFit DEF CloudInit, Host, Ending
<1>5. CloudflareTypeOK
  <2>1. 0 \in 0..MaxRuns /\ 0 \in 0..MaxCloudFaults
    BY CloudBounds
  <2>2. invocation.created \in Seq(Kinds) /\ Len(invocation.created) <= 4
    BY <1>1
  <2> QED BY <1>1, <1>2, <1>4, <2>1, <2>2, TypesAre
<1>6. CleanUpSafe
  BY <1>1 DEF CleanUpSafe, Made
<1> QED BY <1>1, <1>3, <1>5, <1>6 DEF CloudInv, Working

\* Every step keeps it.
LEMMA CloudInvStep == CloudInv /\ [CloudNext]_cloudVars => CloudInv'
<1> SUFFICES ASSUME CloudInv, [CloudNext]_cloudVars PROVE CloudInv'
  OBVIOUS
<1>1. CASE (\E adopt \in BOOLEAN : DiscoverCloud(adopt)) \/ Decline \/ Confirm
  BY <1>1, PlanKeeps
<1>2. CASE Keep
  BY <1>2, KeepKeeps
<1>3. CASE Create
  BY <1>3, CreateKeeps
<1>4. CASE PutIngress
  BY <1>4, PutIngressKeeps
<1>5. CASE ConfigureLocal
  BY <1>5, ConfigureLocalKeeps
<1>6. CASE WriteState
  BY <1>6, WriteStateKeeps
<1>7. CASE DisableLocal
  BY <1>7, DisableKeeps
<1>8. CASE Undo
  BY <1>8, UndoKeeps
<1>9. CASE Undone \/ Crash \/ Meddle
  BY <1>9, OutsideKeeps
<1>10. CASE UNCHANGED cloudVars
  <2>1. /\ CloudflareTypeOK' <=> CloudflareTypeOK
        /\ WellLinked' <=> WellLinked
        /\ CleanUpSafe' <=> CleanUpSafe
        /\ PlanHolds' <=> PlanHolds
    BY <1>10 DEF cloudVars, CloudflareTypeOK, WellLinked, CleanUpSafe, PlanHolds, Made
  <2>2. InPlace' <=> InPlace
    BY <1>10 DEF cloudVars, InPlace, Made
  <2> QED BY <1>10, <2>1, <2>2 DEF cloudVars, CloudInv
<1> QED BY <1>1, <1>2, <1>3, <1>4, <1>5, <1>6, <1>7, <1>8, <1>9, <1>10 DEF CloudNext

-----------------------------------------------------------------------------
(* The theorems.                                                           *)

\* The invariant holds of every state of the deployment.
LEMMA CloudInvHolds == CloudSpec => []CloudInv
BY CloudInvInit, CloudInvStep, PTL DEF CloudSpec

\* main and its clean-up: after any ending a run with --adopt-existing is accepted, unless
\* a delete failed, a create was hidden behind an error, or someone else changed the zone.
THEOREM RerunsRecover == CloudSpec => []RerunRecovers
<1>1. CloudInv => RerunRecovers
  <2> SUFFICES ASSUME CloudInv, ~orphaned, ~meddled,
                      Exists(cloud, "tunnel") => cloud["tunnel"].link # 0,
                      NEW k \in Kinds, Exists(cloud, k)
               PROVE  Expected(cloud, k) # 0 /\ cloud[k].link = Expected(cloud, k)
    BY DEF RerunRecovers, PlanRefused
  <2>1. WellLinked
    BY DEF CloudInv
  <2> QED BY <2>1, ExpectedIs DEF WellLinked, Exists, Kinds
<1> QED BY <1>1, CloudInvHolds, PTL

\* The order of main: the DNS record is made when all it publishes is in place, however
\* many runs there were and whatever they left behind.
THEOREM PublicationComesLast == CloudSpec => PublicationIsLast
<1>1. CloudInv /\ [CloudNext]_cloudVars =>
        [~Exists(cloud, "dns") /\ Exists(cloud', "dns") =>
           /\ \A k \in {"policy", "app", "tunnel"} :
                Exists(cloud, k) /\ cloud[k].link = Expected(cloud, k)
           /\ localHost.enabled /\ localHost.audience = cloud["app"].id]_cloudVars
  <2> SUFFICES ASSUME CloudInv, CloudNext, ~Exists(cloud, "dns"), Exists(cloud', "dns")
               PROVE  /\ \A k \in {"policy", "app", "tunnel"} :
                           Exists(cloud, k) /\ cloud[k].link = Expected(cloud, k)
                      /\ localHost.enabled /\ localHost.audience = cloud["app"].id
    BY DEF cloudVars
  <2>1. CloudflareTypeOK /\ invocation \in Invocation /\ cloud \in [Kinds -> Resource] /\ "dns" \in Kinds
    BY TypesAre DEF CloudInv, Kinds
  <2>2. invocation.pc = "dns"
    <3>1. cloud' # cloud
      OBVIOUS
    <3>2. ~(Decline \/ Confirm \/ Keep \/ ConfigureLocal \/ WriteState \/ DisableLocal \/ Undone \/ Crash)
      BY <3>1 DEF Decline, Confirm, Keep, ConfigureLocal, WriteState, DisableLocal, Undone, Crash
    <3>3. ~(\E adopt \in BOOLEAN : DiscoverCloud(adopt))
      BY <3>1 DEF DiscoverCloud
    <3>4. ~(PutIngress \/ Undo \/ Meddle)
      <4>1. \A k : Exists([cloud EXCEPT ![k] = Nothing], "dns") => Exists(cloud, "dns")
        BY <2>1, IdsFit DEF Exists
      <4>2. ~Exists([cloud EXCEPT !["tunnel"].link = toolRuns], "dns")
        BY <2>1 DEF Exists
      <4> QED BY <3>1, <4>1, <4>2 DEF PutIngress, Undo, Meddle
    <3>5. CASE Create
      <4>1. cloud' = Added(invocation.pc) /\ invocation.pc \in Kinds
        BY <3>1, <3>5 DEF Create
      <4> QED BY <2>1, <4>1, AddedIs DEF Exists
    <3> QED BY <3>2, <3>3, <3>4, <3>5 DEF CloudNext
  <2>3. InPlace
    BY <2>2 DEF CloudInv, Working
  <2> QED BY <2>2, <2>3, RankIs, ExpectedIs DEF InPlace
<1> QED BY <1>1, CloudInvHolds, PTL DEF CloudSpec, PublicationIsLast

\* Type correctness: the zone, the state file, the host and the run under way.
THEOREM CloudflareTypes == CloudSpec => []CloudflareTypeOK
<1>1. CloudInv => CloudflareTypeOK
  BY DEF CloudInv
<1> QED BY <1>1, CloudInvHolds, PTL
=============================================================================
