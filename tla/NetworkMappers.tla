--------------------------- MODULE NetworkMappers ---------------------------
(***************************************************************************)
(* Static mappers of the network groups and of what is no workload: flat   *)
(* hourly fees, data transfer, Shield, commitments.  A mapper that shares  *)
(* something between the rows of its group takes the whole batch and the   *)
(* index of the row.                                                       *)
(***************************************************************************)
EXTENDS MappingEntries

\* FLAT_HOURLY_MAP; None is the entry that knows the fee but has no target.
FLAT_HOURLY_MAP == <<
    <<"application LB", "Regional ALB Forwarding Rule">>,
    <<"network LB", "NLB Forwarding Rule">>,
    <<"LoadBalancerUsage", "Forwarding Rule">>, <<"LoadBalancer", "Forwarding Rule">>,
    <<"TransitGateway-Hours", "VPN Tunnel">>,
    <<"EKS-Hours", "Kubernetes Clusters">>, <<"eks", "Kubernetes Clusters">>,
    <<"idle IPv4", "Static IP">>, <<"PublicIPv4", "External IP">>,
    <<"public IPv4 address", "External IP">>, <<"ElasticIP", "External IP">>,
    <<"VPN-Connections", "VPN Tunnel">>, <<"VPN", "VPN Tunnel">>,
    <<"DirectConnect", "Interconnect 10Gbps">>, <<"directconnect", "Interconnect 10Gbps">>,
    <<"fixed fee", "Forwarding Rule Global">>,
    <<"GlobalAccelerator", None>>, <<"Global Accelerator", None>>,
    <<"globalaccelerator", None>> >>

WebAcl(r)  == Hits(AnyText(r), {"WebACL-Hour", "Web ACL"})
WafRule(r) == Hits(AnyText(r), {"Rule-Hour", "WAF Rule"}) /\ "waf" \in r.product
EnterpriseFeature(r) ==
    Hits(AnyText(r), {"Bot Control", "AntiDDoS", "Fraud Control"}) /\ ~WebAcl(r) /\ ~WafRule(r)

ENTERPRISE_ENROLLMENT == "Cloud Armor Enterprise Paygo"

\* One account-level fee a month covers every enterprise feature of that month.
map_enterprise_feature(rows, i, cats) ==
    LET Resolves(r) == ENTERPRISE_ENROLLMENT \in cats[r.region].names
        priced      == {j \in DOMAIN rows : EnterpriseFeature(rows[j]) /\ Resolves(rows[j])}
    IN  IF PricedEarlier(rows, i, priced) THEN Ignore("hourly", 65)
        ELSE MapOrPass(cats[rows[i].region], "hourly", ENTERPRISE_ENROLLMENT, 65)

FlatHourlyConf(r) ==
    CASE "DirectConnect" \in AnyText(r)        -> 55
      [] "DirectConnect" \notin AnyText(r) /\ "TransitGateway-Hours" \in AnyText(r) -> 60
      [] OTHER                                 -> 90

map_hourly_fee(r, cat) ==
    LET sku == FirstIn(FLAT_HOURLY_MAP, AnyText(r), "no match")
    IN  CASE sku = "no match" -> Pass("hourly", 30)
          [] sku = None       -> Pass("hourly", 90)
          [] OTHER            -> MapOrPass(cat, "hourly", sku, FlatHourlyConf(r))

map_flat_hourly(rows, i, cats) ==
    LET r   == rows[i]
        nat == Hits(Text(r), {"NatGateway-Hours", "NatGateway"}) \/ "NatGateway" \in r.product
    IN  CASE WebAcl(r) \/ WafRule(r) ->
                 MapOrPass(cats[r.region], "hourly",
                           IF WebAcl(r) THEN "Cloud Armor Policy" ELSE "Cloud Armor Rule", 80)
          [] EnterpriseFeature(r) -> map_enterprise_feature(rows, i, cats)
          [] OTHER ->
                 IF "IPAM" \in Text(r) THEN Pass("hourly", 85)
                 ELSE IF nat /\ "PrivateNat" \in Text(r)
                      THEN MapOrPass(cats[r.region], "hourly", "Private NAT Uptime", 90)
                 ELSE IF nat THEN MapOrPass(cats[r.region], "hourly", "Cloud NAT Uptime", 85)
                 ELSE map_hourly_fee(r, cats[r.region])

-----------------------------------------------------------------------------
\* _transfer_target: the kind of traffic, "ignore" for ingress.
transfer_target(r) ==
    FirstIn(<< <<"In-Bytes", "ignore">>, <<"VpcPeering-Bytes", "interzone">>,
               <<"regional", "interzone">>, <<"inter-region", "interregion">> >>,
            AnyText(r), "internet")

map_balancer_bytes(r, cat) ==
    CASE "application LB" \in AnyText(r) -> MapOrPass(cat, "transfer", "ALB Data Processing", 65)
      [] "application LB" \notin AnyText(r) /\ "network LB" \in AnyText(r) ->
             MapOrPass(cat, "transfer", "NLB Data Processing", 65)
      [] OTHER -> Pass("transfer", 45)

\* NAT, transit gateway and load-balancer processing fees come before plain
\* transfer; CloudFront egress is priced by destination.
map_data_transfer(r, cat) ==
    LET natProduct == "NatGateway" \in r.product
        natBytes   == "NatGateway-Bytes" \in Text(r) \/ (natProduct /\ "per gb" \in r.op)
        natHours   == natProduct /\ ~natBytes /\ "hour" \in r.op
        lcu        == Hits(Text(r), {"LCUUsage", "LCU-Hrs", "LoadBalancer-Bytes"})
    IN  CASE natProduct /\ ~natBytes /\ ~natHours -> Pass("nat", 60)
          [] natHours -> MapAlways(cat, "nat", "Private NAT Uptime", 90)
          [] natBytes -> MapAlways(cat, "transfer", "NAT Data Processing", 90)
          [] OTHER ->
                 IF "TransitGateway-Bytes" \in Text(r) THEN Ignore("transfer", 90)
                 ELSE IF lcu THEN map_balancer_bytes(r, cat)
                 ELSE IF "CloudFront" \in r.product /\ "Out-Bytes" \in r.usage
                      THEN Out("transfer", "map", "CDN egress", 80)
                 ELSE IF transfer_target(r) = "ignore" THEN Ignore("transfer", 85)
                 ELSE Out("transfer", "map", "egress " \o transfer_target(r), 85)

\* CloudFront egress of a PDF bill, CPU credits, and everything that is no
\* workload at cost parity.
map_non_workload(r, cat) ==
    CASE "CloudFront" \in r.product /\ "data transfer out" \in r.op ->
             Out("transfer", "map", "CDN egress", 75)
      [] ~("CloudFront" \in r.product /\ "data transfer out" \in r.op)
             /\ "CPUCredits" \in r.product \cup r.op -> Ignore("cpu-credits", 95)
      [] OTHER -> Pass("passthrough", 100)

\* Every line whose text says that it belongs to a commitment or a discount
\* ("DiscountedUsage" says so too), and every credit.
CommitmentTypes == {"RIFee", "SavingsPlanRecurringFee", "EdpDiscount", "DiscountedUsage",
                    "SavingsPlanCoveredUsage", "Credit"}

map_commitment_discount(r, cat) ==
    IF r.lit \in CommitmentTypes \/ Hits(r.product, {"Discounts"}) \/ r.cost < 0
    THEN Ignore("commitment", 100)
    ELSE Llm

-----------------------------------------------------------------------------
ARMOR_SUBSCRIPTION == "Cloud Armor Enterprise Annual"

ShieldFree(r)         == "standard" \in AnyText(r) \/ r.cost = 0
ShieldTransfer(r)     == ~ShieldFree(r) /\ Hits(AnyText(r), {"DataTransfer", "Out-Bytes", "In-Bytes"})
ShieldSubscription(r) == ~ShieldFree(r) /\ ~ShieldTransfer(r)
                         /\ Hits(AnyText(r), {"MonthlyFee", "subscription"})

\* The Shield Advanced subscription is priced once a month.
map_shield(rows, i, cats) ==
    LET r         == rows[i]
        priced    == {j \in DOMAIN rows : /\ ShieldSubscription(rows[j])
                                          /\ ARMOR_SUBSCRIPTION \in cats[rows[j].region].names}
    IN  CASE ShieldFree(r)     -> Ignore("protection", 100)
          [] ShieldTransfer(r) -> Pass("data_transfer", 70)
          [] ShieldSubscription(r) ->
                 IF PricedEarlier(rows, i, priced) THEN Ignore("subscription", 100)
                 ELSE MapOr(cats[r.region], "subscription", ARMOR_SUBSCRIPTION, 90, 60)
          [] OTHER -> Pass("shield_other", 50)
=============================================================================
