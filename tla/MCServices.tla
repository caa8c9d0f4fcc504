----------------------------- MODULE MCServices -----------------------------
\* Services that share no state, side by side: a behaviour exercises one of
\* them.  The documentation page is served through the gateway, where it meets
\* one other request; without a page two requests meet.  MaxSets bounds the
\* writes to the cache and the expiries in it together.
EXTENDS Registry, Router, AutoRebalance, CacheManager, DocsPage, Accounts, TLC

VARIABLE service

MCVnodeHash == ("s1" :> <<1, 5>>) @@ ("s2" :> <<3, 4>>) @@ ("s3" :> <<6, 2>>)
MCLoads == {[over |-> TRUE, score |-> 1], [over |-> FALSE, score |-> 0],
            [over |-> FALSE, score |-> NoScore]}
MCJsonSize == <<1, 3, 1>>
MCGzipSize == <<1, 2, 1>>
MCSpent == [key \in LimiterKeys |-> CASE key = <<"uuid", "u1">> -> Burst - 1
                                      [] key = <<"ip", "ip1">>  -> 1
                                      [] OTHER                  -> 0]
MCFiles == Needed \cup {Linked[i] : i \in DOMAIN Linked}
MCBuilds == {[files |-> MCFiles, parses |-> TRUE],
             [files |-> MCFiles, parses |-> FALSE],
             [files |-> MCFiles \ {"openapi.json"}, parses |-> FALSE]}
MCPageIp == [p \in Pages |-> "ip1"]

Init ==
  /\ service \in {"registry", "router", "rebalance", "cache", "gateway", "docs",
                  "accounts"}
  /\ RegistryInit /\ RouterInit /\ RebalanceInit /\ CacheInit /\ DocsInit
  /\ AccountsInit
  /\ service # "cache" => l2Kind = "disk"
  /\ service # "gateway" => ~corsEnabled /\ ~keyIsUuid
  /\ service \notin {"gateway", "docs"} => ~limitEnabled
  /\ service # "docs" => build.parses

Next ==
  \/ /\ service = "registry" /\ RegistryNext
     /\ UNCHANGED <<service, routerVars, rebalanceVars, cacheVars,
                    gatewayVars, docsVars, accountVars>>
  \/ /\ service = "router" /\ RouterNext
     /\ UNCHANGED <<service, registryVars, rebalanceVars, cacheVars,
                    gatewayVars, docsVars, accountVars>>
  \/ /\ service = "rebalance" /\ RebalanceNext
     /\ UNCHANGED <<service, registryVars, routerVars, cacheVars,
                    gatewayVars, docsVars, accountVars>>
  \/ /\ service = "cache" /\ CacheNext /\ sets' + expiries' <= MaxSets
     /\ UNCHANGED <<service, registryVars, routerVars, rebalanceVars,
                    gatewayVars, docsVars, accountVars>>
  \/ /\ service = "gateway" /\ GatewayNext
     /\ UNCHANGED <<service, registryVars, routerVars, rebalanceVars,
                    cacheVars, docsVars, accountVars>>
  \/ /\ service = "docs" /\ DocsNext /\ requests' <= 1
     /\ UNCHANGED <<service, registryVars, routerVars, rebalanceVars,
                    cacheVars, accountVars>>
  \/ /\ service = "accounts" /\ AccountsNext
     /\ UNCHANGED <<service, registryVars, routerVars, rebalanceVars,
                    cacheVars, gatewayVars, docsVars>>

Spec == Init /\ [][Next]_<<service, registryVars, routerVars, rebalanceVars,
                          cacheVars, gatewayVars, docsVars, accountVars>>
=============================================================================
