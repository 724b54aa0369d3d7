SPECIFICATION Spec
CONSTANTS
    Deployments = {{"learning"}, {"vlan"}, {"mac_nat", "arp_proxy", "ndp_proxy"},
                   {"snat"}, {"dnat"}, {"snat", "dnat"}}
    MaxCalls = 3
    MaxFrames = 2
INVARIANTS DeleteLeavesNothing VlanIsolation MacHidden RequestIsAnswered
           OnlyInvitedEnter NewIsMasqueraded
PROPERTIES DeleteSparesOthers
CHECK_DEADLOCK FALSE
