CONSTANTS
    Cfgs <- MCCfgs
    l0 = l0
    l1 = l1
    l2 = l2
    Lanes <- MCLanes
    MaxTrips <- MCMaxTrips
    Garbage = Garbage
    Poison = Poison
    Flows <- MCFlows
SPECIFICATION ValuesSpec
INVARIANT OnlyEntrantsRepeat
