CONSTANTS
    Launches <- MCLaunches
    Workers <- MCWorkers
    Master = "w0"
    Idle = Idle
    Wrap = 16
SPECIFICATION Spec
INVARIANTS AtMostOnce ExactlyOnce HeadTailRight
