---------------------------- MODULE MCGangLaunch -----------------------------
(* Gang sizes around and above the grid size, full and partial last gangs, *)
(* every template, sequential and parallel.                                *)
EXTENDS GangLaunch

MCWorkers == {"w0", "w1"}

MCLaunches ==
    {l \in [unit : {"gangs", "threads"}, head : BOOLEAN, tail : BOOLEAN,
            parallel : BOOLEAN, grid : 0..10, gang : 2..4] :
        l.unit = "gangs" => l.grid % l.gang = 0}
=============================================================================
