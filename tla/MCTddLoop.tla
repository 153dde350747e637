---------------------------- MODULE MCTddLoop -----------------------------
EXTENDS TddLoop

(* One item of every way through the dispatch.                              *)
Made(kind, runner, mode, command, url, expects) ==
    [kind |-> kind, runner |-> runner, mode |-> mode,
     command |-> command, url |-> url, expects |-> expects]

MCShapes ==
    {Made("logic", "none", "none", TRUE, FALSE, FALSE),
     Made("integration", "none", "none", TRUE, FALSE, FALSE),
     Made("logic", "none", "none", FALSE, FALSE, FALSE),
     Made("a11y", "axe", "none", FALSE, TRUE, FALSE),
     Made("visual", "playwright", "none", FALSE, TRUE, TRUE),
     Made("integration", "none", "other", FALSE, FALSE, FALSE)}
=============================================================================
