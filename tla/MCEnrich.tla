------------------------------ MODULE MCEnrich ------------------------------
EXTENDS Enrich

\* Two services on one repeater output, its input, and a segment below them
\* with no channel of its own.  Windows are wider than half a bin.
channel(c, bw, half, s, lic, rpt, off) ==
    [lo |-> c - half, hi |-> c + half - 1, center |-> c, bw |-> bw, service |-> s,
     kind |-> "channel", licensed |-> lic, rpt |-> rpt, offset |-> off]

MCServices == <<"frs", "gmrs", "ham">>
MCPlan == {channel(21, 6, 3, "frs", FALSE, FALSE, None),
           channel(21, 8, 3, "gmrs", TRUE, TRUE, 8),
           channel(29, 8, 3, "gmrs", TRUE, FALSE, None),
           [lo |-> 0, hi |-> 15, center |-> NoCenter, bw |-> None, service |-> "ham",
            kind |-> "segment", licensed |-> TRUE, rpt |-> FALSE, offset |-> None]}
MCAnalyses == {[tone |-> "none", ctcss |-> None, dcs |-> None, dev |-> 5]}
MCTones == <<1, 2>>
MCDeviationLimit == (6 :> 2) @@ (8 :> 5)
=============================================================================
