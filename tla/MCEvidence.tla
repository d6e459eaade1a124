----------------------------- MODULE MCEvidence -----------------------------
EXTENDS Evidence, TLC

\* Two services on one repeater output, and one of them on its input
channel(c, bw, s, lic, rpt, off) ==
    [lo |-> c - 3, hi |-> c + 2, center |-> c, bw |-> bw, service |-> s,
     kind |-> "channel", licensed |-> lic, rpt |-> rpt, offset |-> off]

MCServices == <<"frs", "gmrs">>
MCPlan == {channel(21, 6, "frs", FALSE, FALSE, None),
           channel(21, 8, "gmrs", TRUE, TRUE, 8),
           channel(29, 8, "gmrs", TRUE, FALSE, None)}
MCResults == {[tone |-> "unknown", ctcss |-> None, dcs |-> None],
              [tone |-> "none", ctcss |-> None, dcs |-> None],
              [tone |-> "dcs", ctcss |-> None, dcs |-> None]} \cup
             {[tone |-> "ctcss", ctcss |-> t, dcs |-> None] : t \in {1, 2}} \cup
             {[tone |-> "dcs", ctcss |-> None, dcs |-> t] : t \in {1, 2}}
MCMeasurements == [dev : {2, 4, 9}, snr : {10}] \cup [dev : {9}, snr : {9}]

\* Any spacing and order, of two services
MCChannels == [center : 4 .. 10, bw : {3, 6}, service : {"frs", "gmrs"}]

MCTones == <<1, 2>>
MCDeviationLimit == (6 :> 2) @@ (8 :> 5)
=============================================================================
