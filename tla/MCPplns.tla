------------------------------- MODULE MCPplns -------------------------------
(* Small instances of Pplns.                                                *)
EXTENDS Pplns

CONSTANTS alice, bob

\* Four shares, numbered by their age.
Stamps == {<<1, 1, 1, 2>>, <<1, 1, 2, 2>>, <<1, 1, 2, 3>>, <<1, 2, 2, 3>>, <<1, 2, 3, 3>>}

\* Shares that fill the window at a page's end or within it, or not at all; one
\* has no difficulty, or fills it alone.
Scores == {<<1, 1, 1, 1>>, <<2, 1, 1, 1>>, <<1, 2, 2, 2>>, <<1, 2, 0, 1>>, <<1, 1, 0, 1>>,
           <<1, 1, 3, 1>>}

\* The miners take turns.
MCLogs == {[s \in Shares |-> [created |-> times[s], score |-> scores[s],
                              miner |-> IF s % 2 = 0 THEN alice ELSE bob]] :
              times \in Stamps, scores \in Scores}

\* The second block has the later time stamp, the same, or an earlier one; the
\* recipients may leave nothing of the first.
MCFinds == {<<[created |-> 2, reward |-> 1], [created |-> 3, reward |-> 1]>>,
            <<[created |-> 3, reward |-> 1], [created |-> 3, reward |-> 1]>>,
            <<[created |-> 3, reward |-> 1], [created |-> 2, reward |-> 1]>>,
            <<[created |-> 2, reward |-> 0], [created |-> 3, reward |-> 1]>>,
            <<[created |-> 3, reward |-> 0], [created |-> 2, reward |-> 1]>>}
=============================================================================
