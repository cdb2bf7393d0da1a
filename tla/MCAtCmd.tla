------------------------------- MODULE MCAtCmd -------------------------------
EXTENDS AtCmd

C(c, n) == [call |-> c, times |-> n]
MCPlans == {<<C("replys", 1), C("reply", 1)>>, <<C("reply", 2)>>, <<C("send", 1), C("close", 1)>>, <<C("send", 2)>>,
            <<C("connect", 1)>>, <<C("connect", 2)>>}
           \cup {<<C(c, 1)>> : c \in {"ccid", "imei", "csq", "sack", "ops", "lacci"}}
MCBlankLines == [p \in MCPlans |-> p \in {<<C("connect", 2)>>, <<C("csq", 1)>>}]
MCFrames == {<<"x", "y">>}
=============================================================================
