---------------------------- MODULE MCRsmiCalls -----------------------------
EXTENDS RsmiCalls
CONSTANTS p, q
MCWorkload == [x \in Procs |-> IF x = p THEN ApiFunctions ELSE {"rsmi_dev_clk_range_set"}]
=============================================================================
