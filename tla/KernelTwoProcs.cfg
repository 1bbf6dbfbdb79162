\* The sidecar and one stage worker on the same database.
SPECIFICATION Spec
CONSTANTS
    c1 = c1
    c2 = c2
    c3 = c3
    c4 = c4
    c5 = c5
    pl1 = pl1
    t1 = t1
    t2 = t2
    blank = blank
    Procs = {sidecar, worker}
    Pipelines <- MCPipelines
    CmdIds <- MCCmdIds
    Texts <- MCTexts
    Blank = blank
    Commands <- RacingCommands
PROPERTIES
    TransactionsSuffice
