SPECIFICATION Spec
CONSTANTS
  N = 4
  NoRun = NoRun
  Teams <- MCTeams
  Width = 2
  MaxIterations = 2
  Cost = {1}
  MaxHandoffs = 1
  MaxProposals = 1
INVARIANTS
  NoRunOutlivesCaller UsageBilledOnce OverrunBounded ProposalsDelivered HandoffsBounded

  
CHECK_DEADLOCK FALSE
