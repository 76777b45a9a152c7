SPECIFICATION ApprovalSpec
CONSTANTS
  c1 = c1
  m1 = m1
  m2 = m2
  write = write
  search = search
  Tool <- MCTool
  Call <- MCCall
  McpCall <- MCMcpCall
  ToolOf <- MCToolOf
  MaxEvent = 1
INVARIANTS ApprovalTypeOK FirstAnswerCounts AlwaysIsMeantAndKept
PROPERTIES NoCallHangs
CHECK_DEADLOCK FALSE
