SPECIFICATION Spec
CONSTANTS
  human = human
  agent = agent
  gov = gov
  work = work
  Actor = {human, agent}
  Human = {human}
  Trusted = {agent}
  Initial = {"initial"}
  Granted = {human}
  Ticket = {gov, work}
  Proposal = {"PROP-001"}
  Main = Main
  Text <- MCText
  Path <- MCPath
  Blocks <- MCBlocks
  NoLock = NoLock
  Cut <- MCCut
  Area <- MCArea
  Scope <- MCScope
  MaxFiles <- MCMaxFiles
  TicketType <- MCTicketType
  PatchList <- MCPatchList
  Drafts <- MCDrafts
  MaxCommands = 2
  MaxOutside = 0
  None = None
INVARIANTS
  HumanApproves
CHECK_DEADLOCK FALSE
