\* One application, which the operator resets while the agent submits it.
SPECIFICATION AttemptsSpec
CONSTANTS
    agent = agent
    operator = operator
    Session = {agent, operator}
    Posting = {1}
    ToolsOf <- AgentAndOperator
    MaxStarts <- Once
INVARIANTS
    SubmittedCannotBeReset
