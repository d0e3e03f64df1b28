SPECIFICATION FairSpec
CONSTANTS
    Flows = {1, 2, 3}
    Socks = {1, 2, 3}
    Creds = {1, 2}
    Urls = {"prod", "dev"}
    Probed = {"dev"}
    Programs <- MCPrograms
    None = None
    Agents = {"a1", "a2"}
    LSocks = {11, 12, 13}
    Challenges = {1, 2, 3}
    Cmds = {1, 2}
    Lease = 2
    Period = 1
PROPERTIES
    
    
    AgentIsFound
    DisconnectIsConfirmed
    LocalFirst
CHECK_DEADLOCK FALSE
