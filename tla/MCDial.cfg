\* Two answers of the name, two failovers; all sslmodes over one and two hosts.
CONSTANTS
    Addrs = {a1, a2}
    NoIPs = NoIPs
    name = name
    primary = primary
    standby = standby
    Named = name
    None = None
    Setups <- MCSetups
SPECIFICATION FairSpec
INVARIANTS
    SocketsOwned
    
    
PROPERTIES
    NoReconnectAfterStop
    DialReturns
    FollowsDNS
