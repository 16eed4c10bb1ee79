SPECIFICATION Spec
CONSTANTS
    daemon = daemon
    cli = cli
    p1 = p1
    p2 = p2
    music = music
    zoom = zoom
    None = None
    Apps = {music, zoom}
    OwnApps = {}
    AlwaysHold = {}
    DefaultPlayers = {music}
    MaxMeeting = 1
    Waits = {1, 2}
    MaxEvents = 2
    MaxAlready = 1
    Plays = {p1, p2}
    Sinks = {daemon, cli}
    Callers = {c1}
CHECK_DEADLOCK FALSE
INVARIANTS OneAtATime OnlyAskedAreCut HoldIsBounded MeetingSetsAside  
PROPERTIES ReapSparesTheLiving 
