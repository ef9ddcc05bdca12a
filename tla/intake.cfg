SPECIFICATION IntakeSpec
CONSTANTS
    TailMessages = 2
    TailChars = 5
    SystemChars = 1
    UserChars = 4
    AssistantChars = 4
    LongWeight = 4
    MaxImages = 2
    Models = {"m1", "m2"}
    Families <- MCFamilies
    BuiltIn = "builtin"
    Profiles <- MCProfiles
    Registrations <- MCRegistrations
    DefaultRoutes <- MCDefaultRoutes
    Docs <- MCDocs
    Editors = {e1, e2}
    Clients = {c1}
    Requests <- MCRequests
    Quick <- MCQuick
    Environments <- MCEnvironments
    MaxSaves = 2
    MaxBoots = 1
CHECK_DEADLOCK FALSE
INVARIANTS IntakeTypeOK RoutesSurviveRestart BlockedNotServed SameInEveryProtocol ThreadKept ImagesAccountedFor
