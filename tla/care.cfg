SPECIFICATION CareSpec
CONSTANTS
    Huawei = {h1}
    Tencent = {t1}
    Tasks = {chat, web}
    WebTasks = {web}
    MaxDay = 2
    MaxEnergy = 2
    MaxOpenCount = 2
    MaxEvents = 2
INVARIANTS CareTypeOK EveryoneServed TrialOpened
PROPERTIES RewardsCollected PetsTended
