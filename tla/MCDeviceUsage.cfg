SPECIFICATION Spec
CONSTANTS
    Key = {"dryer", "kettle", "microwave", "washing_machine", "dishwasher", "coffeemachine",
           "airfryer", "toaster", "cooker", "xbox", "water_purifier"}
    Watts = {0, 8, 3000}
    HourSlots = 2
    Slots = 5
    Earlier <- Mornings
    Temperature = {0, 30}
    Humidity = {90}
    MaxRooms = 2
    Missing = Missing
    NoGoal = NoGoal
    NoRecord = NoRecord
    NoEnd = NoEnd
INVARIANT TypeOK
INVARIANT SplitByHour
INVARIANT NoFalseAllClear
CHECK_DEADLOCK FALSE
