SPECIFICATION OfficeSpec
CONSTANTS
    Bookings = {b1, b2}
    Slots = {s1, s2}
    Horizon = 3
    Operations = {"update", "delete"}
    Callers = {c1, c2}
    LineIds = {power}
    FixedLines = {}
    Amounts = {1, 2}
    LineAmounts = {2}
    Keys = {key}
    NoKey = NoKey
    SourceKey = SourceKey
    SourceTypes = {"SERVICE_CONTRACT", "PARKING"}
    MaxPayments = 2
    MaxAdjustments = 1
    Apart <- InvoicePairs
    Billers = {job, clerk}
    Cron = job
    LastMonth = 3
    Cycles = {2}
    Rents = {1, 2}
    Amendable = {"rent", "end", "free"}
    MaxAmendments = 1
    MaxFailures = 1
    KeptApart <- SchedulePairs
    MonthLengths <- LeaseCalendar
    CycleLengths = {1, 3, 4}
    MonthsPerStep = 2
    Kinds = {"SERVICE_CONTRACT", "PARKING", "PERIODIC_CHARGE", "SHORT_TERM_BOOKING"}
    Askers = {a1, a2}
    Sums = {1, 2}
    Changes <- SafeChanges
    NotBeside <- ReceivablePairs
    Parts = {p1, p2, p3}
    Combined = {m1, m2}
    Clerks = {k1, k2}
    Lettings = {"VACANT", "BOOKING"}
    OddSplits = {}
    MergeApart <- MergePairs
    Points = {gate, roof}
    Required = {gate}
    PhotoPoints = {gate, roof}
    Devices = {d1, d2, watch}
    Monitor = watch
    Templates = {t1, t2}
    DaysIn <- WorkCalendar
    Week = 2
    FirstDays = {2}
    Frequencies = {"DAILY", "WEEKLY", "MONTHLY"}
    MaxEdits = 1
    EditedInRun = FALSE
    LateInMonth = FALSE
    Staff = {f1, f2}
    MaxRevisions = 3
    MaxFlows = 3
    MaxUploads = 2
    Stages = {"signed", "works", "opening"}
    Places = {1, 2, 3}
    Trigger <- StageTrigger
    Users = {u1, u2}
    StageApart <- StagePairs
    Senders = {x1, x2}
    MaxContent = 3
    MaxAttempts = 2
    Threshold = 2
    MaxRestarts = 2
    Crew = {w1, w2}
    LastDue = 5
    Intervals = {1, 2}
    BackDated = FALSE
    CrewApart <- CrewPairs
    Items = {bulb}
    Keepers = {g1, g2}
    Quantities = {1, 2}
    MaxMovements = 3
    Officers = {o1, o2}
    LastPeriod = 2
    DaysPerMonth = 2
    Fees = {1, 2}
    MaxRates = 2
    Pricers = {y1, y2}
    LastDate = 2
    MaxRules = 3
    PricesApart <- PricePairs
    Departments = {leasing, finance, legal}
    Members = {eve}
    Editors = {e1, e2}
    Root = Root
    TreeApart <- TreePairs
    Accounts = {ann, bob, cid}
    Sessions = {i1, i2}
    AccountsApart <- AccountPairs
INVARIANTS
    RowsAreTyped NoOverlap MoneyAddsUp IssuedTotalIsOfLines MonthsAreBilled
    PeriodsChargeTheLease TransferIsExact PartsLetOnce ShiftIsReported NoRunIsSkipped
    RevisionsAreReviewed StagesAgree LogShowsTheDelivery OneCycleIsOpen
    StockIsTheJournal RatesHold OnePriceADay TreeHolds AccountsHold
PROPERTIES VoidIsVoid BookingFits EndedIsNotRebuilt
CHECK_DEADLOCK FALSE
