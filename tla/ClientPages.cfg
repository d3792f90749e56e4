SPECIFICATION Spec
CONSTANTS
    home = home
    d1 = d1
    p1 = p1
    p2 = p2
    r1 = r1
    r2 = r2
    ann = ann
    bob = bob
    Home = home
    RepositoryOf <- TwoRepositories
    HasView = {p1}
    NoRepository = NoRepository
    FileNames = {d1}
    MaxLoads = 3
    MaxDeletions = 1
    MaxMessages = 2
    PageSize = 1
    Actionable = {1}
    MaxPolls = 1
    MaxRequests = 2
    MaxSessions = 2
    Tickets = {1, 2}
    Reviewers = {ann, bob}
    TicketPage = 1
    MaxTicketLoads = 3
    CargoRepositories = {r1, r2}
    Crates = {p1}
    NoCrate = NoCrate
    CatalogPages = 2
    MaxCargoRoutes = 3
    MaxCargoOps = 1
INVARIANTS
    PagesSafe
PROPERTIES
    PagesProgress
CHECK_DEADLOCK FALSE
