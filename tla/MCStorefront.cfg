\* Photos, categories, search, patterns and mail, one of them in a behaviour.
CONSTANTS
    a1 = a1
    a2 = a2
    Articles = {a1, a2}
    Unknown = Unknown
    r1 = r1
    r2 = r2
    Requests = {r1, r2}
    None = None
    Faults = {"upload", "insert", "doubt", "destroy", "remove", "abort"}
    MaxCalls = 4
    n1 = n1
    n2 = n2
    n3 = n3
    TreeNames = {n1, n2, n3}
    l1 = l1
    Listings = {l1}
    MaxCategories = 3
    MaxFeatures = 2
    MaxTreeEdits = 2
    s1 = s1
    s2 = s2
    Searches = {s1, s2}
    Null = Null
    Stock <- MCStock
    Queries <- MCQueries
    ArticleNames = {1, 2}
    Categories = {1, 2}
    Tags = {"blue"}
    Prices = {5, 6}
    Stamps = {0, 1}
    MaxChanges = 1
    Characters <- MCCharacters
    MinLength = 2
    MaxLength = 3
    MaxText = 3
    layout = layout
    button = button
    Partials = {layout, button}
    verify = verify
    order = order
    Templates = {verify, order}
    customer = customer
    developer = developer
    Addresses = {customer, developer}
    Hardcoded = developer
    k1 = k1
    k2 = k2
    Sends = {k1, k2}
SPECIFICATION MCSpec
SYMMETRY Symmetry
INVARIANTS
    InStep
    TreeHolds
    ListingsHold
    AnswerIsOneInstant
    PagesPartition
    FindsWhatWasTyped
    ToldWhatWasSent
CHECK_DEADLOCK FALSE
