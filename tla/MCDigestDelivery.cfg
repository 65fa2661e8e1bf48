SPECIFICATION Spec
CONSTANTS
    a = a
    b = b
    root = root
    adm = adm
    tenant = tenant
    s1 = s1
    bad = bad
    r1 = r1
    r2 = r2
    run = run
    web = web
    job = job
    Emails = {a, b}
    Scopes = {tenant, s1, bad}
    Absent = Absent
    Principals = {root, adm}
    Deployed <- MCDeployed
    DeployedAdmins = {root}
    First <- MCFirst
    Requests = {r1, r2}
    Digest = run
    Processes = {web, job}
    Home <- MCHome
    TTL = 1
    MaxWriteAttempts = 2
    Asks <- MCAsks
    MaxTime = 1
    MaxVersions = 3
    Weeks = 2
    Tenant = tenant
    Malformed = {bad}
    NoReport = NoReport
INVARIANTS
    ListsAreFresh
    MailKeepsToScope
    SentMeansEveryone
PROPERTIES
    EditsAreAtomic
SYMMETRY Symmetry
CHECK_DEADLOCK FALSE
