\* With MASTER_KEY, one handler at a time: Confirm on an old summary.
CONSTANTS
    app = app
    lib = lib
    cert1 = cert1
    profile = profile
    HasMasterKey = TRUE
    Handlers = {h1}
    Docs = {app, lib, cert1, profile}
    KindOf <- Kinds
    Passwords = {cert1, wrong}
    CertSets = {c1}
    None = None
    MaxUpdates = 5
    MaxJobs = 2
    MaxRestarts = 0
    MaxFaults = 0
\* The user may stop sending updates.
CHECK_DEADLOCK FALSE
SPECIFICATION BotSpec
INVARIANTS JobHasInputs
