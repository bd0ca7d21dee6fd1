\* No MASTER_KEY (the longer paths), two handlers at a time, a restart, a
\* failing CheckDedupe.
CONSTANTS
    app = app
    lib = lib
    cert1 = cert1
    profile = profile
    HasMasterKey = FALSE
    Handlers = {h1, h2}
    Docs = {app, lib, cert1, profile}
    KindOf <- Kinds
    Passwords = {cert1, wrong}
    CertSets = {c1}
    None = None
    MaxUpdates = 5
    MaxJobs = 2
    MaxRestarts = 1
    MaxFaults = 1
\* The user may stop sending updates.
CHECK_DEADLOCK FALSE
SYMMETRY Alike
SPECIFICATION BotSpec
INVARIANTS BotTypeOK OneJobPerKey PromptsMakeSense JobInputsUploaded UsedP12Removed
