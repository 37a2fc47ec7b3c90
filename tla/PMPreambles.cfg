CONSTANTS
    web = web
    tunnel = tunnel
    login = login
    App = {web, tunnel, login}
    Checked = {web, login}
    Limited = {web, login}
    Preamble <- TwoPreambles
    Request = {r1, r2}
    Proc = {p1, p2, p3, p4, p5}
    Timer = {t1, t2, t3, t4}
    Null = Null
    AppSpawn = {"ok"}
    CheckerSpawn = {"ok"}
    AppExit = {"failed"}
    CheckerExit = {"ok", "failed"}
    KilledExit = {"failed"}
    ReadErr = {}
    Reserve = 4
SPECIFICATION Spec
SYMMETRY Clients
INVARIANTS
    WaitersAreDriven
    SingleInstance
    PendingIsExact
    CheckTimerAlive
PROPERTY AnsweredOkRuns
