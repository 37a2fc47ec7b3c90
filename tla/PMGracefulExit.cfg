CONSTANTS
    web = web
    tunnel = tunnel
    login = login
    App = {tunnel}
    Checked = {tunnel}
    Limited = {tunnel}
    Preamble <- OnePreamble
    Request = {r1, r2}
    Proc = {p1, p2, p3, p4}
    Timer = {t1, t2, t3}
    Null = Null
    AppSpawn = {"ok"}
    CheckerSpawn = {"ok"}
    AppExit = {"failed"}
    CheckerExit = {"ok", "failed"}
    KilledExit = {"ok"}
    ReadErr = {}
    Reserve = 2
SPECIFICATION FairSpec
PROPERTY KilledIsRestarted
