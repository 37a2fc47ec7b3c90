CONSTANTS
    web = web
    tunnel = tunnel
    login = login
    App = {tunnel}
    Checked = {}
    Limited = {}
    Preamble <- OnePreamble
    Request = {r1, r2}
    Proc = {p1, p2, p3, p4}
    Timer = {t1, t2, t3}
    Null = Null
    AppSpawn = {"ok", "ENOENT", "noread"}
    CheckerSpawn = {"ok"}
    AppExit = {"ok", "failed"}
    CheckerExit = {"ok", "failed"}
    KilledExit = {"ok", "failed"}
    ReadErr = {"ok", "failed"}
    Reserve = 2
SPECIFICATION Spec
SYMMETRY Clients
INVARIANTS
    EachCallerKeptOnce
    NoDanglingProcess
