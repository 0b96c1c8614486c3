\* One connection negotiating TLS and compression while a console adds the
\* logging transformer: the two setup hooks rewire node->rfd concurrently.
CONSTANTS
  Conns = {c1}
  Admins = {a1}
  tlsCli = tlsCli
  tlsSrv = tlsSrv
  zlib = zlib
  logger = logger
  mTls = mTls
  mZlib = mZlib
  mLog = mLog
  Mods = {mTls, mZlib, mLog}
  Transformers = {tlsCli, tlsSrv, zlib, logger}
  None = None
  TypeOf <- MCTypeOf
  DirOf <- MCDirOf
  ModOf <- MCModOf
  InitRegistry <- MCInitRegistry
  MaxSlots = 2
  ConnTypes = {"tls", "deflate"}
  QueryTypes = {"tls", "deflate", "log"}
  ConnDir = {"srv"}
  CliDir = {"srv", "cli"}
  AdminNames = {logger}
  Unloadable = {}
  HookData = {TRUE}
  HookMayFail = TRUE
  MaxSessions = 3

SPECIFICATION Spec
INVARIANT LayersMatchSlots
