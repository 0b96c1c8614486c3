\* Two connections whose setups overlap, while the loader unloads a module.
CONSTANTS
  Conns = {c1, c2}
  Admins = {}
  tlsCli = tlsCli
  tlsSrv = tlsSrv
  zlib = zlib
  logger = logger
  mTls = mTls
  mZlib = mZlib
  mLog = mLog
  Mods = {mTls, mZlib, mLog}
  Transformers = {tlsCli, tlsSrv, zlib, logger}
  None = None
  TypeOf <- MCTypeOf
  DirOf <- MCDirOf
  ModOf <- MCModOf
  InitRegistry <- MCInitRegistry
  MaxSlots = 2
  ConnTypes = {"tls"}
  QueryTypes = {"tls", "deflate", "log"}
  ConnDir = {"srv"}
  CliDir = {"srv", "cli"}
  AdminNames = {}
  Unloadable = {mLog}
  HookData = {TRUE}
  HookMayFail = TRUE
  MaxSessions = 2

SPECIFICATION LiveSpec
PROPERTY UnloadCompletes
\* The server may go idle once every connection has closed.
CHECK_DEADLOCK FALSE
