\* One connection, whose protocol only queries its stack, while a sysop
\* console adds the logging transformer to its session ("io transformation
\* add") and lists it ("io session"), racing the connection's close.
CONSTANTS
  Conns = {c1}
  Admins = {a1}
  tlsCli = tlsCli
  tlsSrv = tlsSrv
  zlib = zlib
  logger = logger
  mTls = mTls
  mZlib = mZlib
  mLog = mLog
  Mods = {mTls, mZlib, mLog}
  Transformers = {tlsCli, tlsSrv, zlib, logger}
  None = None
  TypeOf <- MCTypeOf
  DirOf <- MCDirOf
  ModOf <- MCModOf
  InitRegistry <- MCInitRegistry
  MaxSlots = 2
  ConnTypes = {}
  QueryTypes = {"tls", "deflate", "log"}
  ConnDir = {"srv"}
  CliDir = {"srv", "cli"}
  AdminNames = {logger}
  Unloadable = {}
  HookData = {TRUE}
  HookMayFail = TRUE
  MaxSessions = 3

SPECIFICATION LiveSpec
INVARIANT ModuleRefsMatchSlots
 
PROPERTY CloseCompletes
