\* One connection negotiates TLS while the loader may unload the TLS module.
CONSTANTS
  Conns = {c1}
  Admins = {}
  tlsCli = tlsCli
  tlsSrv = tlsSrv
  zlib = zlib
  logger = logger
  mTls = mTls
  mZlib = mZlib
  mLog = mLog
  Mods = {mTls, mZlib, mLog}
  Transformers = {tlsCli, tlsSrv, zlib, logger}
  None = None
  TypeOf <- MCTypeOf
  DirOf <- MCDirOf
  ModOf <- MCModOf
  InitRegistry <- MCInitRegistry
  MaxSlots = 2
  ConnTypes = {"tls"}
  QueryTypes = {"tls", "deflate", "log"}
  ConnDir = {"srv"}
  CliDir = {"srv", "cli"}
  AdminNames = {}
  Unloadable = {mTls}
  HookData = {TRUE}
  HookMayFail = TRUE
  MaxSessions = 3

SPECIFICATION Spec
INVARIANT NoDanglingTransformer
