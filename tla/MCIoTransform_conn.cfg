\* Two connections negotiating TLS and compression on their own stacks, with
\* hooks that succeed, while the loader loads and unloads the logging and
\* compression modules.
CONSTANTS
  Conns = {c1, c2}
  Admins = {}
  tlsCli = tlsCli
  tlsSrv = tlsSrv
  zlib = zlib
  logger = logger
  mTls = mTls
  mZlib = mZlib
  mLog = mLog
  Mods = {mTls, mZlib, mLog}
  Transformers = {tlsCli, tlsSrv, zlib, logger}
  None = None
  TypeOf <- MCTypeOf
  DirOf <- MCDirOf
  ModOf <- MCModOf
  InitRegistry <- MCInitRegistry
  MaxSlots = 2
  ConnTypes = {"tls", "deflate"}
  QueryTypes = {}
  ConnDir = {"srv"}
  CliDir = {"srv", "cli"}
  AdminNames = {}
  Unloadable = {mLog, mZlib}
  HookData = {TRUE}
  HookMayFail = FALSE
  MaxSessions = 3

SPECIFICATION LiveSpec
INVARIANT TypeOK
INVARIANT NoNullTransformerDeref
INVARIANT EncryptionBeneathCompression
INVARIANT ModuleRefsMatchSlots
INVARIANT ClosedStackReleased
PROPERTY AbstractStackSpec
PROPERTY UnloadCompletes
\* The server may go idle: every connection closed, no new one within the
\* session bound, the loader done.
CHECK_DEADLOCK FALSE
