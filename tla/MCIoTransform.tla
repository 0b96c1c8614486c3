---------------------------- MODULE MCIoTransform ----------------------------
(***************************************************************************)
(* Instantiation of IoTransform for TLC.  Four transformers from three     *)
(* modules: a client-side TLS transformer registered ahead of the server   *)
(* one (so the setup lookup must skip it by direction), the server TLS     *)
(* transformer, deflate compression and session logging.  Direction bits  *)
(* are "srv" (server reads client writes / server writes client reads)    *)
(* and "cli" (the outbound-client directions).                            *)
(***************************************************************************)
EXTENDS IoTransform, TLC

CONSTANTS tlsCli, tlsSrv, zlib, logger, mTls, mZlib, mLog

MCTypeOf == (tlsCli :> "tls" @@ tlsSrv :> "tls" @@ zlib :> "deflate"
             @@ logger :> "log")
MCDirOf == (tlsCli :> {"cli"} @@ tlsSrv :> {"srv"} @@ zlib :> {"srv", "cli"}
            @@ logger :> {"srv", "cli"})
MCModOf == (tlsCli :> mTls @@ tlsSrv :> mTls @@ zlib :> mZlib @@ logger :> mLog)
MCInitRegistry == <<tlsCli, tlsSrv, zlib, logger>>

=============================================================================
