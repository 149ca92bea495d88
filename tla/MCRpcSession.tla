---------------------------- MODULE MCRpcSession ----------------------------
(* RpcSession for TLC: the errors a service may return are one that carries *)
(* the code Ok, one system error without a code of its own and one with.    *)
EXTENDS RpcSession

CONSTANTS m1, m2

MCMethod == {m1, m2}

MCServiceErrors == {ProtocolError(0), <<"CkbSysError", 7>>, <<"CkbSysError", 10>>}
=============================================================================
