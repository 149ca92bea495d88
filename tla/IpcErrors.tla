----------------------------- MODULE IpcErrors -----------------------------
(***************************************************************************)
(* The error values of the Rust crate (error.rs) and the two conversions   *)
(* between them and the error code of a response packet.                   *)
(*                                                                         *)
(* An IpcError is a pair <<variant, detail>>.  The detail of CkbSysError   *)
(* is the number of the SysError (10 stands for every SysError without a   *)
(* code of its own), that of ProtocolError is the code it carries, and 0   *)
(* for the variants that carry nothing.                                    *)
(***************************************************************************)
EXTENDS Naturals

PlainVariants ==
  {"UnexpectedEof", "IncompleteVlqSeq", "DecodeVlqOverflow", "ReadVlqError",
   "SerializeError", "DeserializeError", "SliceWriteError", "ReadUntilError",
   "ReadExactError", "BufReaderError", "GeneralIoError"}

\* The discriminants that enumn's n() turns into a ProtocolErrorCode.
DefinedCodes == (0 .. 9) \cup (20 .. 29)

IpcError ==
  (PlainVariants \X {0}) \cup ({"CkbSysError"} \X (1 .. 10))
    \cup ({"ProtocolError"} \X DefinedCodes)

Plain(variant) == <<variant, 0>>

ProtocolError(code) == <<"ProtocolError", code>>

\* Faulty variant: the SysErrors without a code of their own keep their number.
CodeOfSysErrorRaw(n) == n

\* From<IpcError> for ProtocolErrorCode, the SysError arms.
CodeOfSysError(n) == IF n \in 1 .. 9 THEN n ELSE 21

\* From<IpcError> for ProtocolErrorCode.
CodeOf(e) ==
  CASE e[1] = "CkbSysError"       -> CodeOfSysError(e[2])
    [] e[1] = "ProtocolError"     -> e[2]
    [] e[1] = "UnexpectedEof"     -> 22
    [] e[1] = "IncompleteVlqSeq"  -> 23
    [] e[1] = "DecodeVlqOverflow" -> 24
    [] e[1] = "ReadVlqError"      -> 25
    [] e[1] = "SerializeError"    -> 26
    [] e[1] = "DeserializeError"  -> 27
    [] OTHER                      -> 28
=============================================================================
