------------------------------ MODULE RpcErrors ------------------------------
(***************************************************************************)
(* The errors of package rpc: what a Go error becomes on its way from the  *)
(* transport to the caller of a Provider method.                           *)
(*                                                                         *)
(* A Go error is a record.  type tells "RPCError" (a pointer to            *)
(* rpc.RPCError), "jsonError" (the error object of a JSON-RPC answer, as   *)
(* go-ethereum's client returns it) and "local" (every other error:        *)
(* transport, context, decoding, errNotFound).  data is "node" for what    *)
(* the node sent, "ctx" for ctx.Err(), "text" for a formatted text, "none" *)
(* for nil.  A message is named by its words run together.                 *)
(***************************************************************************)
EXTENDS Integers

\* The codes of the JSON-RPC specification that Err knows.
InvalidJSON    == -32700
InvalidRequest == -32600
MethodNotFound == -32601
InvalidParams  == -32602
InternalError  == -32603

RPCError(code, message, data) ==
  [type |-> "RPCError", code |-> code, message |-> message, data |-> data]

\* Err(code, data): a standard code keeps its message, any other code becomes
\* InternalError.
Err(code, data) ==
  CASE code = InvalidJSON    -> RPCError(InvalidJSON, "ParseError", data)
    [] code = InvalidRequest -> RPCError(InvalidRequest, "InvalidRequest", data)
    [] code = MethodNotFound -> RPCError(MethodNotFound, "MethodNotFound", data)
    [] code = InvalidParams  -> RPCError(InvalidParams, "InvalidParams", data)
    [] OTHER                 -> RPCError(InternalError, "InternalError", data)

NodeError(code, message) ==
  [type |-> "jsonError", code |-> code, message |-> message, data |-> "node"]

\* An error with neither code nor message in its JSON form: json.Marshal of a
\* url.Error, of context.DeadlineExceeded or of errNotFound gives an object
\* that decodes to the zero RPCError.
LocalError == [type |-> "local", code |-> 0, message |-> "", data |-> "none"]

\* tryUnwrapToRPCErr: an error the method lists, by code and by message, is
\* handed on as the node sent it; every other one becomes InternalError with the
\* formatted original.
TryUnwrapToRPCErr(err, rpcErrors) ==
  IF \E e \in rpcErrors : e.code = err.code /\ e.message = err.message
  THEN RPCError(err.code, err.message, err.data)
  ELSE Err(InternalError, "text")

ErrHashNotFound == RPCError(29, "TransactionHashNotFound", "none")
=============================================================================
