---------------------------- MODULE RpcTransport ----------------------------
(***************************************************************************)
(* post_json_bounded of src/src/rpc_transport.rs, through which membership *)
(* and classification requests reach a node: one HTTP POST, no redirects,  *)
(* a bounded body.                                                         *)
(*                                                                         *)
(* An HTTP response is a record of what the endpoint meant to send and of  *)
(* what arrived before the connection closed; bodies are counted in bytes. *)
(* The read loop asks for at most one byte above the maximum, so what it   *)
(* reports depends only on whether more than the maximum arrived.          *)
(***************************************************************************)
EXTENDS Naturals

CONSTANT MaxResponseBytes       \* maximum_response_bytes

ASSUME RpcTransportAssumption == MaxResponseBytes \in Nat \ {0}

\* The responses an endpoint may give, and the transport errors (status 0):
\* refused, reset or timed-out connections.  Bodies one byte above the maximum
\* stand for all larger ones; a Content-Length, when there is one, is true.
HttpResponses ==
    {r \in [status    : {0, 200, 503},
            chunked   : BOOLEAN,           \* a Transfer-Encoding header
            announced : BOOLEAN,           \* a Content-Length header
            total     : 1..(MaxResponseBytes + 1),
            received  : 0..(MaxResponseBytes + 1)] : r.received <= r.total}

\* read_bounded_response returned a body.
Accepted(r) ==
    /\ r.status = 200
    /\ ~ r.chunked
    /\ r.announced => r.total <= MaxResponseBytes
    /\ r.received <= MaxResponseBytes
    /\ r.announced => r.received = r.total

\* A JSON document that was cut short does not parse.
Whole(r) == r.received = r.total

\* The caller gets the document that was sent.
Arrives(r) == Accepted(r) /\ Whole(r)
=============================================================================
