-------------------------- MODULE ClassificationRpc --------------------------
(***************************************************************************)
(* ClassificationRpcClient of src/src/classification_rpc.rs and the use    *)
(* that fetch_raw_transactions and fetch_confirmed_prevouts make of it     *)
(* (src/src/classification.rs): what a request of a batch comes to, given  *)
(* the JSON document that answered the batch.                              *)
(*                                                                         *)
(* A request asks for a key: a witness variant (getrawtransaction) or an   *)
(* outpoint (gettxout).  A batch is its keys in order and the first of its *)
(* consecutive ids.  An answer is an element of the JSON array.            *)
(***************************************************************************)
EXTENDS Naturals, Sequences, FiniteSets

CONSTANTS
    Keys,               \* what is asked for
    MaxId               \* u64::MAX, the last value of next_id

\* The value of a member that holds something no key's value equals: text that
\* does not parse, is too long, or describes an unrepresentable transaction.
Garbage == "garbage"

-----------------------------------------------------------------------------
(* Ids *)

\* reserve_ids: checked_add on the shared counter.
CanReserve(nextId, n) == nextId + n <= MaxId

IdsOf(start, n) == start..(start + n - 1)

-----------------------------------------------------------------------------
(* Answers *)

\* An answer's members: `version' is whether jsonrpc is "2.0"; `error' is
\* missing, null, a value that is no error object, or an error with a code that
\* is systemic (-32700..-32600, -28) or not; `result' is missing, null or a
\* value, which is then in `data'.
Answer(id, version, error, result, data) ==
    [id |-> id, version |-> version, error |-> error, result |-> result,
     data |-> data]

\* Mutant: a null error member is taken for an absent one and an absent result
\* for null, as a plain Option deserializes them.
OutcomeOfOptions(a) ==
    IF ~ a.version THEN "protocol_failure"
    ELSE IF a.error \in {"systemic", "other"} THEN a.error
    ELSE IF a.error = "garbage" THEN "malformed"
    ELSE IF a.result = "value" THEN "value" ELSE "null"

\* ClassificationRpcResponse::outcome
Outcome(a) ==
    IF ~ a.version THEN "protocol_failure"
    ELSE IF a.error \in {"systemic", "other"} THEN a.error
    ELSE IF a.error \in {"null", "garbage"} THEN "malformed"
    ELSE IF a.result = "missing" THEN "malformed" ELSE a.result

-----------------------------------------------------------------------------
(* Batches *)

\* The answers to a request.
AnswersTo(body, id) == {j \in DOMAIN body : body[j].id = id}

\* decode_batch_response accepts the answers: no more than there are requests,
\* none twice, and none to another request.
WellFormed(body, start, n) ==
    /\ Len(body) <= n
    /\ \A i, j \in DOMAIN body : body[i].id = body[j].id => i = j
    /\ \A j \in DOMAIN body : body[j].id \in IdsOf(start, n)

\* Mutant: the answers are taken in the order of the requests.
AnsweredInOrder(body, start, i) ==
    IF i \in DOMAIN body THEN <<body[i]>> ELSE <<>>

\* The answer to the i-th request of a batch, if there is one.
Answered(body, start, i) ==
    IF AnswersTo(body, start + i - 1) = {} THEN <<>>
    ELSE <<body[CHOOSE j \in AnswersTo(body, start + i - 1) : TRUE]>>

-----------------------------------------------------------------------------
(* What a request comes to (RpcValue) *)

Found(data) == [kind |-> "found", data |-> data]
ExplicitNull == [kind |-> "null", data |-> Garbage]
RetryableFailure == [kind |-> "retry", data |-> Garbage]
SystemicFailure == [kind |-> "systemic", data |-> Garbage]

\* A raw transaction must have the txid and the wtxid that were asked for.
RawValue(key, a) ==
    IF Outcome(a) \in {"protocol_failure", "systemic"} THEN SystemicFailure
    ELSE IF Outcome(a) = "value" /\ a.data = key THEN Found(key)
    ELSE RetryableFailure

\* The answer to gettxout does not say which output it describes: only its id
\* ties it to the request.
ConfirmedValue(a) ==
    IF Outcome(a) \in {"protocol_failure", "systemic"} THEN SystemicFailure
    ELSE IF Outcome(a) = "null" THEN ExplicitNull
    ELSE IF Outcome(a) = "value" /\ a.data # Garbage THEN Found(a.data)
    ELSE RetryableFailure

\* `answer' is empty or holds the answer to the request.
RpcValue(method, key, answer) ==
    IF answer = <<>> THEN RetryableFailure
    ELSE IF method = "getrawtransaction" THEN RawValue(key, answer[1])
    ELSE ConfirmedValue(answer[1])

\* Several requests and not one answer.
AllMissing(keys, body) == Len(keys) > 1 /\ body = <<>>

\* The values of a batch whose document was accepted.
BatchValues(method, keys, start, body) ==
    {<<keys[i], IF AllMissing(keys, body) THEN SystemicFailure
                ELSE RpcValue(method, keys[i], Answered(body, start, i))>> :
        i \in DOMAIN keys}
=============================================================================
