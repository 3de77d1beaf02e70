--------------------------- MODULE SamplerWrapper ---------------------------
(***************************************************************************)
(* SamplerContractWrapper.execute: several operations in one call of the   *)
(* sampler contract.  Operations without call data are not sent, so the    *)
(* results that come back are matched with the operations by an index of   *)
(* their own.                                                              *)
(*                                                                         *)
(* An operation is a record with a field empty; a result names the         *)
(* operation it answers, which the code cannot see.                        *)
(***************************************************************************)
EXTENDS Integers, Sequences

CONSTANT Batches    \* the lists of operations that may be executed

ASSUME BatchesAssumption ==
  \A b \in Batches :
    /\ Len(b) \in Nat /\ DOMAIN b = 1..Len(b)
    /\ \A i \in 1..Len(b) : b[i].empty \in BOOLEAN

VARIABLES
  operations,  \* what is executed
  phase,       \* "idle", "collect", "sent", "decode", "done" or "failed"
  at,          \* the index of the loop over the operations
  sent,        \* the operations whose call data is sent, by their number
  raw,         \* rawCallResults
  rawIdx,      \* rawCallResultsIdx
  results      \* of each operation, the answer it was given

wrapperVars == <<operations, phase, at, sent, raw, rawIdx, results>>

WrapperInit ==
  /\ operations = <<>> /\ phase = "idle" /\ at = 1
  /\ sent = <<>> /\ raw = <<>> /\ rawIdx = 1 /\ results = <<>>

Execute(batch) ==
  /\ phase = "idle"
  /\ operations' = batch /\ phase' = "collect"
  /\ UNCHANGED <<at, sent, raw, rawIdx, results>>

\* The filter keeps the operations with call data.
Collect ==
  /\ phase = "collect" /\ at <= Len(operations)
  /\ sent' = IF operations[at].empty THEN sent ELSE Append(sent, at)
  /\ at' = at + 1
  /\ UNCHANGED <<operations, phase, raw, rawIdx, results>>

\* Without any call data nothing is sent.
Send ==
  /\ phase = "collect" /\ at > Len(operations)
  /\ phase' = IF sent = <<>> THEN "decode" ELSE "sent"
  /\ at' = 1
  /\ UNCHANGED <<operations, sent, raw, rawIdx, results>>

\* The contract makes the calls in their order; each succeeds or reverts alone.
BatchCall ==
  /\ phase = "sent"
  /\ \E success \in [DOMAIN sent -> BOOLEAN] :
       raw' = [k \in DOMAIN sent |-> [of |-> sent[k], success |-> success[k]]]
  /\ phase' = "decode"
  /\ UNCHANGED <<operations, at, sent, rawIdx, results>>

\* The node, or the call as a whole, fails.
Reject ==
  /\ phase = "sent"
  /\ phase' = "failed"
  /\ UNCHANGED <<operations, at, sent, raw, rawIdx, results>>

\* Mutation of Answer: an operation without call data takes a result too.
AnswerOfAll ==
  [result |-> IF rawIdx <= Len(raw) THEN raw[rawIdx] ELSE [of |-> 0, success |-> FALSE],
   next |-> rawIdx + 1]

\* What the operation at hand is given, and the index after it.
Answer ==
  IF operations[at].empty
  THEN [result |-> [of |-> at, success |-> TRUE], next |-> rawIdx]
  ELSE [result |-> raw[rawIdx], next |-> rawIdx + 1]

Decode ==
  /\ phase = "decode" /\ at <= Len(operations)
  /\ results' = Append(results, Answer.result)
  /\ rawIdx' = Answer.next
  /\ at' = at + 1
  /\ UNCHANGED <<operations, phase, sent, raw>>

Return ==
  /\ phase = "decode" /\ at > Len(operations)
  /\ phase' = "done"
  /\ UNCHANGED <<operations, at, sent, raw, rawIdx, results>>

WrapperNext ==
  \/ \E b \in Batches : Execute(b)
  \/ Collect \/ Send \/ BatchCall \/ Reject \/ Decode \/ Return

WrapperSpec == WrapperInit /\ [][WrapperNext]_wrapperVars

-----------------------------------------------------------------------------
(* Properties *)

\* Every operation is given the answer to its own call, wherever the operations
\* without call data stand in the list.
OwnAnswers == \A i \in DOMAIN results : results[i].of = i
=============================================================================
