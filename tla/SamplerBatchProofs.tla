-------------------------- MODULE SamplerBatchProofs --------------------------
(***************************************************************************)
(* The wrapper: the index of the raw results moves only past operations    *)
(* with call data, so it stands at the first one sent that is not decoded  *)
(* yet; as the numbers of the operations sent increase, that is the one at *)
(* hand whenever the one at hand was sent.                                 *)
(*                                                                         *)
(* The sampler service executes its batches as the wrapper does: whatever  *)
(* it decodes, each step of it is one of the wrapper or none.  What is     *)
(* proved of the wrapper for all lists of operations therefore holds for   *)
(* the requests of the service.                                            *)
(*                                                                         *)
(* The samples: each arm of the switches makes calls that suit the pair    *)
(* (from one of its tokens to the other, with the fields the coder of the  *)
(* source needs), a flattened list of such lists is one, whatever calls    *)
(* fail the samples of the others keep it, and a fold over the hops joins  *)
(* only quotes whose hops meet.                                            *)
(***************************************************************************)
EXTENDS SamplerBatch, FiniteSetTheorems, TLAPS

-----------------------------------------------------------------------------
(* The wrapper *)

Result == [of : Nat, success : BOOLEAN]

HasData(i) == ~operations[i].empty

\* Of the first n operations those with call data are sent, in their order, and no
\* others.
SentOf(n) ==
  /\ \A k \in DOMAIN sent : sent[k] \in 1..n /\ HasData(sent[k])
  /\ \A i \in 1..n : HasData(i) => \E k \in DOMAIN sent : sent[k] = i

TypeInv ==
  /\ Len(operations) \in Nat
  /\ \A i \in 1..Len(operations) : operations[i].empty \in BOOLEAN
  /\ phase \in {"idle", "collect", "sent", "decode", "done", "failed"}
  /\ at \in Nat \ {0} /\ rawIdx \in Nat \ {0}
  /\ sent \in Seq(Nat) /\ results \in Seq(Result)

SentInv ==
  /\ \A j, k \in DOMAIN sent : j < k => sent[j] < sent[k]
  /\ phase = "idle" => at = 1 /\ sent = <<>>
  /\ phase = "collect" => at <= Len(operations) + 1 /\ SentOf(at - 1)
  /\ phase \in {"sent", "decode"} => SentOf(Len(operations))
  /\ phase = "sent" => at = 1

\* The results that came back, and the index between those read and those not.
RawInv ==
  phase = "decode" =>
    /\ \A k \in DOMAIN sent : raw[k] \in Result /\ raw[k].of = sent[k]
    /\ \A k \in DOMAIN sent : k < rawIdx <=> sent[k] < at

ResultsInv ==
  /\ phase \in {"idle", "collect", "sent", "failed"} => results = <<>> /\ rawIdx = 1
  /\ phase = "decode" => Len(results) = at - 1
  /\ OwnAnswers

WrapperInv == TypeInv /\ SentInv /\ RawInv /\ ResultsInv

-----------------------------------------------------------------------------
LEMMA InitWrapperInv ==
  ASSUME WrapperInit
  PROVE  WrapperInv
  BY DEF WrapperInit, WrapperInv, TypeInv, SentInv, RawInv, ResultsInv, OwnAnswers, SentOf

LEMMA ExecuteKeepsInv ==
  ASSUME WrapperInv, NEW b \in Batches, Execute(b)
  PROVE  WrapperInv'
  <1>1. TypeInv'
    BY BatchesAssumption DEF WrapperInv, TypeInv, Execute
  <1>2. SentInv'
    BY <1>1 DEF WrapperInv, TypeInv, SentInv, Execute, SentOf
  <1>3. RawInv' /\ ResultsInv'
    BY DEF WrapperInv, RawInv, ResultsInv, OwnAnswers, Execute
  <1>. QED
    BY <1>1, <1>2, <1>3 DEF WrapperInv

LEMMA CollectKeepsInv ==
  ASSUME WrapperInv, Collect
  PROVE  WrapperInv'
  <1>. USE DEF WrapperInv, TypeInv, Collect
  <1>1. TypeInv'
    OBVIOUS
  <1>2. SentInv'
    <2>. /\ \A j, k \in DOMAIN sent : j < k => sent[j] < sent[k]
         /\ SentOf(at - 1)
      BY DEF SentInv
    <2>1. operations' = operations /\ phase' = phase /\ at' - 1 = at /\ at <= Len(operations)
      BY DEF SentInv
    <2>2. CASE operations[at].empty
      <3>1. sent' = sent
        BY <2>2
      <3>2. \A k \in DOMAIN sent : sent[k] \in 1..at /\ ~operations[sent[k]].empty
        BY DEF SentOf, HasData
      <3>3. ASSUME NEW i \in 1..at, ~operations[i].empty
            PROVE  \E k \in DOMAIN sent : sent[k] = i
        <4>1. i \in 1..(at - 1)
          BY <2>2, <3>3
        <4>. QED
          BY <3>3, <4>1 DEF SentOf, HasData
      <3>. QED
        BY <2>1, <3>1, <3>2, <3>3 DEF SentInv, SentOf, HasData
    <2>3. CASE ~operations[at].empty
      <3>1. /\ sent' = Append(sent, at)
            /\ DOMAIN sent' = 1..(Len(sent) + 1)
            /\ \A k \in DOMAIN sent : k \in DOMAIN sent' /\ sent'[k] = sent[k]
            /\ sent'[Len(sent) + 1] = at
        BY <2>3
      <3>2. \A k \in DOMAIN sent : sent[k] < at
        BY DEF SentOf
      <3>3. \A j, k \in DOMAIN sent' : j < k => sent'[j] < sent'[k]
        BY <3>1, <3>2
      <3>4. \A k \in DOMAIN sent' : sent'[k] \in 1..at /\ ~operations[sent'[k]].empty
        <4>1. ASSUME NEW k \in DOMAIN sent
              PROVE  sent'[k] \in 1..at /\ ~operations[sent'[k]].empty
          BY <3>1, <4>1 DEF SentOf, HasData
        <4>2. sent'[Len(sent) + 1] \in 1..at /\ ~operations[sent'[Len(sent) + 1]].empty
          BY <3>1, <2>3
        <4>. QED
          BY <3>1, <4>1, <4>2
      <3>5. ASSUME NEW i \in 1..at, ~operations[i].empty
            PROVE  \E k \in DOMAIN sent' : sent'[k] = i
        <4>1. CASE i = at
          BY <3>1, <4>1
        <4>2. CASE i \in 1..(at - 1)
          <5>1. PICK k \in DOMAIN sent : sent[k] = i
            BY <3>5, <4>2 DEF SentOf, HasData
          <5>. QED
            BY <3>1, <5>1
        <4>. QED
          BY <4>1, <4>2
      <3>6. SentOf(at - 1)' <=>
              /\ \A k \in DOMAIN sent' : sent'[k] \in 1..(at' - 1) /\ ~operations'[sent'[k]].empty
              /\ \A i \in 1..(at' - 1) : ~operations'[i].empty => \E k \in DOMAIN sent' : sent'[k] = i
        BY DEF SentOf, HasData
      <3>7. SentOf(at - 1)'
        <4>1. 1..(at' - 1) = 1..at
          BY <2>1
        <4>. HIDE DEF WrapperInv, TypeInv, Collect
        <4>. QED
          BY <2>1, <3>4, <3>5, <3>6, <4>1
      <3>8. phase' = "collect" /\ at' <= Len(operations') + 1
        BY <2>1
      <3>. QED
        BY <3>3, <3>7, <3>8 DEF SentInv
    <2>. QED
      BY <2>2, <2>3
  <1>3. RawInv' /\ ResultsInv'
    BY DEF RawInv, ResultsInv, OwnAnswers
  <1>. QED
    BY <1>1, <1>2, <1>3

LEMMA SendKeepsInv ==
  ASSUME WrapperInv, Send
  PROVE  WrapperInv'
  <1>. USE DEF WrapperInv, TypeInv, Send
  <1>1. TypeInv'
    OBVIOUS
  <1>2. SentInv'
    BY DEF SentInv, SentOf, HasData
  <1>3. RawInv' /\ ResultsInv'
    BY DEF SentInv, RawInv, ResultsInv, OwnAnswers
  <1>. QED
    BY <1>1, <1>2, <1>3

LEMMA BatchCallKeepsInv ==
  ASSUME WrapperInv, BatchCall
  PROVE  WrapperInv'
  <1>. USE DEF WrapperInv, TypeInv
  <1>1. PICK success \in [DOMAIN sent -> BOOLEAN] :
          raw' = [k \in DOMAIN sent |-> [of |-> sent[k], success |-> success[k]]]
    BY DEF BatchCall
  <1>2. TypeInv'
    BY DEF BatchCall
  <1>3. SentInv'
    BY DEF SentInv, SentOf, HasData, BatchCall
  <1>4. \A k \in DOMAIN sent : raw'[k] \in Result /\ raw'[k].of = sent[k]
    BY <1>1 DEF Result
  <1>5. \A k \in DOMAIN sent : ~(k < rawIdx) /\ ~(sent[k] < at)
    BY DEF BatchCall, SentInv, SentOf, ResultsInv
  <1>6. RawInv'
    BY <1>4, <1>5 DEF BatchCall, RawInv
  <1>7. ResultsInv'
    BY DEF BatchCall, SentInv, ResultsInv, OwnAnswers
  <1>. QED
    BY <1>2, <1>3, <1>6, <1>7

LEMMA RejectKeepsInv ==
  ASSUME WrapperInv, Reject
  PROVE  WrapperInv'
  BY DEF WrapperInv, TypeInv, SentInv, RawInv, ResultsInv, OwnAnswers, Reject

\* The answer of the operation at hand, and where the index stands after it.
LEMMA AnswerIsOwn ==
  ASSUME WrapperInv, phase = "decode", at <= Len(operations)
  PROVE  /\ Answer.result \in Result /\ Answer.result.of = at
         /\ Answer.next \in Nat \ {0}
         /\ \A k \in DOMAIN sent : k < Answer.next <=> sent[k] < at + 1
  <1>. USE DEF WrapperInv, TypeInv
  <1>1. CASE operations[at].empty
    <2>1. Answer.result = [of |-> at, success |-> TRUE] /\ Answer.next = rawIdx
      BY <1>1 DEF Answer
    <2>2. \A k \in DOMAIN sent : sent[k] # at
      BY <1>1 DEF SentInv, SentOf, HasData
    <2>. QED
      BY <2>1, <2>2 DEF RawInv, Result
  <1>2. CASE ~operations[at].empty
    <2>1. Answer.result = raw[rawIdx] /\ Answer.next = rawIdx + 1
      BY <1>2 DEF Answer
    <2>2. PICK k \in DOMAIN sent : sent[k] = at
      BY <1>2 DEF SentInv, SentOf, HasData
    <2>3. rawIdx \in DOMAIN sent /\ ~(sent[rawIdx] < at)
      BY <2>2 DEF RawInv
    <2>4. sent[rawIdx] = at
      BY <2>2, <2>3 DEF SentInv, RawInv
    <2>5. \A j \in DOMAIN sent : j < rawIdx + 1 <=> sent[j] < at + 1
      BY <2>3, <2>4 DEF SentInv, RawInv
    <2>. QED
      BY <2>1, <2>3, <2>4, <2>5 DEF RawInv
  <1>. QED
    BY <1>1, <1>2

LEMMA DecodeKeepsInv ==
  ASSUME WrapperInv, Decode
  PROVE  WrapperInv'
  <1>. USE DEF WrapperInv, TypeInv
  <1>1. /\ Answer.result \in Result /\ Answer.result.of = at
        /\ Answer.next \in Nat \ {0}
        /\ \A k \in DOMAIN sent : k < Answer.next <=> sent[k] < at + 1
    BY AnswerIsOwn DEF Decode
  <1>2. /\ results' = Append(results, Answer.result)
        /\ rawIdx' = Answer.next /\ at' = at + 1
        /\ phase = "decode"
        /\ UNCHANGED <<operations, phase, sent, raw>>
    BY DEF Decode
  <1>3. TypeInv'
    BY <1>1, <1>2
  <1>4. SentInv'
    BY <1>2 DEF SentInv, SentOf, HasData
  <1>5. RawInv'
    BY <1>1, <1>2 DEF RawInv
  <1>6. ResultsInv'
    BY <1>1, <1>2 DEF ResultsInv, OwnAnswers
  <1>. QED
    BY <1>3, <1>4, <1>5, <1>6

LEMMA ReturnKeepsInv ==
  ASSUME WrapperInv, Return
  PROVE  WrapperInv'
  BY DEF WrapperInv, TypeInv, SentInv, RawInv, ResultsInv, OwnAnswers, Return

-----------------------------------------------------------------------------
\* The invariant of the wrapper, for every list of operations.
THEOREM WrapperInvariant == WrapperSpec => []WrapperInv
  <1>1. WrapperInit => WrapperInv
    BY InitWrapperInv
  <1>2. WrapperInv /\ [WrapperNext]_wrapperVars => WrapperInv'
    <2>. SUFFICES ASSUME WrapperInv, [WrapperNext]_wrapperVars
                  PROVE  WrapperInv'
      OBVIOUS
    <2>1. CASE \E b \in Batches : Execute(b)
      BY <2>1, ExecuteKeepsInv
    <2>2. CASE Collect
      BY <2>2, CollectKeepsInv
    <2>3. CASE Send
      BY <2>3, SendKeepsInv
    <2>4. CASE BatchCall
      BY <2>4, BatchCallKeepsInv
    <2>5. CASE Reject
      BY <2>5, RejectKeepsInv
    <2>6. CASE Decode
      BY <2>6, DecodeKeepsInv
    <2>7. CASE Return
      BY <2>7, ReturnKeepsInv
    <2>8. CASE UNCHANGED wrapperVars
      BY <2>8 DEF wrapperVars, WrapperInv, TypeInv, SentInv, SentOf, HasData, RawInv,
                  ResultsInv, OwnAnswers
    <2>. QED
      BY <2>1, <2>2, <2>3, <2>4, <2>5, <2>6, <2>7, <2>8 DEF WrapperNext
  <1>. QED
    BY <1>1, <1>2, PTL DEF WrapperSpec

\* Whatever operations are executed together, and whichever of them have no call
\* data, revert or fail, each decodes the answer to its own call.
THEOREM EveryAnswerIsOwn == WrapperSpec => []OwnAnswers
  <1>1. WrapperInv => OwnAnswers
    BY DEF WrapperInv, ResultsInv
  <1>. QED
    BY <1>1, WrapperInvariant, PTL

-----------------------------------------------------------------------------
(* The service *)

LEMMA BatchStepIsWrapperStep ==
  ASSUME [BatchNext]_batchVars
  PROVE  [WrapperNext]_wrapperVars
  <1>1. ASSUME NEW r \in Requests, Ask(r)
        PROVE  \E b \in Batches : Execute(b)
    BY <1>1, RequestsAssumption DEF Ask
  <1>2. CASE DecodeOperation
    BY <1>2 DEF DecodeOperation, WrapperNext
  <1>3. CASE ReturnLiquidity
    BY <1>3 DEF ReturnLiquidity, WrapperNext
  <1>4. CASE BatchDone \/ UNCHANGED batchVars
    BY <1>4 DEF BatchDone, batchVars, wrapperVars
  <1>5. CASE \E r \in Requests : Ask(r)
    BY <1>1, <1>5 DEF WrapperNext
  <1>. QED
    BY <1>2, <1>3, <1>4, <1>5 DEF BatchNext, WrapperNext

\* The service implements the wrapper: the operations of a request are sent, answered
\* and decoded in this and no other way, whatever their callbacks do.
THEOREM BatchImplementsWrapper == BatchSpec => WrapperSpec
  <1>1. BatchInit => WrapperInit
    BY DEF BatchInit
  <1>2. [BatchNext]_batchVars => [WrapperNext]_wrapperVars
    BY BatchStepIsWrapperStep
  <1>. QED
    BY <1>1, <1>2, PTL DEF BatchSpec, WrapperSpec

\* Of every request the service makes, each operation decodes the answer to its own
\* call, also behind two hops that are not asked for.
THEOREM RequestsGetOwnAnswers == BatchSpec => []OwnAnswers
  BY BatchImplementsWrapper, EveryAnswerIsOwn, PTL

-----------------------------------------------------------------------------
(* The prices *)

\* The token a price is asked for first, and the other one.
OutputOf(r) == IF r.side = "Sell" THEN r.buy ELSE r.sell

InputOf(r) == IF r.side = "Sell" THEN r.sell ELSE r.buy

\* Of the decoded results the second and the third are the prices of these.
PricesDecoded ==
  /\ Len(values) >= 2 => values[2].token = OutputOf(request)
  /\ Len(values) >= 3 => values[3].token = InputOf(request)

PricesInv ==
  /\ \E S : values \in Seq(S)
  /\ phase \in {"idle", "collect", "sent"} => values = <<>> /\ at \in Nat
  /\ phase \in {"collect", "sent", "decode"} =>
       /\ request \in Requests /\ operations = BatchOf(request)
  /\ phase \in {"sent", "decode"} => at = Len(values) + 1
  /\ phase = "decode" => PricesDecoded
  /\ PricesOfTheirTokens

\* The second and the third operation of a request ask for the prices.
LEMMA BatchHasPrices ==
  ASSUME NEW r \in Requests
  PROVE  /\ Len(BatchOf(r)) \in {4, 5}
         /\ BatchOf(r)[2].kind = "rate" /\ BatchOf(r)[2].token = OutputOf(r)
         /\ BatchOf(r)[3].kind = "rate" /\ BatchOf(r)[3].token = InputOf(r)
  <1>1. ASSUME NEW token, NEW op, op = RateOperation(r.chain, r.excluded, token)
        PROVE  op.kind = "rate" /\ op.token = token
    BY <1>1 DEF RateOperation
  <1>2. CASE r.side = "Sell"
    BY <1>1, <1>2 DEF BatchOf, OutputOf, InputOf
  <1>3. CASE r.side # "Sell"
    BY <1>1, <1>3 DEF BatchOf, OutputOf, InputOf
  <1>. QED
    BY <1>2, <1>3

LEMMA AskKeepsPrices ==
  ASSUME PricesInv, NEW r \in Requests, Ask(r)
  PROVE  PricesInv'
  BY DEF PricesInv, Ask, Execute, WrapperInit, PricesOfTheirTokens

LEMMA SendingKeepsPrices ==
  ASSUME PricesInv, Collect \/ Send \/ BatchCall \/ Reject, UNCHANGED serviceVars
  PROVE  PricesInv'
  BY DEF PricesInv, PricesDecoded, Collect, Send, BatchCall, Reject, serviceVars,
         PricesOfTheirTokens

LEMMA DecodeKeepsPrices ==
  ASSUME PricesInv, DecodeOperation
  PROVE  PricesInv'
  <1>1. /\ phase = "decode" /\ phase' = "decode" /\ at' = at + 1
        /\ UNCHANGED <<operations, request>>
    BY DEF DecodeOperation, Decode
  <1>2. PICK d \in Decodings(operations[at], Answer.result.success) :
          values' = Append(values, d.value)
    BY DEF DecodeOperation
  <1>3. PICK S : values \in Seq(S)
    BY DEF PricesInv
  <1>4. /\ values' \in Seq(S \union {d.value})
        /\ Len(values') = Len(values) + 1 /\ values'[Len(values')] = d.value
        /\ \A i \in 1..Len(values) : values'[i] = values[i]
    <2>1. values \in Seq(S \union {d.value})
      BY <1>3
    <2>. QED
      BY <1>2, <2>1
  <1>5. /\ request \in Requests /\ operations = BatchOf(request)
        /\ Len(values) \in Nat /\ at = Len(values) + 1
    BY <1>1, <1>3 DEF PricesInv
  <1>6. PICK n \in Nat : n = Len(values)
    BY <1>5
  <1>7. ASSUME operations[at].kind = "rate"
        PROVE  d.value.token = operations[at].token
    BY <1>7 DEF Decodings
  <1>8. PricesDecoded'
    <2>1. Len(values') >= 2 => values'[2].token = OutputOf(request)
      <3>. SUFFICES ASSUME n + 1 >= 2
                    PROVE  values'[2].token = OutputOf(request)
        BY <1>4, <1>6
      <3>1. CASE n >= 2
        BY <1>1, <1>4, <1>6, <3>1 DEF PricesInv, PricesDecoded
      <3>2. CASE n = 1
        BY <1>4, <1>5, <1>6, <1>7, <3>2, BatchHasPrices
      <3>. QED
        BY <3>1, <3>2
    <2>2. Len(values') >= 3 => values'[3].token = InputOf(request)
      <3>. SUFFICES ASSUME n + 1 >= 3
                    PROVE  values'[3].token = InputOf(request)
        BY <1>4, <1>6
      <3>1. CASE n >= 3
        BY <1>1, <1>4, <1>6, <3>1 DEF PricesInv, PricesDecoded
      <3>2. CASE n = 2
        BY <1>4, <1>5, <1>6, <1>7, <3>2, BatchHasPrices
      <3>. QED
        BY <3>1, <3>2
    <2>. QED
      BY <1>1, <2>1, <2>2 DEF PricesDecoded, OutputOf, InputOf
  <1>. QED
    BY <1>1, <1>4, <1>5, <1>8 DEF PricesInv, PricesOfTheirTokens

LEMMA ReturnKeepsPrices ==
  ASSUME PricesInv, ReturnLiquidity
  PROVE  PricesInv'
  <1>1. /\ phase = "decode" /\ at > Len(operations) /\ phase' = "done"
        /\ values' = <<>> /\ request' = request
        /\ liquidity' = LiquidityOf(request, values)
    BY DEF ReturnLiquidity, Return
  <1>2. /\ request \in Requests /\ operations = BatchOf(request)
        /\ Len(values) \in Nat /\ at = Len(values) + 1
    BY <1>1 DEF PricesInv
  <1>3. Len(values) >= 3
    BY <1>1, <1>2, BatchHasPrices
  <1>4. values[2].token = OutputOf(request) /\ values[3].token = InputOf(request)
    BY <1>1, <1>2, <1>3 DEF PricesInv, PricesDecoded
  <1>5. PricesOfTheirTokens'
    <2>1. CASE request.side = "Sell"
      BY <1>1, <1>4, <2>1 DEF PricesOfTheirTokens, LiquidityOf, OutputOf, InputOf
    <2>2. CASE request.side # "Sell"
      BY <1>1, <1>4, <2>2 DEF PricesOfTheirTokens, LiquidityOf, OutputOf, InputOf
    <2>. QED
      BY <2>1, <2>2
  <1>. QED
    BY <1>1, <1>5 DEF PricesInv

\* The first price is that of the output token from the batch to the liquidity, for sales
\* and purchases alike.
THEOREM PricesInvariant == BatchSpec => []PricesInv
  <1>1. BatchInit => PricesInv
    BY DEF BatchInit, WrapperInit, PricesInv, PricesOfTheirTokens
  <1>2. PricesInv /\ [BatchNext]_batchVars => PricesInv'
    <2>. SUFFICES ASSUME PricesInv, [BatchNext]_batchVars
                  PROVE  PricesInv'
      OBVIOUS
    <2>1. CASE \E r \in Requests : Ask(r)
      BY <2>1, AskKeepsPrices
    <2>2. CASE (Collect \/ Send \/ BatchCall \/ Reject) /\ UNCHANGED serviceVars
      BY <2>2, SendingKeepsPrices
    <2>3. CASE DecodeOperation
      BY <2>3, DecodeKeepsPrices
    <2>4. CASE ReturnLiquidity
      BY <2>4, ReturnKeepsPrices
    <2>5. CASE BatchDone \/ UNCHANGED batchVars
      BY <2>5 DEF BatchDone, batchVars, PricesInv, PricesDecoded, PricesOfTheirTokens,
                  OutputOf, InputOf
    <2>. QED
      BY <2>1, <2>2, <2>3, <2>4, <2>5 DEF BatchNext
  <1>. QED
    BY <1>1, <1>2, PTL DEF BatchSpec

\* Each of the four prices of a market is that of its token, for every request, though
\* sales and purchases ask for them in another order and two places swap them.
THEOREM PricesNeverSwapped == BatchSpec => []PricesOfTheirTokens
  <1>1. PricesInv => PricesOfTheirTokens
    BY DEF PricesInv
  <1>. QED
    BY <1>1, PricesInvariant, PTL

-----------------------------------------------------------------------------
(* What the coders take *)

\* The fields that are enough for each source.
LEMMA Encodings ==
  ASSUME NEW s, NEW fields
  PROVE  /\ s \in CurveBridges /\ {"pool"} \subseteq fields => Encodes(s, fields)
         /\ s \in UniswapV2Bridges /\ {"router", "tokenAddressPath"} \subseteq fields
            => Encodes(s, fields)
         /\ /\ s \in {"Balancer", "Cream", "Mooniswap", "Shell", "Component"}
            /\ {"poolAddress"} \subseteq fields
            => Encodes(s, fields)
         /\ s \in {"Uniswap", "Eth2Dai", "MStable"} /\ {"router"} \subseteq fields
            => Encodes(s, fields)
         /\ s = "BalancerV2" /\ {"vault", "poolId"} \subseteq fields => Encodes(s, fields)
         /\ s = "Kyber" /\ {"networkProxy", "hint"} \subseteq fields => Encodes(s, fields)
         /\ s = "Dodo" /\ {"helperAddress", "poolAddress", "isSellBase"} \subseteq fields
            => Encodes(s, fields)
         /\ s = "DodoV2" /\ {"poolAddress", "isSellBase"} \subseteq fields
            => Encodes(s, fields)
         /\ s = "LiquidityProvider" /\ {"poolAddress"} \subseteq fields => Encodes(s, fields)
         /\ s = "Clipper" /\ {"poolAddress"} \subseteq fields => Encodes(s, fields)
         /\ s = "MakerPsm" /\ {"psmAddress", "gemTokenAddress"} \subseteq fields
            => Encodes(s, fields)
         /\ s = "KyberDmm" /\ {"router", "poolsPath", "tokenAddressPath"} \subseteq fields
            => Encodes(s, fields)
         /\ s = "Lido" /\ {"stEthTokenAddress"} \subseteq fields => Encodes(s, fields)
  <1>. DEFINE types == [i \in DOMAIN FieldsOf(s) |-> FieldType(FieldsOf(s)[i])]
  <1>1. ASSUME s \in Bridged, s # "UniswapV3", types = CoderOf(s),
               \A i \in DOMAIN FieldsOf(s) : Given(FieldsOf(s)[i], fields)
        PROVE  Encodes(s, fields)
    BY <1>1, NamesAssumption DEF Encodes, FinalFields
  <1>. USE DEF Bridged, BridgeSource, CurveBridges, UniswapV2Bridges, CoderOf, FieldType, Given
  <1>2. ASSUME s \in CurveBridges, {"pool"} \subseteq fields PROVE Encodes(s, fields)
    <2>1. FieldsOf(s) = <<"pool", "pool.selector", "pool.sellIdx", "pool.buyIdx">>
      BY <1>2 DEF FieldsOf
    <2>. QED
      BY <1>1, <1>2, <2>1
  <1>3. ASSUME s \in UniswapV2Bridges, {"router", "tokenAddressPath"} \subseteq fields
        PROVE  Encodes(s, fields)
    <2>1. FieldsOf(s) = <<"router", "tokenAddressPath">>
      BY <1>3 DEF FieldsOf
    <2>. QED
      BY <1>1, <1>3, <2>1
  <1>4. ASSUME s \in {"Balancer", "Cream", "Mooniswap", "Shell", "Component"},
               {"poolAddress"} \subseteq fields
        PROVE  Encodes(s, fields)
    <2>1. FieldsOf(s) = <<"poolAddress">>
      BY <1>4 DEF FieldsOf
    <2>. QED
      BY <1>1, <1>4, <2>1
  <1>5. ASSUME s \in {"Uniswap", "Eth2Dai", "MStable"}, {"router"} \subseteq fields
        PROVE  Encodes(s, fields)
    <2>1. FieldsOf(s) = <<"router">>
      BY <1>5 DEF FieldsOf
    <2>. QED
      BY <1>1, <1>5, <2>1
  <1>6. ASSUME s = "BalancerV2", {"vault", "poolId"} \subseteq fields
        PROVE  Encodes(s, fields)
    BY <1>1, <1>6 DEF FieldsOf
  <1>7. ASSUME s = "Kyber", {"networkProxy", "hint"} \subseteq fields
        PROVE  Encodes(s, fields)
    BY <1>1, <1>7 DEF FieldsOf
  <1>8. ASSUME s = "Dodo", {"helperAddress", "poolAddress", "isSellBase"} \subseteq fields
        PROVE  Encodes(s, fields)
    BY <1>1, <1>8 DEF FieldsOf
  <1>9. ASSUME s = "DodoV2", {"poolAddress", "isSellBase"} \subseteq fields
        PROVE  Encodes(s, fields)
    BY <1>1, <1>9 DEF FieldsOf
  <1>10. ASSUME s = "LiquidityProvider", {"poolAddress"} \subseteq fields
         PROVE  Encodes(s, fields)
    BY <1>1, <1>10 DEF FieldsOf
  <1>11. ASSUME s = "Clipper", {"poolAddress"} \subseteq fields PROVE Encodes(s, fields)
    BY <1>1, <1>11 DEF FieldsOf
  <1>12. ASSUME s = "MakerPsm", {"psmAddress", "gemTokenAddress"} \subseteq fields
         PROVE  Encodes(s, fields)
    BY <1>1, <1>12 DEF FieldsOf
  <1>13. ASSUME s = "KyberDmm", {"router", "poolsPath", "tokenAddressPath"} \subseteq fields
         PROVE  Encodes(s, fields)
    BY <1>1, <1>13 DEF FieldsOf
  <1>14. ASSUME s = "Lido", {"stEthTokenAddress"} \subseteq fields PROVE Encodes(s, fields)
    BY <1>1, <1>14 DEF FieldsOf
  <1>. QED
    BY <1>2, <1>3, <1>4, <1>5, <1>6, <1>7, <1>8, <1>9, <1>10, <1>11, <1>12, <1>13, <1>14

\* Of the amounts of a pool of Uniswap V3 the order keeps the path of one.
LEMMA EncodesV3 == Encodes("UniswapV3", {"router", "tokenAddressPath", "pathAmounts"})
  <1>. DEFINE s == "UniswapV3"
              fields == {"router", "tokenAddressPath", "pathAmounts"}
  <1>1. s \in Bridged
    BY DEF Bridged, BridgeSource
  <1>2. FieldsOf(s) = <<"router", "uniswapPath">>
    BY DEF FieldsOf, CurveBridges, UniswapV2Bridges
  <1>3. CoderOf(s) = <<Address, "bytes">>
    BY DEF CoderOf, CurveBridges, UniswapV2Bridges
  <1>4. FinalFields(s, fields) = {"router", "tokenAddressPath", "uniswapPath"}
    BY DEF FinalFields
  <1>5. [i \in DOMAIN FieldsOf(s) |-> FieldType(FieldsOf(s)[i])] = CoderOf(s)
    BY <1>2, <1>3 DEF FieldType
  <1>6. \A i \in DOMAIN FieldsOf(s) : Given(FieldsOf(s)[i], FinalFields(s, fields))
    BY <1>2, <1>4 DEF Given
  <1>. QED
    BY <1>1, <1>5, <1>6, NamesAssumption DEF Encodes

\* The sources that have an arm in the switches.
Asked == BridgeSource \ {"MultiBridge"}

\* The lists of the sales, the purchases and the prices hold such sources only.
LEMMA ListsOfAsked ==
  \A chain : /\ Row(SellSources, chain) \in Seq(Asked)
             /\ Row(BuySources, chain) \in Seq(Asked)
             /\ Row(FeeSources, chain) \in Seq(Asked)
  <1>. SUFFICES ASSUME NEW chain
                PROVE  /\ Row(SellSources, chain) \in Seq(Asked)
                       /\ Row(BuySources, chain) \in Seq(Asked)
                       /\ Row(FeeSources, chain) \in Seq(Asked)
    OBVIOUS
  <1>1. /\ SellSources.MAINNET \in Seq(Asked) /\ BuySources.MAINNET \in Seq(Asked)
        /\ FeeSources.MAINNET \in Seq(Asked)
    BY DEF SellSources, BuySources, FeeSources, Asked, BridgeSource
  <1>2. /\ SellSources.ROPSTEN \in Seq(Asked) /\ BuySources.ROPSTEN \in Seq(Asked)
        /\ FeeSources.ROPSTEN \in Seq(Asked)
    BY DEF SellSources, BuySources, FeeSources, Asked, BridgeSource
  <1>3. /\ SellSources.BSC \in Seq(Asked) /\ BuySources.BSC \in Seq(Asked)
        /\ FeeSources.BSC \in Seq(Asked)
    BY DEF SellSources, BuySources, FeeSources, Asked, BridgeSource
  <1>4. /\ SellSources.MATIC \in Seq(Asked) /\ BuySources.MATIC \in Seq(Asked)
        /\ FeeSources.MATIC \in Seq(Asked)
    BY DEF SellSources, BuySources, FeeSources, Asked, BridgeSource
  <1>5. /\ DOMAIN SellSources = {"MAINNET", "ROPSTEN", "BSC", "MATIC"}
        /\ DOMAIN BuySources = {"MAINNET", "ROPSTEN", "BSC", "MATIC"}
        /\ DOMAIN FeeSources = {"MAINNET", "ROPSTEN", "BSC", "MATIC"}
    BY DEF SellSources, BuySources, FeeSources
  <1>6. <<>> \in Seq(Asked)
    OBVIOUS
  <1>. QED
    BY <1>1, <1>2, <1>3, <1>4, <1>5, <1>6 DEF Row

F == INSTANCE FoldFacts WITH Op <- AddHop, Base <- {<<>>}

\* What is proved of flattened lists goes for those of the model.
LEMMA FlattenSame == \A ss : FlattenSeq(ss) = F!FlattenSeq(ss)
  BY DEF FlattenSeq, F!FlattenSeq

\* Lists of lists make one list.
LEMMA Flattened ==
  \A S : \A ss \in Seq(Seq(S)) : FlattenSeq(ss) \in Seq(S)
  BY FlattenSame, F!FlattenPlaces

-----------------------------------------------------------------------------
(* The calls of the sources *)

\* The call goes from one of the tokens to the other, and the order made of it can be
\* encoded.
Suits(c, sell, buy) ==
  /\ c.source \in Bridged
  /\ c.tokens \in Seq(Tokens) /\ Len(c.tokens) \in {2, 3}
  /\ c.tokens[1] \in {sell, Native(sell)}
  /\ c.tokens[Len(c.tokens)] \in {buy, Native(buy)}
  /\ Encodes(c.source, c.fields \union c.decoded)

AllSuit(calls, sell, buy) ==
  /\ \E S : calls \in Seq(S)
  /\ \A i \in 1..Len(calls) : Suits(calls[i], sell, buy)

\* A list of calls for the numbers up to n.
LEMMA SuitEach ==
  ASSUME NEW calls, NEW n \in Nat, NEW sell, NEW buy,
         calls = [i \in 1..n |-> calls[i]], \A i \in 1..n : Suits(calls[i], sell, buy)
  PROVE  AllSuit(calls, sell, buy)
  <1>. DEFINE S == {calls[i] : i \in 1..n}
  <1>1. calls \in Seq(S) /\ Len(calls) = n
    OBVIOUS
  <1>. QED
    BY <1>1 DEF AllSuit

\* A path goes from the token sold to the token bought.
LEMMA PathEnds ==
  ASSUME NEW S, NEW sell \in S, NEW buy \in S, NEW via \in Seq(S)
  PROVE  /\ \E n \in Nat : DOMAIN Paths(sell, buy, via) = 1..n
         /\ \A i \in DOMAIN Paths(sell, buy, via) :
              LET p == Paths(sell, buy, via)[i]
              IN  /\ p \in Seq(S) /\ Len(p) \in {2, 3}
                  /\ p[1] = sell /\ p[Len(p)] = buy
  <1>. DEFINE T == {p \in Seq(S) : Len(p) \in {2, 3} /\ p[1] = sell /\ p[Len(p)] = buy}
  <1>1. <<sell, buy>> \in T
    <2>. DEFINE p == <<sell, buy>>
    <2>1. p \in Seq(S) /\ Len(p) = 2 /\ p[1] = sell /\ p[2] = buy
      OBVIOUS
    <2>. HIDE DEF p
    <2>2. p \in T
      BY <2>1
    <2>. QED BY <2>2 DEF p
  <1>2. ASSUME NEW i \in DOMAIN via PROVE <<sell, via[i], buy>> \in T
    <2>. DEFINE p == <<sell, via[i], buy>>
    <2>1. via[i] \in S
      OBVIOUS
    <2>2. p \in Seq(S) /\ Len(p) = 3 /\ p[1] = sell /\ p[3] = buy
      BY <2>1
    <2>. HIDE DEF p
    <2>3. p \in T
      BY <2>2
    <2>. QED BY <2>3 DEF p
  <1>. HIDE DEF T
  <1>3. [i \in DOMAIN via |-> <<sell, via[i], buy>>] \in Seq(T)
    <2>1. DOMAIN via = 1..Len(via) /\ Len(via) \in Nat
      OBVIOUS
    <2>. QED BY <1>2, <2>1
  <1>4. Paths(sell, buy, via) \in Seq(T)
    BY <1>1, <1>3 DEF Paths
  <1>5. \A i \in DOMAIN Paths(sell, buy, via) : Paths(sell, buy, via)[i] \in T
    BY <1>4
  <1>6. DOMAIN Paths(sell, buy, via) = 1..Len(Paths(sell, buy, via))
        /\ Len(Paths(sell, buy, via)) \in Nat
    BY <1>4
  <1>. QED
    BY <1>5, <1>6 DEF T

\* A call between the two tokens, by a path of them or of one more.
LEMMA SuitCall ==
  ASSUME NEW s \in Bridged, NEW method, NEW where, NEW tokens, NEW fields, NEW decoded,
         NEW sell, NEW buy, tokens \in Seq(Tokens), Len(tokens) \in {2, 3},
         tokens[1] \in {sell, Native(sell)}, tokens[Len(tokens)] \in {buy, Native(buy)},
         Encodes(s, fields \union decoded)
  PROVE  Suits(Operation(s, method, where, tokens, fields, decoded), sell, buy)
  BY DEF Suits, Operation

\* What a filter leaves is a list of the elements that pass.
LEMMA SelectFacts ==
  \A S, T : \A s \in Seq(S) :
    FlattenSeq([i \in DOMAIN s |-> IF s[i] \in T THEN <<s[i]>> ELSE <<>>]) \in Seq(S \intersect T)
  <1>. SUFFICES ASSUME NEW S, NEW T, NEW s \in Seq(S)
                PROVE  FlattenSeq([i \in DOMAIN s |-> IF s[i] \in T THEN <<s[i]>> ELSE <<>>])
                         \in Seq(S \intersect T)
    OBVIOUS
  <1>. DEFINE ss == [i \in DOMAIN s |-> IF s[i] \in T THEN <<s[i]>> ELSE <<>>]
  <1>1. DOMAIN s = 1..Len(s) /\ Len(s) \in Nat
    OBVIOUS
  <1>2. ASSUME NEW i \in DOMAIN s
        PROVE  (IF s[i] \in T THEN <<s[i]>> ELSE <<>>) \in Seq(S \intersect T)
    <2>1. s[i] \in S
      OBVIOUS
    <2>2. CASE s[i] \in T
      BY <2>1, <2>2
    <2>. QED
      BY <2>2
  <1>3. ss \in Seq(Seq(S \intersect T))
    BY <1>1, <1>2
  <1>. QED
    BY <1>3, Flattened

\* The two ends of a pair do not appear between them.
LEMMA IntermediateFacts ==
  ASSUME NEW sell, NEW buy
  PROVE  IntermediateTokens(sell, buy) \in Seq(Tokens \ {sell, buy})
  <1>. DEFINE all == Row(Neighbours, buy) \o Row(Neighbours, sell) \o Intermediates
  <1>1. \A t : Row(Neighbours, t) \in Seq(Tokens)
    BY TokensAssumption DEF Row
  <1>2. all \in Seq(Tokens)
    BY <1>1, TokensAssumption
  <1>. HIDE DEF all
  <1>. DEFINE T == Tokens \ {sell, buy}
              kept == [i \in DOMAIN all |-> IF all[i] \in T THEN <<all[i]>> ELSE <<>>]
  <1>3. IntermediateTokens(sell, buy)
          = FlattenSeq([i \in DOMAIN all |->
                          IF all[i] \notin {sell, buy} THEN <<all[i]>> ELSE <<>>])
    BY DEF IntermediateTokens, Select, all
  <1>4. \A i \in DOMAIN all : all[i] \notin {sell, buy} <=> all[i] \in T
    BY <1>2
  <1>5. IntermediateTokens(sell, buy) = FlattenSeq(kept)
    BY <1>3, <1>4
  <1>6. FlattenSeq(kept) \in Seq(Tokens \intersect T)
    BY <1>2, SelectFacts
  <1>7. Tokens \intersect T = Tokens \ {sell, buy}
    OBVIOUS
  <1>. QED
    BY <1>5, <1>6, <1>7

\* No call, and a single one.
LEMMA SuitFew ==
  ASSUME NEW sell, NEW buy
  PROVE  /\ AllSuit(<<>>, sell, buy)
         /\ \A c : Suits(c, sell, buy) => AllSuit(<<c>>, sell, buy)
  <1>1. AllSuit(<<>>, sell, buy)
    BY DEF AllSuit
  <1>2. ASSUME NEW c, Suits(c, sell, buy) PROVE AllSuit(<<c>>, sell, buy)
    <2>. DEFINE calls == <<c>>
    <2>1. calls \in Seq({c}) /\ Len(calls) = 1 /\ calls[1] = c
      OBVIOUS
    <2>. HIDE DEF calls
    <2>2. \A i \in 1..Len(calls) : Suits(calls[i], sell, buy)
      BY <1>2, <2>1
    <2>3. AllSuit(calls, sell, buy)
      BY <2>1, <2>2 DEF AllSuit
    <2>. QED
      BY <2>3 DEF calls
  <1>. QED
    BY <1>1, <1>2

\* The pair itself, and as the sources that know the native token have it.
LEMMA PairEnds ==
  ASSUME NEW sell \in Tokens, NEW buy \in Tokens
  PROVE  LET pair   == <<sell, buy>>
             native == <<Native(sell), Native(buy)>>
         IN  /\ pair \in Seq(Tokens) /\ Len(pair) = 2 /\ pair[1] = sell /\ pair[2] = buy
             /\ native \in Seq(Tokens) /\ Len(native) = 2
             /\ native[1] = Native(sell) /\ native[2] = Native(buy)
  BY TokensAssumption DEF Native

\* A call for the pair, in either form.
LEMMA SuitPair ==
  ASSUME NEW s \in Bridged, NEW method, NEW where, NEW fields, NEW decoded,
         NEW sell \in Tokens, NEW buy \in Tokens, Encodes(s, fields \union decoded)
  PROVE  /\ Suits(Operation(s, method, where, <<sell, buy>>, fields, decoded), sell, buy)
         /\ Suits(Operation(s, method, where, <<Native(sell), Native(buy)>>, fields, decoded),
                  sell, buy)
  <1>. DEFINE pair   == <<sell, buy>>
              native == <<Native(sell), Native(buy)>>
  <1>1. /\ pair \in Seq(Tokens) /\ Len(pair) = 2 /\ pair[1] = sell /\ pair[2] = buy
        /\ native \in Seq(Tokens) /\ Len(native) = 2
        /\ native[1] = Native(sell) /\ native[2] = Native(buy)
    BY PairEnds
  <1>. HIDE DEF pair, native
  <1>2. Suits(Operation(s, method, where, pair, fields, decoded), sell, buy)
    BY <1>1, SuitCall
  <1>3. Suits(Operation(s, method, where, native, fields, decoded), sell, buy)
    BY <1>1, SuitCall
  <1>. QED
    BY <1>2, <1>3 DEF pair, native

\* The operations with routers: along each path, once for the pair, or at each reserve.
LEMMA RouterSuits ==
  ASSUME NEW side, NEW chain, NEW s \in DOMAIN RouterChains,
         NEW sell \in Tokens, NEW buy \in Tokens, NEW via \in Seq(Tokens)
  PROVE  AllSuit(ByRouter(side, chain, s, sell, buy, via), sell, buy)
  <1>. DEFINE calls == ByRouter(side, chain, s, sell, buy, via)
              paths == Paths(sell, buy, via)
              routed == {"router", "tokenAddressPath"}
              call(name, where, path, fields, decoded) ==
                Operation(s, <<side, name>>, where, path, fields, decoded)
  <1>1. DOMAIN RouterChains =
          UniswapV2Like \union {"Eth2Dai", "Uniswap", "UniswapV3", "KyberDmm", "Kyber"}
    BY DEF RouterChains, UniswapV2Like
  <1>2. PICK n \in Nat : DOMAIN paths = 1..n
    BY PathEnds
  <1>3. \A i \in 1..n : /\ paths[i] \in Seq(Tokens) /\ Len(paths[i]) \in {2, 3}
                        /\ paths[i][1] = sell /\ paths[i][Len(paths[i])] = buy
    BY <1>2, PathEnds
  <1>4. s \in Bridged
    BY <1>1 DEF Bridged, BridgeSource, UniswapV2Like
  <1>5. ASSUME NEW name, NEW decoded, Encodes(s, routed \union decoded),
               calls = [i \in DOMAIN paths |-> call(name, <<s, 0>>, paths[i], routed, decoded)]
        PROVE  AllSuit(calls, sell, buy)
    <2>1. \A i \in 1..n : Suits(call(name, <<s, 0>>, paths[i], routed, decoded), sell, buy)
      BY <1>3, <1>4, <1>5, SuitCall
    <2>2. \A i \in 1..n : Suits(calls[i], sell, buy)
      BY <1>2, <1>5, <2>1
    <2>3. calls = [i \in 1..n |-> calls[i]]
      BY <1>2, <1>5
    <2>. HIDE DEF calls
    <2>. QED
      BY <2>2, <2>3, SuitEach
  <1>6. CASE chain \notin RouterChains[s]
    BY <1>6, SuitFew DEF ByRouter
  <1>. SUFFICES ASSUME chain \in RouterChains[s] PROVE AllSuit(calls, sell, buy)
    BY <1>6
  <1>7. CASE s = "Eth2Dai"
    <2>1. calls = <<call("Eth2Dai", <<s, 0>>, <<sell, buy>>, {"router"}, {})>>
      BY <1>7 DEF ByRouter, UniswapV2Like
    <2>2. Encodes(s, {"router"} \union {})
      BY <1>7, Encodings
    <2>. QED
      BY <1>4, <2>1, <2>2, SuitPair, SuitFew
  <1>8. CASE s = "Uniswap"
    <2>1. calls = <<call("Uniswap", <<s, 0>>, <<Native(sell), Native(buy)>>, {"router"}, {})>>
      BY <1>8 DEF ByRouter, UniswapV2Like
    <2>2. Encodes(s, {"router"} \union {})
      BY <1>8, Encodings
    <2>. QED
      BY <1>4, <2>1, <2>2, SuitPair, SuitFew
  <1>9. CASE s = "KyberDmm"
    <2>1. calls = <<call("KyberDmm", <<s, 0>>, <<sell, buy>>, routed, {"poolsPath"})>>
      BY <1>9 DEF ByRouter, UniswapV2Like
    <2>2. Encodes(s, routed \union {"poolsPath"})
      BY <1>9, Encodings
    <2>. QED
      BY <1>4, <2>1, <2>2, SuitPair, SuitFew
  <1>10. CASE s \in UniswapV2Like
    <2>1. calls = [i \in DOMAIN paths |-> call("UniswapV2", <<s, 0>>, paths[i], routed, {})]
      BY <1>10 DEF ByRouter, UniswapV2Like
    <2>2. Encodes(s, routed \union {})
      <3>1. s \in UniswapV2Bridges
        BY <1>10 DEF UniswapV2Like, UniswapV2Bridges
      <3>. QED BY <3>1, Encodings
    <2>. QED
      BY <1>5, <2>1, <2>2
  <1>11. CASE s = "UniswapV3"
    <2>1. calls = [i \in DOMAIN paths |->
                     call("UniswapV3", <<s, 0>>, paths[i], routed, {"pathAmounts"})]
      BY <1>11 DEF ByRouter, UniswapV2Like
    <2>2. Encodes(s, routed \union {"pathAmounts"})
      <3>1. routed \union {"pathAmounts"} = {"router", "tokenAddressPath", "pathAmounts"}
        OBVIOUS
      <3>. QED BY <1>11, <3>1, EncodesV3
    <2>. QED
      BY <1>5, <2>1, <2>2
  <1>12. CASE s = "Kyber"
    <2>. DEFINE told == {"hint", "reserveId"}
                place(k) == <<s, ReserveOffsets[k]>>
    <2>1. calls = [k \in DOMAIN ReserveOffsets |->
                     call("KyberNetwork", place(k), <<sell, buy>>, {"networkProxy"}, told)]
      BY <1>12 DEF ByRouter, UniswapV2Like
    <2>2. Encodes(s, {"networkProxy"} \union told)
      BY <1>12, Encodings
    <2>3. DOMAIN ReserveOffsets = 1..5
      BY DEF ReserveOffsets, KYBER_MAX_RESERVES_QUERIED
    <2>4. ASSUME NEW k \in 1..5 PROVE Suits(calls[k], sell, buy)
      <3>. HIDE DEF told, place
      <3>1. calls[k] = call("KyberNetwork", place(k), <<sell, buy>>, {"networkProxy"}, told)
        BY <2>1, <2>3
      <3>2. Suits(call("KyberNetwork", place(k), <<sell, buy>>, {"networkProxy"}, told), sell, buy)
        BY <1>4, <2>2, SuitPair
      <3>. QED
        BY <3>1, <3>2
    <2>5. calls = [k \in 1..5 |-> calls[k]]
      BY <2>1, <2>3
    <2>. HIDE DEF calls
    <2>. QED
      BY <2>4, <2>5, SuitEach
  <1>. QED
    BY <1>1, <1>7, <1>8, <1>9, <1>10, <1>11, <1>12

\* The providers that trade both tokens.
ProvidersOf(sell, buy) == Where(Providers, LAMBDA tokens : {sell, buy} \subseteq tokens)

\* The positions of the pools that pass a test, whatever the test.
LEMMA PoolsFound ==
  ASSUME NEW s, NEW chain, NEW sell, NEW buy
  PROVE  /\ FindCurveLike(s, chain, sell, buy) \in Seq(Nat)
         /\ FindShellLike(s, chain, sell, buy) \in Seq(Nat)
         /\ ProvidersOf(sell, buy) \in Seq(Nat)
         /\ s \in {"Balancer", "BalancerV2", "Cream"} =>
              \E S : CachedForPair(s, sell, buy) \in Seq(S)
  <1>1. ASSUME NEW S, NEW n \in Nat, NEW ss, ss = [i \in 1..n |-> ss[i]],
               \A i \in 1..n : ss[i] = <<>> \/ \E x \in S : ss[i] = <<x>>
        PROVE  FlattenSeq(ss) \in Seq(S)
    <2>1. ASSUME NEW i \in 1..n PROVE ss[i] \in Seq(S)
      <3>1. \A x \in S : <<x>> \in Seq(S)
        OBVIOUS
      <3>2. <<>> \in Seq(S)
        OBVIOUS
      <3>. QED
        BY <1>1, <3>1, <3>2
    <2>2. ss \in Seq(Seq(S))
      BY <1>1, <2>1
    <2>. QED
      BY <2>2, Flattened
  <1>2. FindCurveLike(s, chain, sell, buy) \in Seq(Nat)
    <2>. DEFINE passes(p) == p.metaTokens = {} \/ {sell, buy} \intersect p.metaTokens # {}
                places == [i \in DOMAIN CurveLikePools |-> i]
                ss == [i \in DOMAIN places |->
                         IF passes(CurveLikePools[places[i]]) THEN <<places[i]>> ELSE <<>>]
    <2>1. PICK n \in Nat : DOMAIN CurveLikePools = 1..n
      BY PoolsAssumption
    <2>2. \A i \in 1..n : ss[i] = <<>> \/ \E x \in Nat : ss[i] = <<x>>
      BY <2>1
    <2>3. ss = [i \in 1..n |-> ss[i]]
      BY <2>1
    <2>4. chain \in ListedChains[s] => FindCurveLike(s, chain, sell, buy) = FlattenSeq(ss)
      BY DEF FindCurveLike, Where, Select
    <2>5. chain \notin ListedChains[s] => FindCurveLike(s, chain, sell, buy) = <<>>
      BY DEF FindCurveLike
    <2>. HIDE DEF ss
    <2>6. FlattenSeq(ss) \in Seq(Nat)
      BY <1>1, <2>2, <2>3
    <2>7. <<>> \in Seq(Nat)
      OBVIOUS
    <2>. QED
      BY <2>4, <2>5, <2>6, <2>7
  <1>3. FindShellLike(s, chain, sell, buy) \in Seq(Nat)
    <2>. DEFINE trades(tokens) == {sell, buy} \subseteq tokens
                places == [i \in DOMAIN ShellLikePools |-> i]
                ss == [i \in DOMAIN places |->
                         IF trades(ShellLikePools[places[i]]) THEN <<places[i]>> ELSE <<>>]
    <2>1. PICK n \in Nat : DOMAIN ShellLikePools = 1..n
      BY PoolsAssumption
    <2>2. \A i \in 1..n : ss[i] = <<>> \/ \E x \in Nat : ss[i] = <<x>>
      BY <2>1
    <2>3. ss = [i \in 1..n |-> ss[i]]
      BY <2>1
    <2>4. chain \in ListedChains[s] => FindShellLike(s, chain, sell, buy) = FlattenSeq(ss)
      BY DEF FindShellLike, Where, Select
    <2>5. chain \notin ListedChains[s] => FindShellLike(s, chain, sell, buy) = <<>>
      BY DEF FindShellLike
    <2>. HIDE DEF ss
    <2>6. FlattenSeq(ss) \in Seq(Nat)
      BY <1>1, <2>2, <2>3
    <2>7. <<>> \in Seq(Nat)
      OBVIOUS
    <2>. QED
      BY <2>4, <2>5, <2>6, <2>7
  <1>4. ProvidersOf(sell, buy) \in Seq(Nat)
    <2>. DEFINE trades(tokens) == {sell, buy} \subseteq tokens
                places == [i \in DOMAIN Providers |-> i]
                ss == [i \in DOMAIN places |->
                         IF trades(Providers[places[i]]) THEN <<places[i]>> ELSE <<>>]
    <2>1. PICK n \in Nat : DOMAIN Providers = 1..n
      BY PoolsAssumption
    <2>2. \A i \in 1..n : ss[i] = <<>> \/ \E x \in Nat : ss[i] = <<x>>
      BY <2>1
    <2>3. ss = [i \in 1..n |-> ss[i]]
      BY <2>1
    <2>4. ProvidersOf(sell, buy) = FlattenSeq(ss)
      BY DEF ProvidersOf, Where, Select
    <2>. HIDE DEF ss
    <2>. QED
      BY <1>1, <2>2, <2>3, <2>4
  <1>5. ASSUME s \in {"Balancer", "BalancerV2", "Cream"}
        PROVE  \E S : CachedForPair(s, sell, buy) \in Seq(S)
    <2>. DEFINE pools == CachedPools[s]
                S == Range(pools)
                ss == [i \in DOMAIN pools |->
                         IF pools[i].tokens = {sell, buy} THEN <<pools[i]>> ELSE <<>>]
    <2>1. PICK n \in Nat : DOMAIN pools = 1..n
      BY <1>5, PoolsAssumption
    <2>2. \A i \in 1..n : ss[i] = <<>> \/ \E x \in S : ss[i] = <<x>>
      BY <2>1 DEF Range
    <2>3. ss = [i \in 1..n |-> ss[i]]
      BY <2>1
    <2>4. CachedForPair(s, sell, buy) = FlattenSeq(ss)
      BY DEF CachedForPair, Select
    <2>. HIDE DEF ss, S
    <2>5. FlattenSeq(ss) \in Seq(S)
      BY <1>1, <2>2, <2>3
    <2>. QED
      BY <2>4, <2>5
  <1>. QED
    BY <1>2, <1>3, <1>4, <1>5

\* One call per pool of a list.
LEMMA SuitPools ==
  ASSUME NEW side, NEW s \in Bridged, NEW name, NEW pools \in Seq(Nat),
         NEW sell \in Tokens, NEW buy \in Tokens, NEW fields, Encodes(s, fields)
  PROVE  AllSuit(AtPools(side, s, name, pools, <<sell, buy>>, fields), sell, buy)
  <1>. DEFINE calls == AtPools(side, s, name, pools, <<sell, buy>>, fields)
              place(k) == <<s, pools[k]>>
  <1>1. PICK n \in Nat : DOMAIN pools = 1..n
    OBVIOUS
  <1>2. calls = [k \in 1..n |-> Operation(s, <<side, name>>, place(k), <<sell, buy>>, fields, {})]
    BY <1>1 DEF AtPools
  <1>3. Encodes(s, fields \union {})
    <2>1. fields \union {} = fields
      OBVIOUS
    <2>. QED BY <2>1
  <1>4. ASSUME NEW k \in 1..n PROVE Suits(calls[k], sell, buy)
    <2>. HIDE DEF place
    <2>1. calls[k] = Operation(s, <<side, name>>, place(k), <<sell, buy>>, fields, {})
      BY <1>2
    <2>2. Suits(Operation(s, <<side, name>>, place(k), <<sell, buy>>, fields, {}), sell, buy)
      BY <1>3, SuitPair
    <2>. QED
      BY <2>1, <2>2
  <1>5. calls = [k \in 1..n |-> calls[k]]
    BY <1>2
  <1>. HIDE DEF calls
  <1>6. AllSuit(calls, sell, buy)
    BY <1>4, <1>5, SuitEach
  <1>. QED
    BY <1>6 DEF calls

\* The operations at listed pools.
LEMMA PoolSuits ==
  ASSUME NEW side, NEW chain, NEW s \in Pooled, NEW sell \in Tokens, NEW buy \in Tokens
  PROVE  AllSuit(ByPool(side, chain, s, sell, buy), sell, buy)
  <1>1. Pooled = CurveLike \union {"Smoothy", "Shell", "Component", "MStable",
                                   "LiquidityProvider"}
    BY DEF Pooled, ListedChains, CurveLike
  <1>2. s \in Bridged
    BY <1>1 DEF Bridged, BridgeSource, CurveLike
  <1>3. ASSUME NEW name, NEW pools \in Seq(Nat), NEW fields, Encodes(s, fields),
               ByPool(side, chain, s, sell, buy)
                 = AtPools(side, s, name, pools, <<sell, buy>>, fields)
        PROVE  AllSuit(ByPool(side, chain, s, sell, buy), sell, buy)
    BY <1>2, <1>3, SuitPools
  <1>4. CASE s \in CurveLike \union {"Smoothy"}
    <2>1. s \in CurveBridges
      BY <1>4 DEF CurveLike, CurveBridges
    <2>2. Encodes(s, {"pool"})
      BY <2>1, Encodings
    <2>3. PICK name : ByPool(side, chain, s, sell, buy)
                        = AtPools(side, s, name, FindCurveLike(s, chain, sell, buy),
                                  <<sell, buy>>, {"pool"})
      BY <1>4 DEF ByPool, CurveLike
    <2>4. FindCurveLike(s, chain, sell, buy) \in Seq(Nat)
      BY PoolsFound
    <2>. QED
      BY <1>3, <2>2, <2>3, <2>4
  <1>5. CASE s \in {"Shell", "Component"}
    <2>1. Encodes(s, {"poolAddress"})
      BY <1>5, Encodings
    <2>2. ByPool(side, chain, s, sell, buy)
            = AtPools(side, s, "Shell", FindShellLike(s, chain, sell, buy),
                      <<sell, buy>>, {"poolAddress"})
      BY <1>5 DEF ByPool, CurveLike
    <2>. QED
      BY <1>3, <2>1, <2>2, PoolsFound
  <1>6. CASE s = "MStable"
    <2>1. Encodes(s, {"router"})
      BY <1>6, Encodings
    <2>2. ByPool(side, chain, s, sell, buy)
            = AtPools(side, s, "MStable", FindShellLike(s, chain, sell, buy),
                      <<sell, buy>>, {"router"})
      BY <1>6 DEF ByPool, CurveLike
    <2>. QED
      BY <1>3, <2>1, <2>2, PoolsFound
  <1>7. CASE s = "LiquidityProvider"
    <2>1. Encodes(s, {"poolAddress", "gasCost"})
      BY <1>7, Encodings
    <2>2. CASE chain \in PoolChains[s]
      <3>1. ByPool(side, chain, s, sell, buy)
              = AtPools(side, s, "LiquidityProvider",
                        ProvidersOf(sell, buy),
                        <<sell, buy>>, {"poolAddress", "gasCost"})
        BY <1>7, <2>2 DEF ByPool, CurveLike, ProvidersOf
      <3>. QED
        BY <1>3, <2>1, <3>1, PoolsFound
    <2>3. CASE chain \notin PoolChains[s]
      <3>1. ByPool(side, chain, s, sell, buy) = <<>>
        BY <1>7, <2>3 DEF ByPool, CurveLike
      <3>. QED
        BY <3>1, SuitFew
    <2>. QED
      BY <2>2, <2>3
  <1>. QED
    BY <1>1, <1>4, <1>5, <1>6, <1>7

\* One call per number up to n.
CallsAt(s, n, method, places, pair, fields, decoded) ==
  [k \in 1..n |-> Operation(s, method, places[k], pair, fields, decoded)]

\* Such calls, all for the pair in one of its forms.
LEMMA SuitPairs ==
  ASSUME NEW s \in Bridged, NEW n \in Nat, NEW method, NEW places, NEW pair,
         NEW fields, NEW decoded, NEW sell \in Tokens, NEW buy \in Tokens,
         pair = <<sell, buy>> \/ pair = <<Native(sell), Native(buy)>>,
         Encodes(s, fields \union decoded)
  PROVE  AllSuit(CallsAt(s, n, method, places, pair, fields, decoded), sell, buy)
  <1>. DEFINE calls == CallsAt(s, n, method, places, pair, fields, decoded)
  <1>1. ASSUME NEW k \in 1..n PROVE Suits(calls[k], sell, buy)
    <2>1. calls[k] = Operation(s, method, places[k], pair, fields, decoded)
      BY DEF CallsAt
    <2>2. Suits(Operation(s, method, places[k], pair, fields, decoded), sell, buy)
      BY SuitPair
    <2>. QED
      BY <2>1, <2>2
  <1>2. calls = [k \in 1..n |-> calls[k]]
    BY DEF CallsAt
  <1>. HIDE DEF calls
  <1>3. AllSuit(calls, sell, buy)
    BY <1>1, <1>2, SuitEach
  <1>. QED
    BY <1>3 DEF calls

\* The operations of the cached pools, the registries and the factories.
LEMMA RegistrySuits ==
  ASSUME NEW side, NEW chain, NEW s \in Registered, NEW sell \in Tokens, NEW buy \in Tokens
  PROVE  AllSuit(ByRegistry(side, chain, s, sell, buy), sell, buy)
  <1>. DEFINE calls == ByRegistry(side, chain, s, sell, buy)
              pools == CachedForPair(s, sell, buy)
              pair == <<sell, buy>>
              native == <<Native(sell), Native(buy)>>
              cached(name, fields) ==
                [k \in DOMAIN pools |->
                   Operation(s, <<side, name>>, <<pools[k].pool, 0>>, pair, fields, {})]
  <1>1. s \in Bridged
    BY DEF Registered, Bridged, BridgeSource
  <1>2. ASSUME NEW fields, NEW name, Encodes(s, fields), calls = cached(name, fields),
               s \in {"Balancer", "BalancerV2", "Cream"}
        PROVE  AllSuit(calls, sell, buy)
    <2>1. PICK S : pools \in Seq(S)
      BY <1>2, PoolsFound
    <2>2. PICK n \in Nat : DOMAIN pools = 1..n
      BY <2>1
    <2>. DEFINE places == [k \in 1..n |-> <<pools[k].pool, 0>>]
    <2>3. calls = CallsAt(s, n, <<side, name>>, places, pair, fields, {})
      BY <1>2, <2>2 DEF CallsAt
    <2>4. Encodes(s, fields \union {})
      <3>1. fields \union {} = fields
        OBVIOUS
      <3>. QED BY <1>2, <3>1
    <2>. HIDE DEF calls, places
    <2>. QED
      BY <1>1, <2>3, <2>4, SuitPairs
  <1>3. CASE s \in {"Balancer", "Cream"}
    <2>1. calls = cached("Balancer", {"poolAddress"})
      BY <1>3 DEF ByRegistry
    <2>2. Encodes(s, {"poolAddress"})
      BY <1>3, Encodings
    <2>. QED
      BY <1>2, <1>3, <2>1, <2>2
  <1>4. CASE s = "BalancerV2"
    <2>1. Encodes(s, {"poolId", "vault"})
      BY <1>4, Encodings
    <2>2. CASE chain \in PoolChains[s]
      <3>1. calls = cached("BalancerV2", {"poolId", "vault"})
        BY <1>4, <2>2 DEF ByRegistry
      <3>. QED
        BY <1>2, <1>4, <2>1, <3>1
    <2>3. CASE chain \notin PoolChains[s]
      BY <1>4, <2>3, SuitFew DEF ByRegistry
    <2>. QED
      BY <2>2, <2>3
  <1>5. CASE s = "Mooniswap"
    <2>. DEFINE n == IF chain \in PoolChains[s] THEN MooniswapRegistries(chain) ELSE 0
                places == [k \in 1..n |-> <<s, k>>]
    <2>1. n \in Nat
      BY DEF MooniswapRegistries
    <2>2. calls = [k \in 1..n |-> Operation(s, <<side, "Mooniswap">>, <<s, k>>, native,
                                            {}, {"poolAddress"})]
      BY <1>5 DEF ByRegistry
    <2>. HIDE DEF n, calls
    <2>3. calls = CallsAt(s, n, <<side, "Mooniswap">>, places, native, {}, {"poolAddress"})
      BY <2>2 DEF CallsAt
    <2>4. Encodes(s, {} \union {"poolAddress"})
      BY <1>5, Encodings
    <2>. HIDE DEF places
    <2>. QED
      BY <1>1, <2>1, <2>3, <2>4, SuitPairs DEF calls
  <1>6. CASE s = "Dodo"
    <2>. DEFINE told == {"isSellBase", "poolAddress"}
    <2>1. CASE chain \in PoolChains[s]
      <3>1. calls = <<Operation(s, <<side, "DODO">>, <<s, 0>>, pair, {"helperAddress"}, told)>>
        BY <1>6, <2>1 DEF ByRegistry
      <3>2. Encodes(s, {"helperAddress"} \union told)
        BY <1>6, Encodings
      <3>. QED
        BY <1>1, <3>1, <3>2, SuitPair, SuitFew
    <2>2. CASE chain \notin PoolChains[s]
      BY <1>6, <2>2, SuitFew DEF ByRegistry
    <2>. QED
      BY <2>1, <2>2
  <1>7. CASE s = "DodoV2"
    <2>. DEFINE told == {"isSellBase", "poolAddress"}
                n == IF chain \in PoolChains[s]
                     THEN DodoV2Factories * DODO_V2_MAX_POOLS_QUERIED ELSE 0
                places == [k \in 1..n |-> <<s, k>>]
    <2>1. n \in Nat
      BY DEF DodoV2Factories, DODO_V2_MAX_POOLS_QUERIED
    <2>2. calls = [k \in 1..n |-> Operation(s, <<side, "DODOV2">>, <<s, k>>, pair, {}, told)]
      BY <1>7 DEF ByRegistry
    <2>. HIDE DEF n, calls
    <2>3. calls = CallsAt(s, n, <<side, "DODOV2">>, places, pair, {}, told)
      BY <2>2 DEF CallsAt
    <2>4. Encodes(s, {} \union told)
      BY <1>7, Encodings
    <2>. HIDE DEF places
    <2>. QED
      BY <1>1, <2>1, <2>3, <2>4, SuitPairs DEF calls
  <1>. QED
    BY <1>3, <1>4, <1>5, <1>6, <1>7 DEF Registered

\* The operations of the sources with rules of their own.
LEMMA ConfigSuits ==
  ASSUME NEW side, NEW chain, NEW s \in {"Bancor", "MultiHop", "Linkswap", "MakerPsm", "Lido",
                                         "Clipper"},
         NEW sell \in Tokens, NEW buy \in Tokens
  PROVE  AllSuit(ByConfig(side, chain, s, sell, buy), sell, buy)
  <1>. DEFINE calls == ByConfig(side, chain, s, sell, buy)
              call(name, path, fields) ==
                Operation(s, <<side, name>>, <<s, 0>>, path, fields, {})
              none == s \in {"Bancor", "MultiHop"} \/ chain \notin PoolChains[s]
  <1>1. CASE none
    <2>1. calls = <<>>
      BY <1>1 DEF ByConfig
    <2>. QED
      BY <2>1, SuitFew
  <1>2. ASSUME ~none PROVE s \in Bridged
    BY <1>2 DEF Bridged, BridgeSource
  <1>3. ASSUME NEW name, NEW pair, NEW fields, ~none,
               pair = <<sell, buy>> \/ pair = <<Native(sell), Native(buy)>>,
               Encodes(s, fields), calls = <<call(name, pair, fields)>>
        PROVE  AllSuit(calls, sell, buy)
    <2>1. Encodes(s, fields \union {})
      <3>1. fields \union {} = fields
        OBVIOUS
      <3>. QED BY <1>3, <3>1
    <2>2. Suits(call(name, pair, fields), sell, buy)
      BY <1>2, <1>3, <2>1, SuitPair
    <2>. QED
      BY <1>3, <2>2, SuitFew
  <1>4. CASE s = "Linkswap" /\ ~none
    <2>. DEFINE ends == <<Link, Wrapped>>
                T == Tokens \ {sell, buy}
                via == Select(ends, LAMBDA t : t \notin {sell, buy})
                kept == [i \in DOMAIN ends |-> IF ends[i] \in T THEN <<ends[i]>> ELSE <<>>]
                paths == Paths(sell, buy, via)
                fields == {"router", "tokenAddressPath"}
    <2>1. via \in Seq(Tokens)
      <3>1. ends \in Seq(Tokens) /\ DOMAIN ends = 1..2
        BY TokensAssumption
      <3>2. via = FlattenSeq([i \in DOMAIN ends |->
                                IF ends[i] \notin {sell, buy} THEN <<ends[i]>> ELSE <<>>])
        BY DEF Select
      <3>. HIDE DEF ends, via
      <3>3. \A i \in DOMAIN ends : ends[i] \notin {sell, buy} <=> ends[i] \in T
        BY <3>1
      <3>4. via = FlattenSeq(kept)
        BY <3>2, <3>3
      <3>5. FlattenSeq(kept) \in Seq(Tokens \intersect T)
        BY <3>1, SelectFacts
      <3>6. Tokens \intersect T \subseteq Tokens
        OBVIOUS
      <3>. QED
        BY <3>4, <3>5, <3>6
    <2>2. calls = [i \in DOMAIN paths |-> call("UniswapV2", paths[i], fields)]
      BY <1>4 DEF ByConfig
    <2>. HIDE DEF via, calls
    <2>3. PICK n \in Nat : DOMAIN paths = 1..n
      BY <2>1, PathEnds
    <2>4. \A i \in 1..n : /\ paths[i] \in Seq(Tokens) /\ Len(paths[i]) \in {2, 3}
                          /\ paths[i][1] = sell /\ paths[i][Len(paths[i])] = buy
      BY <2>1, <2>3, PathEnds
    <2>5. Encodes(s, fields \union {})
      <3>1. s \in UniswapV2Bridges
        BY <1>4 DEF UniswapV2Bridges
      <3>. QED BY <3>1, Encodings
    <2>6. \A i \in 1..n : Suits(call("UniswapV2", paths[i], fields), sell, buy)
      BY <1>2, <1>4, <2>4, <2>5, SuitCall
    <2>. HIDE DEF paths
    <2>7. \A i \in 1..n : Suits(calls[i], sell, buy)
      BY <2>2, <2>3, <2>6
    <2>8. calls = [i \in 1..n |-> calls[i]]
      BY <2>2, <2>3
    <2>9. AllSuit(calls, sell, buy)
      BY <2>7, <2>8, SuitEach
    <2>. QED
      BY <2>9 DEF calls
  <1>5. CASE s = "MakerPsm" /\ ~none
    <2>. DEFINE fields == {"psmAddress", "ilkIdentifier", "gemTokenAddress",
                           "isSellOperation", "sellToken", "buyToken"}
    <2>1. calls = <<call("MakerPsm", <<sell, buy>>, fields)>>
      BY <1>5 DEF ByConfig
    <2>2. Encodes(s, fields)
      BY <1>5, Encodings
    <2>. QED
      BY <1>3, <1>5, <2>1, <2>2
  <1>6. CASE s = "Lido" /\ ~none
    <2>. DEFINE fields == {"stEthTokenAddress", "wstEthTokenAddress", "sellToken", "buyToken"}
    <2>1. Encodes(s, fields)
      BY <1>6, Encodings
    <2>2. CASE sell = Wrapped /\ buy = StEth
      <3>1. calls = <<call("Lido", <<sell, buy>>, fields)>>
        BY <1>6, <2>2 DEF ByConfig
      <3>. QED
        BY <1>3, <1>6, <2>1, <3>1
    <2>3. CASE ~(sell = Wrapped /\ buy = StEth)
      BY <1>6, <2>3, SuitFew DEF ByConfig
    <2>. QED
      BY <2>2, <2>3
  <1>7. CASE s = "Clipper" /\ ~none
    <2>. DEFINE fields == {"poolAddress", "gasCost"}
    <2>1. Encodes(s, fields)
      BY <1>7, Encodings
    <2>2. CASE {sell, buy} \subseteq ClipperTokens
      <3>1. calls = <<call("LiquidityProvider", <<Native(sell), Native(buy)>>, fields)>>
        BY <1>7, <2>2 DEF ByConfig
      <3>. QED
        BY <1>3, <1>7, <2>1, <3>1
    <2>3. CASE ~({sell, buy} \subseteq ClipperTokens)
      BY <1>7, <2>3, SuitFew DEF ByConfig
    <2>. QED
      BY <2>2, <2>3
  <1>. QED
    BY <1>1, <1>4, <1>5, <1>6, <1>7

\* Lists of calls that suit make one list that does.
LEMMA SuitFlat ==
  ASSUME NEW n \in Nat, NEW ss, NEW sell, NEW buy,
         ss = [i \in 1..n |-> ss[i]], \A i \in 1..n : AllSuit(ss[i], sell, buy)
  PROVE  AllSuit(FlattenSeq(ss), sell, buy)
  <1>. DEFINE U == UNION {{ss[i][k] : k \in 1..Len(ss[i])} : i \in 1..n}
              flat == FlattenSeq(ss)
  <1>1. ASSUME NEW i \in 1..n PROVE ss[i] \in Seq(U)
    <2>1. PICK S : ss[i] \in Seq(S)
      BY DEF AllSuit
    <2>2. DOMAIN ss[i] = 1..Len(ss[i]) /\ Len(ss[i]) \in Nat
      BY <2>1
    <2>3. \A k \in 1..Len(ss[i]) : ss[i][k] \in U
      OBVIOUS
    <2>. HIDE DEF U
    <2>4. ss[i] = [k \in 1..Len(ss[i]) |-> ss[i][k]]
      BY <2>1
    <2>. QED
      BY <2>2, <2>3, <2>4
  <1>. HIDE DEF U
  <1>2. ss \in Seq(Seq(U)) /\ Len(ss) = n
    BY <1>1
  <1>3. flat \in Seq(U)
    BY <1>2, Flattened
  <1>4. ASSUME NEW k \in 1..Len(flat) PROVE Suits(flat[k], sell, buy)
    <2>1. PICK i \in 1..Len(ss) : \E j \in 1..Len(ss[i]) : flat[k] = ss[i][j]
      BY <1>2, FlattenSame, F!FlattenFrom
    <2>2. PICK j \in 1..Len(ss[i]) : flat[k] = ss[i][j]
      BY <2>1
    <2>. QED
      BY <1>2, <2>2 DEF AllSuit
  <1>. HIDE DEF flat
  <1>5. AllSuit(flat, sell, buy)
    BY <1>3, <1>4 DEF AllSuit
  <1>. QED
    BY <1>5 DEF flat

\* The four groups of sources are all that is asked.
LEMMA AskedGroups ==
  ASSUME NEW s \in Asked, s \notin DOMAIN RouterChains, s \notin Pooled, s \notin Registered
  PROVE  s \in {"Bancor", "MultiHop", "Linkswap", "MakerPsm", "Lido", "Clipper"}
  BY DEF Asked, BridgeSource, RouterChains, Pooled, ListedChains, Registered

\* Neither switch throws, and all its operations suit the pair.
THEOREM OperationsSuit ==
  ASSUME NEW chain, NEW sources \in Seq(Asked), NEW sell \in Tokens, NEW buy \in Tokens,
         NEW via \in Seq(Tokens)
  PROVE  /\ AllSuit(SellQuoteOperations(chain, sources, sell, buy, via), sell, buy)
         /\ AllSuit(BuyQuoteOperations(chain, sources, sell, buy, via), sell, buy)
  <1>. DEFINE bad(s) == s \in DOMAIN BadTokens /\ BadTokens[s] \intersect {sell, buy} # {}
              asked(side, s) ==
                CASE s \in DOMAIN RouterChains -> ByRouter(side, chain, s, sell, buy, via)
                  [] s \in Pooled -> ByPool(side, chain, s, sell, buy)
                  [] s \in Registered -> ByRegistry(side, chain, s, sell, buy)
                  [] OTHER -> ByConfig(side, chain, s, sell, buy)
              sold == [i \in DOMAIN sources |->
                         IF bad(sources[i]) THEN <<>> ELSE asked("Sell", sources[i])]
              bought == [i \in DOMAIN sources |-> asked("Buy", sources[i])]
  <1>1. ASSUME NEW side, NEW s \in Asked PROVE AllSuit(asked(side, s), sell, buy)
    <2>1. DOMAIN RouterChains \intersect Pooled = {}
          /\ DOMAIN RouterChains \intersect Registered = {} /\ Pooled \intersect Registered = {}
      BY DEF RouterChains, Pooled, ListedChains, Registered
    <2>2. CASE s \in DOMAIN RouterChains
      <3>1. asked(side, s) = ByRouter(side, chain, s, sell, buy, via)
        BY <2>1, <2>2
      <3>. QED BY <2>2, <3>1, RouterSuits
    <2>3. CASE s \in Pooled
      <3>1. asked(side, s) = ByPool(side, chain, s, sell, buy)
        BY <2>1, <2>3
      <3>. QED BY <2>3, <3>1, PoolSuits
    <2>4. CASE s \in Registered
      <3>1. asked(side, s) = ByRegistry(side, chain, s, sell, buy)
        BY <2>1, <2>4
      <3>. QED BY <2>4, <3>1, RegistrySuits
    <2>5. CASE s \notin DOMAIN RouterChains /\ s \notin Pooled /\ s \notin Registered
      <3>1. asked(side, s) = ByConfig(side, chain, s, sell, buy)
        BY <2>5
      <3>. QED BY <2>5, <3>1, AskedGroups, ConfigSuits
    <2>. QED
      BY <2>2, <2>3, <2>4, <2>5
  <1>2. PICK n \in Nat : DOMAIN sources = 1..n
    OBVIOUS
  <1>3. \A i \in 1..n : sources[i] \in Asked
    BY <1>2
  <1>. HIDE DEF asked, bad
  <1>4. SellQuoteOperations(chain, sources, sell, buy, via) = FlattenSeq(sold)
    BY DEF SellQuoteOperations, asked, bad
  <1>5. BuyQuoteOperations(chain, sources, sell, buy, via) = FlattenSeq(bought)
    BY DEF BuyQuoteOperations, BuyByRouter, BuyByPool, BuyByRegistry, BuyByConfig, asked
  <1>6. AllSuit(FlattenSeq(sold), sell, buy)
    <2>1. \A i \in 1..n : AllSuit(sold[i], sell, buy)
      BY <1>1, <1>2, <1>3, SuitFew
    <2>2. sold = [i \in 1..n |-> sold[i]]
      BY <1>2
    <2>. HIDE DEF sold
    <2>. QED
      BY <2>1, <2>2, SuitFlat
  <1>7. AllSuit(FlattenSeq(bought), sell, buy)
    <2>1. \A i \in 1..n : AllSuit(bought[i], sell, buy)
      BY <1>1, <1>2, <1>3
    <2>2. bought = [i \in 1..n |-> bought[i]]
      BY <1>2
    <2>. HIDE DEF bought
    <2>. QED
      BY <2>1, <2>2, SuitFlat
  <1>. QED
    BY <1>4, <1>5, <1>6, <1>7

\* A filter of sources leaves sources.
LEMMA SourcesOfRequest ==
  ASSUME NEW list \in Seq(Asked), NEW excluded
  PROVE  GetSources(list, excluded) \in Seq(Asked)
  <1>. DEFINE T == Asked \ excluded
              kept == [i \in DOMAIN list |-> IF list[i] \in T THEN <<list[i]>> ELSE <<>>]
  <1>1. GetSources(list, excluded)
          = FlattenSeq([i \in DOMAIN list |->
                          IF list[i] \notin excluded THEN <<list[i]>> ELSE <<>>])
    BY DEF GetSources, Select
  <1>. HIDE DEF Asked
  <1>2. \A i \in DOMAIN list : list[i] \notin excluded <=> list[i] \in T
    OBVIOUS
  <1>3. GetSources(list, excluded) = FlattenSeq(kept)
    BY <1>1, <1>2
  <1>4. FlattenSeq(kept) \in Seq(Asked \intersect T)
    BY SelectFacts
  <1>5. Asked \intersect T \subseteq Asked
    OBVIOUS
  <1>. QED
    BY <1>3, <1>4, <1>5

-----------------------------------------------------------------------------
(* The samples *)

\* A sample goes from one of the tokens to the other, and the order made of it can be
\* encoded.
Sampled(x, sell, buy) ==
  /\ x.reserve \in {"allowed", "banned"}
  /\ x.source \in Bridged
  /\ x.tokens \in Seq(Tokens) /\ Len(x.tokens) \in {2, 3}
  /\ x.tokens[1] \in {sell, Native(sell)}
  /\ x.tokens[Len(x.tokens)] \in {buy, Native(buy)}
  /\ Encodes(x.source, x.fields)

AllSampled(samples, sell, buy) ==
  /\ \E S : samples \in Seq(S)
  /\ \A i \in 1..Len(samples) : Sampled(samples[i], sell, buy)

\* The two samples of a two-hop quote meet between the tokens of the request.
HopsSampled(q, sell, buy) ==
  /\ q.via \in Tokens \ {sell, buy}
  /\ Sampled(q.first, sell, q.via) /\ Sampled(q.second, q.via, buy)

\* The callback of a call that suits adds what its sample lacks.
LEMMA SampleOfCall ==
  ASSUME NEW c, NEW sell, NEW buy, Suits(c, sell, buy),
         NEW reserve \in {"allowed", "banned"}
  PROVE  Sampled(Sample(c, reserve), sell, buy)
  BY DEF Suits, Sampled, Sample

\* Whichever calls fail, the samples of the others suit the pair.
LEMMA OutcomesSampled ==
  ASSUME NEW calls, NEW sell, NEW buy, AllSuit(calls, sell, buy),
         NEW samples \in QuoteOutcomes(calls)
  PROVE  AllSampled(samples, sell, buy)
  <1>1. PICK lost : samples = FlattenSeq([i \in DOMAIN calls |->
                                 IF i \in lost THEN <<>> ELSE <<Sample(calls[i], "allowed")>>])
    BY DEF QuoteOutcomes
  <1>. DEFINE ss == [i \in DOMAIN calls |->
                       IF i \in lost THEN <<>> ELSE <<Sample(calls[i], "allowed")>>]
              U == {Sample(calls[i], "allowed") : i \in DOMAIN calls}
  <1>2. DOMAIN calls = 1..Len(calls) /\ Len(calls) \in Nat
    BY DEF AllSuit
  <1>3. ASSUME NEW i \in DOMAIN calls PROVE ss[i] \in Seq(U)
    <2>. DEFINE x == Sample(calls[i], "allowed")
    <2>1. x \in U
      OBVIOUS
    <2>. HIDE DEF x, U
    <2>2. <<x>> \in Seq(U) /\ <<>> \in Seq(U)
      BY <2>1
    <2>3. ss[i] = <<x>> \/ ss[i] = <<>>
      BY DEF x
    <2>. QED
      BY <2>2, <2>3
  <1>4. \A x \in U : Sampled(x, sell, buy)
    BY <1>2, SampleOfCall DEF AllSuit
  <1>5. ss \in Seq(Seq(U))
    BY <1>2, <1>3
  <1>. HIDE DEF U, ss
  <1>6. samples = FlattenSeq(ss)
    BY <1>1 DEF ss
  <1>7. samples \in Seq(U)
    BY <1>5, <1>6, Flattened
  <1>8. \A i \in 1..Len(samples) : samples[i] \in U
    BY <1>7
  <1>. QED
    BY <1>4, <1>7, <1>8 DEF AllSampled

HopSuits(hop, sell, buy) ==
  /\ hop.via \in Tokens \ {sell, buy}
  /\ AllSuit(hop.first, sell, hop.via) /\ AllSuit(hop.second, hop.via, buy)

\* The contract chooses a call of each hop, or none of either.
LEMMA HopSampled ==
  ASSUME NEW hop, NEW sell, NEW buy, HopSuits(hop, sell, buy),
         NEW new \in TwoHopSamples(hop)
  PROVE  new = <<>> \/ \E q : new = <<q>> /\ HopsSampled(q, sell, buy)
  <1>. SUFFICES ASSUME new # <<>>
                PROVE  \E q : new = <<q>> /\ HopsSampled(q, sell, buy)
    OBVIOUS
  <1>. DEFINE pairs(i, j) ==
                {<<[via |-> hop.via, first |-> Sample(hop.first[i], r1),
                    second |-> Sample(hop.second[j], r2)]>> :
                   r1 \in Reserves(hop.first[i]), r2 \in Reserves(hop.second[j])}
  <1>0. TwoHopSamples(hop)
          = {<<>>} \union
            UNION {pairs(i, j) : i \in DOMAIN hop.first, j \in DOMAIN hop.second}
    BY DEF TwoHopSamples
  <1>. HIDE DEF pairs
  <1>1. PICK i \in DOMAIN hop.first, j \in DOMAIN hop.second : new \in pairs(i, j)
    BY <1>0
  <1>2. PICK r1 \in Reserves(hop.first[i]), r2 \in Reserves(hop.second[j]) :
          new = <<[via |-> hop.via, first |-> Sample(hop.first[i], r1),
                   second |-> Sample(hop.second[j], r2)]>>
    BY <1>1 DEF pairs
  <1>. DEFINE x == Sample(hop.first[i], r1)
              y == Sample(hop.second[j], r2)
  <1>3. r1 \in {"allowed", "banned"} /\ r2 \in {"allowed", "banned"}
    BY DEF Reserves
  <1>4. i \in 1..Len(hop.first) /\ j \in 1..Len(hop.second)
    BY DEF HopSuits, AllSuit
  <1>5. Suits(hop.first[i], sell, hop.via) /\ Suits(hop.second[j], hop.via, buy)
    BY <1>4 DEF HopSuits, AllSuit
  <1>6. Sampled(x, sell, hop.via) /\ Sampled(y, hop.via, buy)
    BY <1>3, <1>5, SampleOfCall
  <1>. HIDE DEF x, y
  <1>. DEFINE q == [via |-> hop.via, first |-> x, second |-> y]
  <1>7. HopsSampled(q, sell, buy)
    BY <1>6 DEF HopsSampled, HopSuits
  <1>8. new = <<q>>
    BY <1>2 DEF x, y
  <1>. QED
    BY <1>7, <1>8

\* The quotes of all the hops that were asked are quotes of the request.
LEMMA TwoHopsSampled ==
  ASSUME NEW hops, NEW n \in Nat, DOMAIN hops = 1..n, hops = [i \in 1..n |-> hops[i]],
         NEW sell, NEW buy, \A i \in 1..n : HopSuits(hops[i], sell, buy),
         NEW quotes \in TwoHopOutcomes(hops)
  PROVE  /\ \E S : quotes \in Seq(S)
         /\ \A i \in DOMAIN quotes : HopsSampled(quotes[i], sell, buy)
  <1>. DEFINE H == {hops[i] : i \in 1..n}
              U == UNION {UNION {{new[1]} : new \in TwoHopSamples(hop) \ {<<>>}} : hop \in H}
              Q == {q \in U : HopsSampled(q, sell, buy)}
              T == SUBSET Seq(Q)
  <1>1. hops \in Seq(H)
    OBVIOUS
  <1>2. {<<>>} \in T
    OBVIOUS
  <1>3. ASSUME NEW hop \in H, NEW new \in TwoHopSamples(hop) PROVE new \in Seq(Q)
    <2>1. HopSuits(hop, sell, buy)
      OBVIOUS
    <2>2. CASE new = <<>>
      BY <2>2
    <2>3. CASE new # <<>>
      <3>1. PICK q : new = <<q>> /\ HopsSampled(q, sell, buy)
        BY <2>1, <2>3, HopSampled
      <3>2. new[1] = q
        BY <3>1
      <3>3. q \in U
        BY <2>3, <3>2
      <3>4. q \in Q
        BY <3>1, <3>3
      <3>. HIDE DEF Q
      <3>. QED
        BY <3>1, <3>4
    <2>. QED
      BY <2>2, <2>3
  <1>. HIDE DEF Q, H
  <1>4. \A qs \in T, hop \in H : AddHop(qs, hop) \in T
    <2>. SUFFICES ASSUME NEW qs \in T, NEW hop \in H, NEW both \in AddHop(qs, hop)
                  PROVE  both \in Seq(Q)
      OBVIOUS
    <2>1. PICK q \in qs, new \in TwoHopSamples(hop) : both = q \o new
      BY DEF AddHop
    <2>2. q \in Seq(Q) /\ new \in Seq(Q)
      BY <1>3
    <2>. QED
      BY <2>1, <2>2
  <1>. HIDE DEF T
  <1>5. TwoHopOutcomes(hops) = F!Fold(hops)
    BY DEF TwoHopOutcomes, FoldLeft, MapThenFoldSet, Max, F!Fold, F!FoldLeft,
           F!MapThenFoldSet, F!Max
  <1>6. F!Fold(hops) \in T
    BY <1>1, <1>2, <1>4, F!FoldType
  <1>7. quotes \in Seq(Q)
    BY <1>5, <1>6 DEF T
  <1>8. \A i \in DOMAIN quotes : quotes[i] \in Q
    BY <1>7
  <1>. QED
    BY <1>7, <1>8 DEF Q

-----------------------------------------------------------------------------
(* What the operations of a request are decoded to *)

\* What an operation may be decoded to, whether its call returned or not.
IsDecodingOf(op, value) ==
  \E success \in BOOLEAN : \E d \in Decodings(op, success) : value = d.value

\* The samples of a request are those of calls between its tokens.
LEMMA SamplesOfRequest ==
  ASSUME NEW r \in Requests, NEW samples, IsDecodingOf(QuotesOperation(r), samples)
  PROVE  AllSampled(samples, r.sell, r.buy)
  <1>. DEFINE op == QuotesOperation(r)
              sources == QuoteSources(r.side, r.chain, r.excluded)
              via == IntermediateTokens(r.sell, r.buy)
  <1>1. op.kind = "quotes"
    BY DEF QuotesOperation
  <1>2. op.calls = SellQuoteOperations(r.chain, sources, r.sell, r.buy, via)
        \/ op.calls = BuyQuoteOperations(r.chain, sources, r.sell, r.buy, via)
    BY DEF QuotesOperation
  <1>3. r.sell \in Tokens /\ r.buy \in Tokens
    BY RequestsAssumption
  <1>4. sources \in Seq(Asked)
    BY ListsOfAsked, SourcesOfRequest DEF QuoteSources
  <1>5. via \in Seq(Tokens)
    <2>1. via \in Seq(Tokens \ {r.sell, r.buy})
      BY IntermediateFacts
    <2>. HIDE DEF via
    <2>. QED BY <2>1
  <1>. HIDE DEF op, sources, via
  <1>6. AllSuit(op.calls, r.sell, r.buy)
    BY <1>2, <1>3, <1>4, <1>5, OperationsSuit
  <1>7. samples = <<>> \/ samples \in QuoteOutcomes(op.calls)
    <2>1. PICK success \in BOOLEAN : \E d \in Decodings(op, success) : samples = d.value
      BY DEF IsDecodingOf, op
    <2>2. PICK d \in Decodings(op, success) : samples = d.value
      BY <2>1
    <2>3. CASE success
      <3>1. d \in {[read |-> <<>>, value |-> x] : x \in QuoteOutcomes(op.calls)}
        BY <1>1, <2>3 DEF Decodings
      <3>. QED
        BY <2>2, <3>1
    <2>4. CASE ~success
      <3>1. d = [read |-> <<>>, value |-> <<>>]
        BY <1>1, <2>4 DEF Decodings
      <3>. QED
        BY <2>2, <3>1
    <2>. QED
      BY <2>3, <2>4
  <1>8. AllSampled(<<>>, r.sell, r.buy)
    BY DEF AllSampled
  <1>. QED
    BY <1>6, <1>7, <1>8, OutcomesSampled

\* Each hop of a request has calls of its own, from and to the token in between.
LEMMA HopsOfRequest ==
  ASSUME NEW r \in Requests, NEW sources \in Seq(Asked)
  PROVE  LET hops == Hops(r, sources)
         IN  \E n \in Nat : /\ DOMAIN hops = 1..n /\ hops = [i \in 1..n |-> hops[i]]
                            /\ \A i \in 1..n : HopSuits(hops[i], r.sell, r.buy)
  <1>. DEFINE via == IntermediateTokens(r.sell, r.buy)
              hops == Hops(r, sources)
              hop(t) == [via    |-> t,
                         first  |-> SellQuoteOperations(r.chain, sources, r.sell, t, <<>>),
                         second |-> SellQuoteOperations(r.chain, sources, t, r.buy, <<>>)]
  <1>1. hops = [i \in DOMAIN via |-> hop(via[i])]
    BY DEF Hops
  <1>2. via \in Seq(Tokens \ {r.sell, r.buy})
    BY IntermediateFacts
  <1>. HIDE DEF via, hops
  <1>3. PICK n \in Nat : DOMAIN via = 1..n
    BY <1>2
  <1>4. ASSUME NEW t \in Tokens \ {r.sell, r.buy} PROVE HopSuits(hop(t), r.sell, r.buy)
    <2>1. r.sell \in Tokens /\ r.buy \in Tokens /\ t \in Tokens /\ <<>> \in Seq(Tokens)
      BY RequestsAssumption
    <2>2. AllSuit(SellQuoteOperations(r.chain, sources, r.sell, t, <<>>), r.sell, t)
      BY <2>1, OperationsSuit
    <2>3. AllSuit(SellQuoteOperations(r.chain, sources, t, r.buy, <<>>), t, r.buy)
      BY <2>1, OperationsSuit
    <2>. QED
      BY <2>2, <2>3 DEF HopSuits
  <1>. HIDE DEF hop
  <1>5. \A i \in 1..n : via[i] \in Tokens \ {r.sell, r.buy}
    BY <1>2, <1>3
  <1>6. \A i \in 1..n : HopSuits(hops[i], r.sell, r.buy)
    BY <1>1, <1>3, <1>4, <1>5
  <1>7. DOMAIN hops = 1..n /\ hops = [i \in 1..n |-> hops[i]]
    BY <1>1, <1>3
  <1>. QED
    BY <1>6, <1>7 DEF hops

\* The two-hop quotes of a request are made of such calls.
LEMMA TwoHopsOfRequest ==
  ASSUME NEW r \in Requests, NEW quotes, IsDecodingOf(TwoHopOperation(r), quotes)
  PROVE  /\ \E S : quotes \in Seq(S)
         /\ \A i \in DOMAIN quotes : HopsSampled(quotes[i], r.sell, r.buy)
  <1>. DEFINE op == TwoHopOperation(r)
              all == QuoteSources("Sell", r.chain, r.excluded)
              sources == IF Contains(all, "MultiHop") THEN GetSources(all, {"MultiHop"})
                         ELSE <<>>
  <1>1. op.kind = "twoHop" /\ op.hops = Hops(r, sources)
    BY DEF TwoHopOperation
  <1>2. sources \in Seq(Asked)
    <2>1. all \in Seq(Asked)
      BY ListsOfAsked, SourcesOfRequest DEF QuoteSources
    <2>. HIDE DEF all
    <2>2. GetSources(all, {"MultiHop"}) \in Seq(Asked)
      BY <2>1, SourcesOfRequest
    <2>3. <<>> \in Seq(Asked)
      OBVIOUS
    <2>. QED
      BY <2>2, <2>3
  <1>. HIDE DEF op, sources
  <1>3. quotes = <<>> \/ quotes \in TwoHopOutcomes(op.hops)
    <2>1. PICK success \in BOOLEAN : \E d \in Decodings(op, success) : quotes = d.value
      BY DEF IsDecodingOf, op
    <2>2. PICK d \in Decodings(op, success) : quotes = d.value
      BY <2>1
    <2>3. CASE success /\ ~op.empty
      <3>1. d \in {[read |-> <<>>, value |-> x] : x \in TwoHopOutcomes(op.hops)}
        BY <1>1, <2>3 DEF Decodings
      <3>. QED
        BY <2>2, <3>1
    <2>4. CASE ~(success /\ ~op.empty)
      <3>1. d = [read |-> <<>>, value |-> <<>>]
        BY <1>1, <2>4 DEF Decodings
      <3>. QED
        BY <2>2, <3>1
    <2>. QED
      BY <2>3, <2>4
  <1>4. CASE quotes = <<>>
    BY <1>4
  <1>5. CASE quotes \in TwoHopOutcomes(op.hops)
    <2>. DEFINE hops == Hops(r, sources)
    <2>1. PICK n \in Nat : /\ DOMAIN hops = 1..n /\ hops = [i \in 1..n |-> hops[i]]
                           /\ \A i \in 1..n : HopSuits(hops[i], r.sell, r.buy)
      BY <1>2, HopsOfRequest
    <2>2. quotes \in TwoHopOutcomes(hops)
      BY <1>1, <1>5
    <2>. HIDE DEF hops
    <2>. QED
      BY <2>1, <2>2, TwoHopsSampled
  <1>. QED
    BY <1>3, <1>4, <1>5

-----------------------------------------------------------------------------
(* The samples of the liquidity *)

\* What is decoded is of the operations; the liquidity takes the fourth result and,
\* of a sale, the fifth.
LiquidityInv ==
  /\ phase = "decode" =>
       \A i \in 1..Len(values) : IsDecodingOf(operations[i], values[i])
  /\ phase = "done" =>
       /\ request \in Requests
       /\ IsDecodingOf(QuotesOperation(request), liquidity.samples)
       /\ \/ IsDecodingOf(TwoHopOperation(request), liquidity.twoHops)
          \/ liquidity.twoHops = <<>>

\* Each index stays at most one past what it counts.
BoundsInv ==
  /\ at <= Len(operations) + 1
  /\ Len(sent) <= Len(operations) /\ (phase = "collect" => Len(sent) < at)
  /\ IF phase \in {"decode", "done"} THEN DOMAIN raw = DOMAIN sent ELSE raw = <<>>
  /\ rawIdx <= Len(raw) + 1
  /\ phase # "done" => Len(results) = Len(values)
  /\ request \in Requests \union {NoRequest}

BatchInv == WrapperInv /\ PricesInv /\ LiquidityInv /\ BoundsInv

\* The fourth operation of a request asks for the samples, the fifth for two hops.
LEMMA BatchHasQuotes ==
  ASSUME NEW r \in Requests
  PROVE  /\ BatchOf(r)[4] = QuotesOperation(r)
         /\ r.side = "Sell" => Len(BatchOf(r)) = 5 /\ BatchOf(r)[5] = TwoHopOperation(r)
  BY DEF BatchOf

\* The decoding of the operation at hand.
LEMMA DecodeIsDecoding ==
  ASSUME BatchInv, DecodeOperation
  PROVE  /\ phase = "decode" /\ at <= Len(operations) /\ at = Len(values) + 1
         /\ Answer.result.success \in BOOLEAN
         /\ \E d \in Decodings(operations[at], Answer.result.success) :
              values' = Append(values, d.value)
  <1>1. phase = "decode" /\ at <= Len(operations)
    BY DEF DecodeOperation, Decode
  <1>2. at = Len(values) + 1
    BY <1>1 DEF BatchInv, PricesInv
  <1>3. Answer.result \in Result
    BY <1>1, AnswerIsOwn DEF BatchInv
  <1>4. Answer.result.success \in BOOLEAN
    BY <1>3 DEF Result
  <1>5. \E d \in Decodings(operations[at], Answer.result.success) :
          values' = Append(values, d.value)
    BY DEF DecodeOperation
  <1>. QED
    BY <1>1, <1>2, <1>4, <1>5

LEMMA DecodeKeepsLiquidity ==
  ASSUME BatchInv, DecodeOperation
  PROVE  LiquidityInv'
  <1>1. /\ phase = "decode" /\ at <= Len(operations) /\ at = Len(values) + 1
        /\ Answer.result.success \in BOOLEAN
        /\ \E d \in Decodings(operations[at], Answer.result.success) :
             values' = Append(values, d.value)
    BY DecodeIsDecoding
  <1>2. PICK d \in Decodings(operations[at], Answer.result.success) :
          values' = Append(values, d.value)
    BY <1>1
  <1>3. phase' = "decode" /\ operations' = operations
    BY DEF DecodeOperation, Decode
  <1>4. PICK S : values \in Seq(S)
    BY DEF BatchInv, PricesInv
  <1>. DEFINE n == Len(values)
  <1>5. /\ n \in Nat /\ Len(values') = n + 1 /\ values'[n + 1] = d.value
        /\ \A i \in 1..n : values'[i] = values[i]
    <2>1. values \in Seq(S \union {d.value})
      BY <1>4
    <2>. QED
      BY <1>2, <1>4, <2>1
  <1>6. IsDecodingOf(operations[at], d.value)
    BY <1>1 DEF IsDecodingOf
  <1>7. \A i \in 1..n : IsDecodingOf(operations[i], values[i])
    BY <1>1 DEF BatchInv, LiquidityInv
  <1>. HIDE DEF n
  <1>8. \A i \in 1..(n + 1) : IsDecodingOf(operations[i], values'[i])
    <2>. SUFFICES ASSUME NEW i \in 1..(n + 1)
                  PROVE  IsDecodingOf(operations[i], values'[i])
      OBVIOUS
    <2>1. CASE i \in 1..n
      BY <1>5, <1>7, <2>1
    <2>2. CASE i = n + 1
      BY <1>1, <1>5, <1>6, <2>2 DEF n
    <2>. QED
      BY <1>5, <2>1, <2>2
  <1>. QED
    BY <1>3, <1>5, <1>8 DEF LiquidityInv

LEMMA ReturnKeepsLiquidity ==
  ASSUME BatchInv, ReturnLiquidity
  PROVE  LiquidityInv'
  <1>1. /\ phase = "decode" /\ at > Len(operations) /\ phase' = "done"
        /\ request' = request /\ liquidity' = LiquidityOf(request, values)
    BY DEF ReturnLiquidity, Return
  <1>2. /\ request \in Requests /\ operations = BatchOf(request)
        /\ Len(values) \in Nat /\ at = Len(values) + 1
    BY <1>1 DEF BatchInv, PricesInv
  <1>3. Len(operations) \in {4, 5} /\ Len(values) >= Len(operations)
    BY <1>1, <1>2, BatchHasPrices
  <1>4. \A i \in 1..Len(values) : IsDecodingOf(operations[i], values[i])
    BY <1>1 DEF BatchInv, LiquidityInv
  <1>5. IsDecodingOf(QuotesOperation(request), values[4])
    BY <1>2, <1>3, <1>4, BatchHasQuotes
  <1>6. request.side = "Sell" => IsDecodingOf(TwoHopOperation(request), values[5])
    BY <1>2, <1>3, <1>4, BatchHasQuotes
  <1>7. /\ liquidity'.samples = values[4]
        /\ liquidity'.twoHops = IF request.side = "Sell" THEN values[5] ELSE <<>>
    BY <1>1 DEF LiquidityOf
  <1>. QED
    BY <1>1, <1>2, <1>5, <1>6, <1>7 DEF LiquidityInv

LEMMA StepKeepsLiquidity ==
  ASSUME BatchInv, [BatchNext]_batchVars
  PROVE  LiquidityInv'
  <1>1. ASSUME NEW r \in Requests, Ask(r)
        PROVE  LiquidityInv'
    BY <1>1 DEF Ask, Execute, LiquidityInv
  <1>2. CASE (Collect \/ Send \/ BatchCall \/ Reject) /\ UNCHANGED serviceVars
    <2>1. values = <<>> \/ phase' # "decode"
      BY <1>2 DEF BatchInv, PricesInv, Collect, Send, BatchCall, Reject
    <2>2. phase' # "done"
      BY <1>2 DEF Collect, Send, BatchCall, Reject
    <2>. QED
      BY <1>2, <2>1, <2>2 DEF serviceVars, LiquidityInv
  <1>3. CASE DecodeOperation
    BY <1>3, DecodeKeepsLiquidity
  <1>4. CASE ReturnLiquidity
    BY <1>4, ReturnKeepsLiquidity
  <1>5. CASE BatchDone \/ UNCHANGED batchVars
    BY <1>5 DEF BatchInv, BatchDone, batchVars, LiquidityInv
  <1>. QED
    BY <1>1, <1>2, <1>3, <1>4, <1>5 DEF BatchNext

LEMMA DecodeKeepsBounds ==
  ASSUME BatchInv, DecodeOperation
  PROVE  BoundsInv'
  <1>1. /\ results' = Append(results, Answer.result)
        /\ rawIdx' = Answer.next /\ at' = at + 1
        /\ phase = "decode" /\ at <= Len(operations)
        /\ UNCHANGED <<operations, phase, sent, raw, request>>
    BY DEF DecodeOperation, Decode
  <1>2. PICK d : values' = Append(values, d.value)
    BY DEF DecodeOperation
  <1>3. Len(values') = Len(values) + 1
    <2>1. PICK S : values \in Seq(S)
      BY DEF BatchInv, PricesInv
    <2>2. values \in Seq(S \union {d.value})
      BY <2>1
    <2>. QED BY <1>2, <2>2
  <1>4. Answer.result \in Result /\ results \in Seq(Result)
    BY <1>1, AnswerIsOwn DEF BatchInv, WrapperInv, TypeInv
  <1>5. Len(results') = Len(results) + 1
    BY <1>1, <1>4
  <1>6. Answer.next <= Len(raw) + 1
    <2>. USE DEF BatchInv, WrapperInv, TypeInv
    <2>1. CASE operations[at].empty
      BY <1>1, <2>1 DEF Answer, BoundsInv
    <2>2. CASE ~operations[at].empty
      <3>1. PICK k \in DOMAIN sent : sent[k] = at
        BY <1>1, <2>2 DEF SentInv, SentOf, HasData
      <3>2. ~(k < rawIdx)
        BY <1>1, <3>1 DEF RawInv
      <3>3. DOMAIN raw = 1..Len(sent) /\ Len(raw) = Len(sent)
        BY <1>1 DEF BoundsInv
      <3>. QED
        BY <2>2, <3>1, <3>2, <3>3 DEF Answer
    <2>. QED
      BY <2>1, <2>2
  <1>. QED
    BY <1>1, <1>3, <1>5, <1>6 DEF BatchInv, WrapperInv, TypeInv, BoundsInv

LEMMA SendingKeepsBounds ==
  ASSUME BatchInv, Collect \/ Send \/ BatchCall \/ Reject, UNCHANGED serviceVars
  PROVE  BoundsInv'
  <1>. USE DEF BatchInv, WrapperInv, TypeInv, BoundsInv, serviceVars
  <1>1. CASE Collect
    BY <1>1 DEF Collect
  <1>2. CASE Send
    BY <1>2 DEF Send, SentInv
  <1>3. CASE BatchCall
    <2>1. DOMAIN raw' = DOMAIN sent
      BY <1>3 DEF BatchCall
    <2>2. Len(raw') = Len(sent)
      BY <2>1
    <2>. QED
      BY <1>3, <2>1, <2>2 DEF BatchCall, ResultsInv
  <1>4. CASE Reject
    BY <1>4 DEF Reject
  <1>. QED
    BY <1>1, <1>2, <1>3, <1>4

LEMMA StepKeepsBounds ==
  ASSUME BatchInv, [BatchNext]_batchVars
  PROVE  BoundsInv'
  <1>1. ASSUME NEW r \in Requests, Ask(r)
        PROVE  BoundsInv'
    <2>1. Len(BatchOf(r)) \in Nat
      BY RequestsAssumption, BatchesAssumption
    <2>. QED
      BY <1>1, <2>1 DEF Ask, Execute, BatchInv, WrapperInv, TypeInv, SentInv, BoundsInv
  <1>2. CASE (Collect \/ Send \/ BatchCall \/ Reject) /\ UNCHANGED serviceVars
    BY <1>2, SendingKeepsBounds
  <1>3. CASE DecodeOperation
    BY <1>3, DecodeKeepsBounds
  <1>4. CASE ReturnLiquidity
    BY <1>4 DEF ReturnLiquidity, Return, BatchInv, BoundsInv
  <1>5. CASE BatchDone \/ UNCHANGED batchVars
    BY <1>5 DEF BatchInv, BatchDone, batchVars, BoundsInv
  <1>. QED
    BY <1>1, <1>2, <1>3, <1>4, <1>5 DEF BatchNext

\* The liquidity of a request is what its operations were decoded to, and no index of
\* the wrapper passes its list, for every request and whatever the calls return.
THEOREM BatchInvariant == BatchSpec => []BatchInv
  <1>1. BatchInit => LiquidityInv /\ BoundsInv
    BY DEF BatchInit, WrapperInit, LiquidityInv, BoundsInv
  <1>2. BatchInv /\ [BatchNext]_batchVars => LiquidityInv' /\ BoundsInv'
    BY StepKeepsLiquidity, StepKeepsBounds
  <1>3. BatchSpec => []WrapperInv
    BY BatchImplementsWrapper, WrapperInvariant, PTL
  <1>. QED
    BY <1>1, <1>2, <1>3, PricesInvariant, PTL DEF BatchSpec, BatchInv

-----------------------------------------------------------------------------
(* The theorems *)

\* What is returned suits the request.
LEMMA LiquiditySuits ==
  ASSUME BatchInv, phase = "done"
  PROVE  /\ AllSampled(liquidity.samples, request.sell, request.buy)
         /\ \A i \in DOMAIN liquidity.twoHops :
              HopsSampled(liquidity.twoHops[i], request.sell, request.buy)
  BY SamplesOfRequest, TwoHopsOfRequest DEF BatchInv, LiquidityInv

\* The indices of the wrapper stay within their lists, and every sample of the liquidity
\* is of a known source, along a path of two or three tokens.
THEOREM LiquidityTypes == BatchSpec => []SamplerTypeOK
  <1>1. ASSUME NEW x, NEW sell, NEW buy, Sampled(x, sell, buy) PROVE IsSample(x)
    BY <1>1 DEF Sampled, IsSample, Bridged
  <1>2. ASSUME BatchInv PROVE SamplerTypeOK
    <2>1. /\ phase \in {"idle", "collect", "sent", "decode", "done", "failed"}
          /\ at \in 1..(Len(operations) + 1) /\ Len(sent) <= Len(operations)
          /\ phase # "done" => Len(results) = Len(values)
          /\ request \in Requests \union {NoRequest}
      BY <1>2 DEF BatchInv, WrapperInv, TypeInv, BoundsInv
    <2>2. rawIdx \in 1..(Len(raw) + 1)
      <3>1. Len(raw) \in Nat
        BY <1>2 DEF BatchInv, WrapperInv, TypeInv, BoundsInv
      <3>. QED
        BY <1>2, <3>1 DEF BatchInv, WrapperInv, TypeInv, BoundsInv
    <2>3. ASSUME phase = "done"
          PROVE  /\ liquidity.samples \in Seq({x \in Range(liquidity.samples) : IsSample(x)})
                 /\ \A i \in DOMAIN liquidity.twoHops :
                      IsSample(liquidity.twoHops[i].first) /\ IsSample(liquidity.twoHops[i].second)
      <3>. DEFINE samples == liquidity.samples
                  T == {x \in Range(samples) : IsSample(x)}
      <3>1. PICK S : samples \in Seq(S)
        BY <1>2, <2>3, LiquiditySuits DEF AllSampled
      <3>2. \A i \in 1..Len(samples) : samples[i] \in T
        BY <1>1, <1>2, <2>3, <3>1, LiquiditySuits DEF AllSampled, Range
      <3>. HIDE DEF T
      <3>3. samples \in Seq(T)
        BY <3>1, <3>2
      <3>. QED
        BY <1>1, <1>2, <2>3, <3>3, LiquiditySuits DEF T, HopsSampled
    <2>. QED
      BY <2>1, <2>2, <2>3 DEF SamplerTypeOK
  <1>. QED
    BY <1>2, BatchInvariant, PTL

\* Whatever a source told of a pair, the order made of its sample can be encoded: each
\* operation, with what its callback adds, gives the coder of its source every field, on
\* every chain and for all tables of pools.
THEOREM SamplesEncode == BatchSpec => []SamplesAreEncodable
  <1>1. ASSUME BatchInv PROVE SamplesAreEncodable
    <2>. SUFFICES ASSUME phase = "done", NEW x \in AllSamples
                  PROVE  Encodes(x.source, x.fields)
      BY DEF SamplesAreEncodable
    <2>1. CASE x \in Range(liquidity.samples)
      BY <1>1, <2>1, LiquiditySuits DEF AllSampled, Sampled, Range
    <2>2. CASE x \notin Range(liquidity.samples)
      <3>1. PICK i \in DOMAIN liquidity.twoHops :
              x \in {liquidity.twoHops[i].first, liquidity.twoHops[i].second}
        BY <2>2 DEF AllSamples
      <3>. QED
        BY <1>1, <3>1, LiquiditySuits DEF HopsSampled, Sampled
    <2>. QED
      BY <2>1, <2>2
  <1>. QED
    BY <1>1, BatchInvariant, PTL

\* Whichever calls the contract chose, the first hop sells what the request sells, both
\* meet in a token that is neither of the pair, and the second buys what is wanted.
THEOREM HopsMeet == BatchSpec => []HopsConnect
  <1>1. ASSUME BatchInv PROVE HopsConnect
    <2>. SUFFICES ASSUME phase = "done", NEW i \in DOMAIN liquidity.twoHops
                  PROVE  LET q == liquidity.twoHops[i]
                         IN  /\ Head(q.first.tokens) \in {request.sell, Native(request.sell)}
                             /\ Last(q.first.tokens) \in {q.via, Native(q.via)}
                             /\ Head(q.second.tokens) \in {q.via, Native(q.via)}
                             /\ Last(q.second.tokens) \in {request.buy, Native(request.buy)}
                             /\ q.via \notin {request.sell, request.buy}
      BY DEF HopsConnect
    <2>. DEFINE q == liquidity.twoHops[i]
    <2>1. HopsSampled(q, request.sell, request.buy)
      BY <1>1, LiquiditySuits
    <2>. HIDE DEF q
    <2>2. ASSUME NEW x, NEW sell, NEW buy, Sampled(x, sell, buy)
          PROVE  Head(x.tokens) \in {sell, Native(sell)}
                 /\ Last(x.tokens) \in {buy, Native(buy)}
      <3>1. Head(x.tokens) = x.tokens[1] /\ Last(x.tokens) = x.tokens[Len(x.tokens)]
        BY <2>2 DEF Sampled, Last
      <3>. QED
        BY <2>2, <3>1 DEF Sampled
    <2>3. /\ Head(q.first.tokens) \in {request.sell, Native(request.sell)}
          /\ Last(q.first.tokens) \in {q.via, Native(q.via)}
          /\ Head(q.second.tokens) \in {q.via, Native(q.via)}
          /\ Last(q.second.tokens) \in {request.buy, Native(request.buy)}
          /\ q.via \notin {request.sell, request.buy}
      BY <2>1, <2>2 DEF HopsSampled
    <2>. QED
      BY <2>3 DEF q
  <1>. QED
    BY <1>1, BatchInvariant, PTL

-----------------------------------------------------------------------------
(* The median *)

LEMMA Half ==
  ASSUME NEW c \in Nat \ {0}
  PROVE  /\ c \div 2 \in Nat /\ c \div 2 < c
         /\ c >= 3 => c \div 2 >= 1 /\ c - c \div 2 >= 2
OBVIOUS

\* Of the numbers of a finite set the outputs up to one of them are more than half, and
\* those below it are not.
LEMMA MedianExists ==
  ASSUME NEW outputs, NEW bound \in Nat, IsFiniteSet(DOMAIN outputs),
         \A i \in DOMAIN outputs : outputs[i] \in 0..bound,
         Positive(outputs) # {}
  PROVE  \E m \in Positive(outputs) :
           /\ Cardinality({i \in Positive(outputs) : outputs[i] < outputs[m]})
                <= Cardinality(Positive(outputs)) \div 2
           /\ Cardinality(Positive(outputs)) \div 2
                < Cardinality({i \in Positive(outputs) : outputs[i] <= outputs[m]})
  <1>. DEFINE P == Positive(outputs)
              half == Cardinality(P) \div 2
              upTo(n) == {i \in P : outputs[i] <= n}
              T == {n \in Nat : Cardinality(upTo(n)) <= half}
  <1>1. /\ IsFiniteSet(P) /\ Cardinality(P) \in Nat \ {0}
        /\ \A i \in P : outputs[i] \in Nat /\ outputs[i] <= bound /\ outputs[i] > 0
    <2>1. P \in SUBSET DOMAIN outputs
      BY DEF Positive
    <2>2. IsFiniteSet(P)
      BY <2>1, FS_Subset
    <2>3. Cardinality(P) \in Nat /\ Cardinality(P) # 0
      BY <2>2, FS_CardinalityType, FS_EmptySet
    <2>. QED
      BY <2>2, <2>3 DEF Positive
  <1>2. half \in Nat /\ half < Cardinality(P)
    BY <1>1, Half
  <1>. HIDE DEF P, half
  <1>3. \A n \in Nat : Cardinality(upTo(n)) \in Nat
    <2>. SUFFICES ASSUME NEW n \in Nat PROVE Cardinality(upTo(n)) \in Nat
      OBVIOUS
    <2>1. upTo(n) \in SUBSET P
      OBVIOUS
    <2>. QED
      BY <1>1, <2>1, FS_Subset, FS_CardinalityType
  <1>4. 0 \in T
    <2>1. upTo(0) = {}
      BY <1>1
    <2>. QED
      BY <1>2, <2>1, FS_EmptySet
  <1>5. bound \notin T
    <2>1. upTo(bound) = P
      BY <1>1
    <2>. QED
      BY <1>1, <1>2, <2>1
  <1>6. PICK n \in Nat : n \in T /\ n + 1 \notin T
    <2>. HIDE DEF T
    <2>. QED
      BY <1>4, <1>5, F!NatSetInduction
  <1>7. Cardinality(upTo(n)) <= half /\ half < Cardinality(upTo(n + 1))
    BY <1>2, <1>3, <1>6
  <1>8. PICK m \in P : outputs[m] = n + 1
    <2>. SUFFICES ASSUME \A m \in P : outputs[m] # n + 1 PROVE FALSE
      OBVIOUS
    <2>1. upTo(n) = upTo(n + 1)
      BY <1>1
    <2>. HIDE DEF upTo
    <2>. QED
      BY <1>2, <1>3, <1>7, <2>1
  <1>9. /\ {i \in P : outputs[i] < outputs[m]} = upTo(n)
        /\ {i \in P : outputs[i] <= outputs[m]} = upTo(n + 1)
    BY <1>1, <1>8
  <1>. QED
    BY <1>7, <1>8, <1>9 DEF P, half

\* With three outputs, whichever one is left out, the median is between the others.
LEMMA MedianBetween ==
  ASSUME NEW outputs, NEW bound \in Nat, IsFiniteSet(DOMAIN outputs),
         \A i \in DOMAIN outputs : outputs[i] \in 0..bound,
         Cardinality(Positive(outputs)) >= 3,
         NEW i \in Positive(outputs)
  PROVE  /\ \E j \in Positive(outputs) \ {i} : outputs[j] <= Median(outputs)
         /\ \E j \in Positive(outputs) \ {i} : outputs[j] >= Median(outputs)
  <1>. DEFINE P == Positive(outputs)
              half == Cardinality(P) \div 2
              below(n) == {j \in P : outputs[j] < n}
              atMost(n) == {j \in P : outputs[j] <= n}
              IsMiddle(m) == /\ Cardinality(below(outputs[m])) <= half
                             /\ half < Cardinality(atMost(outputs[m]))
              middle == CHOOSE m \in P : IsMiddle(m)
              x == outputs[middle]
  <1>1. /\ IsFiniteSet(P) /\ \A j \in P : outputs[j] \in Nat
        /\ P # {}
    <2>1. P \in SUBSET DOMAIN outputs
      BY DEF Positive
    <2>. QED
      BY <2>1, FS_Subset
  <1>2. Cardinality(P) \in Nat \ {0}
    BY <1>1, FS_CardinalityType
  <1>3. half \in Nat /\ half >= 1 /\ Cardinality(P) - half >= 2
    BY <1>2, Half
  <1>4. middle \in P /\ IsMiddle(middle)
    <2>1. \E m \in P : IsMiddle(m)
      BY <1>1, MedianExists
    <2>. HIDE DEF P, IsMiddle
    <2>. QED
      BY <2>1
  <1>5. Median(outputs) = x
    BY <1>1 DEF Median
  <1>. HIDE DEF P, half, middle
  <1>6. Cardinality(below(x)) <= half /\ half < Cardinality(atMost(x)) /\ x \in Nat
    BY <1>1, <1>4
  <1>. HIDE DEF x
  <1>7. ASSUME NEW S \in SUBSET P, Cardinality(S) >= 2
        PROVE  \E j \in S : j # i
    <2>. SUFFICES ASSUME \A j \in S : j = i PROVE FALSE
      OBVIOUS
    <2>1. S \in SUBSET {i}
      OBVIOUS
    <2>2. IsFiniteSet({i}) /\ Cardinality({i}) = 1
      BY FS_Singleton
    <2>3. Cardinality(S) <= 1 /\ IsFiniteSet(S)
      BY <2>1, <2>2, FS_Subset
    <2>4. Cardinality(S) \in Nat
      BY <2>3, FS_CardinalityType
    <2>. QED
      BY <1>7, <2>3, <2>4
  <1>8. \E j \in P \ {i} : outputs[j] <= x
    <2>1. atMost(x) \in SUBSET P /\ IsFiniteSet(atMost(x))
      BY <1>1, FS_Subset
    <2>2. Cardinality(atMost(x)) \in Nat
      BY <2>1, FS_CardinalityType
    <2>3. Cardinality(atMost(x)) >= 2
      <3>. HIDE DEF atMost
      <3>. QED
        BY <1>3, <1>6, <2>2
    <2>4. PICK j \in atMost(x) : j # i
      BY <1>7, <2>1, <2>3
    <2>. QED
      BY <2>4
  <1>9. \E j \in P \ {i} : outputs[j] >= x
    <2>1. below(x) \in SUBSET P /\ P \cap below(x) = below(x)
      OBVIOUS
    <2>2. IsFiniteSet(below(x)) /\ Cardinality(below(x)) \in Nat
      BY <1>1, <2>1, FS_Subset, FS_CardinalityType
    <2>3. Cardinality(P \ below(x)) = Cardinality(P) - Cardinality(below(x))
      BY <1>1, <2>1, FS_Difference
    <2>4. Cardinality(P \ below(x)) >= 2
      <3>. HIDE DEF below
      <3>. QED
        BY <1>2, <1>3, <1>6, <2>2, <2>3
    <2>5. PICK j \in P \ below(x) : j # i
      BY <1>7, <2>4
    <2>. QED
      BY <1>1, <1>6, <2>5
  <1>. QED
    BY <1>5, <1>8, <1>9 DEF P

\* The price that was decoded last is that of the outputs read for it; the calls of a
\* price are a list.
ReadInv ==
  /\ phase # "decode" => values = <<>>
  /\ phase = "decode" /\ Len(values) \in 2..3 =>
       \/ read = <<>>
       \/ /\ IsFiniteSet(DOMAIN read) /\ \A i \in DOMAIN read : read[i] \in 0..MaxOutput
          /\ values[Len(values)].rate = RateOf(operations[Len(values)], read)

LEMMA PriceCallsFinite ==
  ASSUME NEW r \in Requests, NEW token \in Tokens
  PROVE  IsFiniteSet(DOMAIN RateOperation(r.chain, r.excluded, token).calls)
  <1>. DEFINE sources == GetSources(Row(FeeSources, r.chain), r.excluded)
              calls == SellQuoteOperations(r.chain, sources, Wrapped, token, <<>>)
  <1>1. sources \in Seq(Asked)
    BY ListsOfAsked, SourcesOfRequest
  <1>2. Wrapped \in Tokens /\ <<>> \in Seq(Tokens)
    BY TokensAssumption
  <1>. HIDE DEF sources
  <1>3. AllSuit(calls, Wrapped, token)
    BY <1>1, <1>2, OperationsSuit
  <1>. HIDE DEF calls
  <1>4. DOMAIN calls = 1..Len(calls) /\ Len(calls) \in Nat
    BY <1>3 DEF AllSuit
  <1>5. IsFiniteSet(DOMAIN calls)
    BY <1>4, FS_Interval
  <1>. QED
    BY <1>5 DEF RateOperation, calls, sources

LEMMA PricesAreRead ==
  ASSUME NEW r \in Requests, NEW k \in 2..3
  PROVE  /\ BatchOf(r)[k].kind = "rate" /\ IsFiniteSet(DOMAIN BatchOf(r)[k].calls)
  <1>1. {r.sell, r.buy} \subseteq Tokens
    BY RequestsAssumption
  <1>2. \E token \in {r.sell, r.buy} :
          BatchOf(r)[k] = RateOperation(r.chain, r.excluded, token)
    <2>1. CASE r.side = "Sell"
      BY <2>1 DEF BatchOf
    <2>2. CASE r.side # "Sell"
      BY <2>2 DEF BatchOf
    <2>. QED
      BY <2>1, <2>2
  <1>3. BatchOf(r)[k].kind = "rate"
    BY BatchHasPrices
  <1>. QED
    BY <1>1, <1>2, <1>3, PriceCallsFinite

LEMMA DecodeKeepsRead ==
  ASSUME PricesInv, DecodeOperation
  PROVE  ReadInv'
  <1>1. phase' = "decode" /\ phase = "decode" /\ operations' = operations
    BY DEF DecodeOperation, Decode
  <1>2. PICK d \in Decodings(operations[at], Answer.result.success) :
          values' = Append(values, d.value) /\ read' = d.read
    BY DEF DecodeOperation
  <1>3. PICK S : values \in Seq(S)
    BY DEF PricesInv
  <1>4. /\ request \in Requests /\ operations = BatchOf(request)
        /\ Len(values) \in Nat /\ at = Len(values) + 1
    BY <1>1, <1>3 DEF PricesInv
  <1>5. Len(values') = at /\ values'[at] = d.value
    <2>1. values \in Seq(S \union {d.value})
      BY <1>3
    <2>. QED
      BY <1>2, <1>4, <2>1
  <1>6. ASSUME at \in 2..3
        PROVE  \/ read' = <<>>
               \/ /\ IsFiniteSet(DOMAIN read') /\ \A i \in DOMAIN read' : read'[i] \in 0..MaxOutput
                  /\ d.value.rate = RateOf(operations[at], read')
    <2>. DEFINE op == operations[at]
    <2>1. op.kind = "rate" /\ IsFiniteSet(DOMAIN op.calls)
      BY <1>4, <1>6, PricesAreRead
    <2>. HIDE DEF op
    <2>2. \/ d.read = <<>>
          \/ \E outputs \in PriceOutputs(op) :
               d = [read |-> outputs, value |-> [token |-> op.token, rate |-> RateOf(op, outputs)]]
      <3>1. d \in Decodings(op, Answer.result.success)
        BY DEF op
      <3>. QED
        BY <2>1, <3>1 DEF Decodings
    <2>3. ASSUME NEW outputs \in PriceOutputs(op),
                 d = [read |-> outputs,
                      value |-> [token |-> op.token, rate |-> RateOf(op, outputs)]]
          PROVE  /\ IsFiniteSet(DOMAIN read') /\ \A i \in DOMAIN read' : read'[i] \in 0..MaxOutput
                 /\ d.value.rate = RateOf(op, read')
      <3>1. read' = outputs /\ d.value.rate = RateOf(op, outputs)
        BY <1>2, <2>3
      <3>2. DOMAIN outputs = DOMAIN op.calls /\ \A i \in DOMAIN outputs : outputs[i] \in 0..MaxOutput
        BY DEF PriceOutputs
      <3>. QED
        BY <2>1, <3>1, <3>2
    <2>. QED
      BY <1>2, <2>2, <2>3 DEF op
  <1>. QED
    BY <1>1, <1>5, <1>6 DEF ReadInv

LEMMA ReadInvariant == BatchSpec => []ReadInv
  <1>1. BatchInit => ReadInv
    BY DEF BatchInit, WrapperInit, ReadInv
  <1>2. PricesInv /\ ReadInv /\ [BatchNext]_batchVars => ReadInv'
    <2>. SUFFICES ASSUME PricesInv, ReadInv, [BatchNext]_batchVars
                  PROVE  ReadInv'
      OBVIOUS
    <2>1. CASE \E r \in Requests : Ask(r)
      BY <2>1 DEF Ask, Execute, ReadInv
    <2>2. CASE (Collect \/ Send \/ BatchCall \/ Reject) /\ UNCHANGED serviceVars
      <3>1. phase # "decode" /\ values = <<>> /\ values' = <<>>
        BY <2>2 DEF Collect, Send, BatchCall, Reject, serviceVars, ReadInv
      <3>2. ~(Len(values') \in 2..3)
        BY <3>1
      <3>. QED
        BY <3>1, <3>2 DEF ReadInv
    <2>3. CASE DecodeOperation
      BY <2>3, DecodeKeepsRead
    <2>4. CASE ReturnLiquidity
      BY <2>4 DEF ReturnLiquidity, Return, ReadInv
    <2>5. CASE BatchDone \/ UNCHANGED batchVars
      BY <2>5 DEF BatchDone, batchVars, ReadInv
    <2>. QED
      BY <2>1, <2>2, <2>3, <2>4, <2>5 DEF BatchNext
  <1>. QED
    BY <1>1, <1>2, PricesInvariant, PTL DEF BatchSpec

LEMMA ReadIsPriced ==
  ReadInv => NoPoolSetsThePrice
  <1>. SUFFICES ASSUME ReadInv, Len(values) \in 2..3, operations[Len(values)].token # Wrapped,
                       Cardinality(Positive(read)) >= 3, NEW i \in Positive(read)
                PROVE  /\ \E j \in Positive(read) \ {i} : read[j] <= values[Len(values)].rate
                       /\ \E j \in Positive(read) \ {i} : read[j] >= values[Len(values)].rate
    BY DEF NoPoolSetsThePrice
  <1>1. phase = "decode"
    <2>1. values # <<>>
      OBVIOUS
    <2>. QED
      BY <2>1 DEF ReadInv
  <1>2. read # <<>>
    BY DEF Positive
  <1>3. /\ IsFiniteSet(DOMAIN read) /\ \A j \in DOMAIN read : read[j] \in 0..MaxOutput
        /\ values[Len(values)].rate = RateOf(operations[Len(values)], read)
    BY <1>1, <1>2 DEF ReadInv
  <1>4. values[Len(values)].rate = Median(read)
    BY <1>3 DEF RateOf
  <1>5. /\ \E j \in Positive(read) \ {i} : read[j] <= Median(read)
        /\ \E j \in Positive(read) \ {i} : read[j] >= Median(read)
    BY <1>3, MaxOutputAssumption, MedianBetween
  <1>. QED
    BY <1>4, <1>5

\* With three pools that price a token none of them sets the price, whatever it answers.
THEOREM NoPoolAlone == BatchSpec => []NoPoolSetsThePrice
  BY ReadInvariant, ReadIsPriced, PTL
=============================================================================
