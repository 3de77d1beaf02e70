-------------------------- MODULE SwapServiceProofs --------------------------
(***************************************************************************)
(* From a request to the transaction that settles it, for every request,   *)
(* every route and every output: the value of the response is that of the  *)
(* call, a transaction that is settled keeps the guaranteed price and      *)
(* leaves nothing in the proxy, and one that is not has a cause outside.   *)
(***************************************************************************)
EXTENDS SwapService, TLAPS

\* The operator the fill of the current transformation repeats.
FillHere(done, i) == FillOrder(CurrentTransform, FillTotal(CurrentTransform, wallet), done, i)

Filling == INSTANCE FoldFacts WITH Op <- FillHere, Base <- {NothingFilled}

-----------------------------------------------------------------------------
(* Amounts *)

\* Rounding up what is slipped up never goes below.
LEMMA SlippedIsNoLess ==
  ASSUME NEW n \in Nat, NEW s \in 0..Whole
  PROVE  /\ CeilDiv(n * (Whole + s), Whole) \in Nat
         /\ CeilDiv(n * (Whole + s), Whole) >= n
  <1>1. n * s \in Nat /\ n * (Whole + s) = n * 100 + n * s
    BY DEF Whole
  <1>. QED
    BY <1>1 DEF CeilDiv, Whole

\* Rounding down what is slipped down never goes above.
LEMMA SlippedIsNoMore ==
  ASSUME NEW n \in Nat, NEW s \in 0..Whole
  PROVE  /\ (n * (Whole - s)) \div Whole \in Nat
         /\ (n * (Whole - s)) \div Whole <= n
  <1>1. n * s \in Nat /\ n * (Whole - s) = n * 100 - n * s
    BY DEF Whole
  <1>2. n * (Whole - s) \in Nat
    BY DEF Whole
  <1>. HIDE DEF Whole
  <1>. DEFINE m == n * (Whole - s)
  <1>3. m \in Nat /\ m <= n * 100
    BY <1>1, <1>2
  <1>. HIDE DEF m
  <1>4. m \div 100 \in Nat /\ m \div 100 <= n
    BY <1>3
  <1>. QED
    BY <1>4 DEF m, Whole

\* The first of n parts.
LEMMA FirstPart ==
  ASSUME NEW a \in Nat, NEW n \in Nat \ {0}
  PROVE  /\ Part(a, 1, n) \in Nat /\ Part(a, 1, n) <= a
         /\ n = 1 => Part(a, 1, n) = a
         /\ n <= a => Part(a, 1, n) > 0
         /\ n > 1 /\ a > 0 => Part(a, 1, n) < a
  <1>1. CASE n = 1
    <2>1. Part(a, 1, n) = a - 0 * (a \div 1)
      BY <1>1 DEF Part
    <2>2. a \div 1 \in Int
      OBVIOUS
    <2>. QED
      BY <1>1, <2>1, <2>2
  <1>2. CASE n > 1
    <2>. DEFINE q == a \div n
    <2>1. Part(a, 1, n) = q
      BY <1>2 DEF Part
    <2>2. q \in Nat /\ n * q <= a /\ a < n * q + n
      OBVIOUS
    <2>. HIDE DEF q
    <2>3. n * q >= 2 * q
      BY <1>2, <2>2
    <2>4. n <= a => q # 0
      BY <2>2
    <2>. QED
      BY <1>2, <2>1, <2>2, <2>3, <2>4
  <1>. QED
    BY <1>1, <1>2

\* A quotient rounded to the nearest integer is off by a half at most.
LEMMA NearestInteger ==
  ASSUME NEW n \in Nat, NEW d \in Nat \ {0}
  PROVE  /\ HalfUp(n, d) \in Nat
         /\ 2 * (d * HalfUp(n, d)) <= 2 * n + d
         /\ 2 * n < 2 * (d * HalfUp(n, d)) + d
  <1>. DEFINE m == 2 * n + d
              e == 2 * d
              h == m \div e
  <1>1. m \in Nat /\ e \in Nat \ {0}
    OBVIOUS
  <1>2. h \in Nat /\ e * h <= m /\ m < e * h + e
    <2>. HIDE DEF m, e
    <2>. QED
      BY <1>1
  <1>. HIDE DEF h
  <1>3. e * h = 2 * (d * h)
    BY <1>2
  <1>. QED
    BY <1>2, <1>3 DEF HalfUp, h

\* To buy at least as much again, rounded up, is no less.
LEMMA RaisedUp ==
  ASSUME NEW x \in Nat, NEW w \in Nat, NEW b \in Nat \ {0}, b <= w
  PROVE  CeilDiv(x * w, b) \in Nat /\ CeilDiv(x * w, b) >= x
  <1>1. x * w \in Nat /\ x * b <= x * w
    OBVIOUS
  <1>. DEFINE m == x * w + b - 1
              q == m \div b
  <1>2. m \in Nat
    BY <1>1
  <1>3. q \in Nat /\ b * q <= m /\ m < b * q + b
    BY <1>2
  <1>. HIDE DEF q
  <1>4. b * x < b * q + 1
    BY <1>1, <1>3
  <1>5. b * x <= b * q
    BY <1>3, <1>4
  <1>6. x <= q
    BY <1>3, <1>5
  <1>. QED
    BY <1>3, <1>6 DEF CeilDiv, q

\* The amount that stands for all there is.
LEMMA MaxIsNat == MAX_UINT256 \in Nat /\ MAX_UINT256 > 2
  BY DEF MAX_UINT256

-----------------------------------------------------------------------------
(* The request *)

\* What the checks leave of a request.
LEMMA ChecksPassed ==
  ASSUME NEW p \in Requests, ~IsRefused(p)
  PROVE  /\ p.sellToken # BadAddress /\ p.buyToken # BadAddress /\ p.amount \in Nat
         /\ NULL_ADDRESS \notin {p.sellToken, p.buyToken} /\ ~SlippageIsBad(p)
         /\ IsWrap(p) \/ IsUnwrap(p) \/ TokenOf(p.sellToken) # TokenOf(p.buyToken)
  <1>. DEFINE c == Checks(p)
  <1>1. DOMAIN c = 1..9 /\ \A i \in 1..9 : ~c[i].fails
    BY DEF IsRefused, Checks
  <1>2. /\ p.sellToken # BadAddress /\ p.buyToken # BadAddress /\ p.amount # BadAmount
        /\ NULL_ADDRESS \notin {p.sellToken, p.buyToken} /\ ~SlippageIsBad(p)
        /\ IsWrap(p) \/ IsUnwrap(p) \/ TokenOf(p.sellToken) # TokenOf(p.buyToken)
    <2>1. /\ c[1].fails = (p.sellToken = BadAddress) /\ c[2].fails = (p.buyToken = BadAddress)
          /\ c[3].fails = (p.amount = BadAmount)
          /\ c[6].fails = (~IsWrap(p) /\ ~IsUnwrap(p)
                           /\ TokenOf(p.sellToken) = TokenOf(p.buyToken))
          /\ c[7].fails = (NULL_ADDRESS \in {p.sellToken, p.buyToken})
          /\ c[9].fails = SlippageIsBad(p)
      BY Zenon DEF Checks
    <2>2. ~c[1].fails /\ ~c[2].fails /\ ~c[3].fails /\ ~c[6].fails /\ ~c[7].fails /\ ~c[9].fails
      BY <1>1
    <2>. HIDE DEF c
    <2>. QED
      BY <2>1, <2>2, Zenon
  <1>3. p.amount \in Nat \union {BadAmount}
    BY RequestsAssumption
  <1>. QED
    BY <1>2, <1>3

\* A request that passes the checks, and is no wrap, is one to quote.
LEMMA PassesChecks ==
  ASSUME NEW p \in Requests, ~IsRefused(p), ~IsWrap(p), ~IsUnwrap(p)
  PROVE  IsParsed(Parsed(p))
  <1>2. /\ p.sellToken # BadAddress /\ p.buyToken # BadAddress /\ p.amount # BadAmount
        /\ TokenOf(p.sellToken) # TokenOf(p.buyToken)
        /\ NULL_ADDRESS \notin {p.sellToken, p.buyToken} /\ ~SlippageIsBad(p)
    BY ChecksPassed DEF BadAmount
  <1>3. ASSUME NEW t \in {p.sellToken, p.buyToken}
        PROVE  TokenOf(t) \in Tokens \ {NULL_ADDRESS}
    BY <1>2, <1>3, RequestsAssumption, TokensAssumption DEF TokenOf
  <1>4. /\ p.sellToken # ETH_NATIVE_ADDRESS /\ Wrapped # ETH_NATIVE_ADDRESS
        /\ p.sellToken = "NATIVE" => p.buyToken # ETH_NATIVE_ADDRESS
    BY RequestsAssumption, TokensAssumption
  <1>5. /\ p.side \in {"Sell", "Buy"} /\ p.amount \in Nat /\ p.amount < MAX_UINT256
        /\ SlippageOf(p) \in 0..Whole /\ p.chain \in DOMAIN Shapes
    BY <1>2, RequestsAssumption DEF SlippageIsBad
  <1>. QED
    BY <1>2, <1>3, <1>4, <1>5 DEF Parsed, IsParsed, TokenOf

-----------------------------------------------------------------------------
(* The quote *)

\* What every quote of a request has.
Quoted(q, r) ==
  /\ q.side = r.side /\ q.sell = r.sell /\ q.buy = r.buy /\ q.amount = r.amount
  /\ q.units \in KnownUnits \union {NoUnits}
  /\ q.isTwoHop \in BOOLEAN /\ (q.isTwoHop => r.side = "Sell" /\ Between \notin {r.sell, r.buy})
  /\ q.best.sells \in Nat \ {0} /\ q.best.buys \in Nat \ {0} /\ q.best.buys < MAX_UINT256
  /\ q.worst.sells \in Nat \ {0} /\ q.worst.buys \in 0..q.best.buys /\ q.worst.fee = 0
  /\ q.best.sells <= q.worst.sells
  /\ r.side = "Sell" => q.best.sells = r.amount /\ q.worst.sells = r.amount
  /\ r.side = "Buy" => q.best.buys = r.amount /\ q.worst.buys = r.amount
  /\ Len(q.orders) \in Nat \ {0} /\ DOMAIN q.orders = 1..Len(q.orders)
  /\ q.isTwoHop => Len(q.orders) = 2
  /\ \A i \in DOMAIN q.orders : q.orders[i].source \in Bridged

\* The numbers of every quote the service may have, whatever the route and the output.
LEMMA QuoteIsQuoted ==
  ASSUME NEW r, NEW q, IsParsed(r), IsQuoteOf(q, r)
  PROVE  Quoted(q, r)
  <1>1. PICK shape \in RoutesFor(r), output \in Outputs, units \in KnownUnits \union {NoUnits} :
          q = QuoteOf(r, shape, output, units)
    BY DEF IsQuoteOf
  <1>2. output \in Nat \ {0} /\ output < MAX_UINT256
    BY ShapesAssumption, MaxIsNat
  <1>3. /\ shape.isTwoHop \in BOOLEAN /\ shape.sources \in Seq(Bridged)
        /\ Len(shape.sources) \in Nat \ {0} /\ (shape.isTwoHop => Len(shape.sources) = 2)
        /\ (shape.isTwoHop => r.side = "Sell" /\ Between \notin {r.sell, r.buy})
        /\ r.amount > 0
    <2>1. /\ shape \in Shapes[r.chain] /\ r.amount > 0
          /\ shape.isTwoHop => r.side = "Sell" /\ Between \notin {r.sell, r.buy}
      BY DEF RoutesFor
    <2>2. /\ shape.isTwoHop \in BOOLEAN /\ shape.sources \in Seq(Bridged)
          /\ Len(shape.sources) # 0 /\ (shape.isTwoHop => Len(shape.sources) = 2)
      BY <2>1, ShapesAssumption DEF IsParsed
    <2>. QED
      BY <2>1, <2>2
  <1>4. \A i \in 1..Len(shape.sources) : shape.sources[i] \in Bridged
    BY <1>3
  <1>5. /\ q.side = r.side /\ q.sell = r.sell /\ q.buy = r.buy /\ q.amount = r.amount
        /\ q.isTwoHop = shape.isTwoHop /\ q.worst.fee = 0
        /\ q.units \in KnownUnits \union {NoUnits}
    BY <1>1 DEF QuoteOf
  <1>6. /\ DOMAIN q.orders = 1..Len(shape.sources) /\ Len(q.orders) = Len(shape.sources)
        /\ \A i \in 1..Len(shape.sources) : q.orders[i].source = shape.sources[i]
    <2>. DEFINE n == Len(shape.sources)
    <2>1. PICK sells, buys : q.orders = OrdersOf(r, shape, sells, buys)
      BY <1>1 DEF QuoteOf
    <2>2. CASE shape.isTwoHop
      <3>1. q.orders = <<[source |-> shape.sources[1], path |-> <<r.sell, Between>>,
                          sells |-> sells, buys |-> 0],
                         [source |-> shape.sources[2], path |-> <<Between, r.buy>>,
                          sells |-> MAX_UINT256, buys |-> buys]>>
        BY <2>1, <2>2 DEF OrdersOf
      <3>2. n = 2
        BY <1>3, <2>2
      <3>. HIDE DEF n
      <3>. QED
        BY <3>1, <3>2 DEF n
    <2>3. CASE ~shape.isTwoHop
      BY <1>3, <2>1, <2>3 DEF OrdersOf
    <2>. QED
      BY <1>3, <2>2, <2>3
  <1>7. CASE r.side = "Sell"
    <2>1. /\ q.best.sells = r.amount /\ q.worst.sells = r.amount /\ q.best.buys = output
          /\ q.worst.buys = (output * (Whole - r.slippage)) \div Whole
      BY <1>1, <1>7 DEF QuoteOf
    <2>2. q.worst.buys \in Nat /\ q.worst.buys <= output
      BY <1>2, <2>1, SlippedIsNoMore DEF IsParsed
    <2>. QED
      BY <1>2, <1>3, <1>4, <1>5, <1>6, <1>7, <2>1, <2>2 DEF Quoted, IsParsed
  <1>8. CASE r.side = "Buy"
    <2>1. /\ q.best.buys = r.amount /\ q.worst.buys = r.amount /\ q.best.sells = output
          /\ q.worst.sells = CeilDiv(output * (Whole + r.slippage), Whole)
      BY <1>1, <1>8 DEF QuoteOf
    <2>2. q.worst.sells \in Nat /\ q.worst.sells >= output
      BY <1>2, <2>1, SlippedIsNoLess DEF IsParsed
    <2>. QED
      BY <1>2, <1>3, <1>4, <1>5, <1>6, <1>8, <2>1, <2>2 DEF Quoted, IsParsed
  <1>. QED
    BY <1>7, <1>8 DEF IsParsed

\* The orders of a quote, as they are found.
Ordered(o, path, sells, buys) ==
  o = [source |-> o.source, path |-> path, sells |-> sells, buys |-> buys]

\* The orders a quote starts with: both hops, or the first of the equal parts.
LEMMA FirstOrders ==
  ASSUME NEW r, NEW q, IsParsed(r), IsQuoteOf(q, r)
  PROVE  /\ q.isTwoHop =>
              /\ Ordered(q.orders[1], <<r.sell, Between>>, q.worst.sells, 0)
              /\ Ordered(q.orders[2], <<Between, r.buy>>, MAX_UINT256, q.best.buys)
         /\ ~q.isTwoHop =>
              /\ Ordered(q.orders[1], <<r.sell, r.buy>>, Part(q.best.sells, 1, Len(q.orders)),
                         Part(q.best.buys, 1, Len(q.orders)))
              /\ Len(q.orders) <= r.amount
  <1>1. PICK shape \in RoutesFor(r), output \in Outputs, units \in KnownUnits \union {NoUnits} :
          q = QuoteOf(r, shape, output, units)
    BY DEF IsQuoteOf
  <1>2. /\ q.isTwoHop = shape.isTwoHop
        /\ q.orders = OrdersOf(r, shape, q.best.sells, q.best.buys)
    BY <1>1 DEF QuoteOf
  <1>3. Quoted(q, r)
    BY QuoteIsQuoted
  <1>4. CASE q.isTwoHop
    <2>1. q.orders = <<[source |-> shape.sources[1], path |-> <<r.sell, Between>>,
                        sells |-> q.best.sells, buys |-> 0],
                       [source |-> shape.sources[2], path |-> <<Between, r.buy>>,
                        sells |-> MAX_UINT256, buys |-> q.best.buys]>>
      BY <1>2, <1>4 DEF OrdersOf
    <2>2. q.best.sells = q.worst.sells
      BY <1>3, <1>4 DEF Quoted
    <2>. QED
      BY <1>4, <2>1, <2>2 DEF Ordered
  <1>5. CASE ~q.isTwoHop
    <2>. DEFINE n == Len(shape.sources)
    <2>1. q.orders = [i \in 1..n |->
                        [source |-> shape.sources[i], path |-> <<r.sell, r.buy>>,
                         sells |-> Part(q.best.sells, i, n), buys |-> Part(q.best.buys, i, n)]]
      BY <1>2, <1>5 DEF OrdersOf
    <2>2. n <= r.amount
      BY <1>2, <1>5 DEF RoutesFor
    <2>3. n \in Nat /\ n # 0
      BY ShapesAssumption DEF IsParsed, RoutesFor
    <2>. HIDE DEF n
    <2>4. Len(q.orders) = n /\ 1 \in 1..n
      BY <2>1, <2>3
    <2>. QED
      BY <1>5, <2>1, <2>2, <2>4 DEF Ordered
  <1>. QED
    BY <1>4, <1>5

\* What an order is to buy, and may sell, when it is slipped.
Down(q, x) == (x * (Grain - MaxQuoteSlippageRate(q))) \div Grain

Up(q, x) == CeilDiv(x * (Grain + MaxQuoteSlippageRate(q)), Grain)

\* What the orders of a sale buy in the worst case: no more than in the best, and together
\* almost what the quote is to buy.
LEMMA SlipsDown ==
  ASSUME NEW q, q.side = "Sell", q.best.buys \in Nat \ {0},
         q.worst.buys \in Nat, q.worst.buys <= q.best.buys, NEW x \in Nat
  PROVE  /\ Down(q, x) \in Nat /\ Down(q, x) <= x
         /\ x = q.best.buys => IsRoundedAway(q, q.worst.buys - Down(q, x))
  <1>. DEFINE b == q.best.buys
              w == q.worst.buys
              k == HalfUp(Grain * (b - w), b)
              m == x * (Grain - k)
              a == m \div Grain
  <1>1. b \in Nat \ {0} /\ w \in Nat /\ w <= b /\ Grain \in Nat \ {0}
    BY GrainAssumption
  <1>2. Down(q, x) = a
    BY DEF Down, MaxQuoteSlippageRate
  <1>3. IsRoundedAway(q, w - a) <=> 2 * Grain * (w - a) < 2 * Grain + b
    BY DEF IsRoundedAway
  <1>. HIDE DEF b, w
  <1>4. Grain * (b - w) \in Nat /\ Grain * (b - w) = Grain * b - Grain * w
    BY <1>1
  <1>5. /\ k \in Nat /\ 2 * (b * k) <= 2 * (Grain * b - Grain * w) + b
    BY <1>1, <1>4, NearestInteger
  <1>. HIDE DEF k
  <1>6. k <= Grain
    <2>1. Grain * w \in Nat /\ Grain * b \in Nat /\ b * k \in Nat
      BY <1>1, <1>5
    <2>2. 2 * (b * k) <= 2 * (Grain * b) + b
      BY <1>1, <1>5, <2>1
    <2>3. ASSUME k >= Grain + 1 PROVE FALSE
      <3>1. b * k >= b * (Grain + 1) /\ b * (Grain + 1) = Grain * b + b
        BY <1>1, <1>5, <2>3
      <3>. QED
        BY <1>1, <2>1, <2>2, <3>1
    <2>. QED
      BY <1>1, <1>5, <2>3
  <1>7. m \in Nat /\ m <= x * Grain
    BY <1>1, <1>5, <1>6
  <1>8. m = x * Grain - x * k
    BY <1>1, <1>5
  <1>. HIDE DEF m
  <1>9. a \in Nat /\ Grain * a <= m /\ m < Grain * a + Grain
    BY <1>1, <1>7
  <1>. HIDE DEF a
  <1>10. a <= x
    <2>1. ASSUME a >= x + 1 PROVE FALSE
      <3>1. Grain * a >= Grain * (x + 1) /\ Grain * (x + 1) = x * Grain + Grain
        BY <1>1, <1>9, <2>1
      <3>2. x * Grain \in Nat /\ Grain * a \in Nat
        BY <1>1, <1>9
      <3>. QED
        BY <1>1, <1>7, <1>9, <3>1, <3>2
    <2>. QED
      BY <1>9, <2>1
  <1>11. ASSUME x = b PROVE 2 * Grain * (w - a) < 2 * Grain + b
    <2>1. /\ x * Grain = Grain * b /\ x * k = b * k
          /\ Grain * b \in Int /\ b * k \in Int /\ Grain * a \in Int /\ Grain * w \in Int
      BY <1>1, <1>5, <1>9, <1>11
    <2>2. 2 * (Grain * b - b * k) < 2 * (Grain * a) + 2 * Grain
      BY <1>1, <1>8, <1>9, <2>1
    <2>3. 2 * (Grain * w) - 2 * (Grain * a) < 2 * Grain + b
      BY <1>1, <1>5, <2>1, <2>2
    <2>4. 2 * Grain * (w - a) = 2 * (Grain * w) - 2 * (Grain * a)
      BY <1>1, <1>9
    <2>. QED
      BY <2>3, <2>4
  <1>. QED
    BY <1>2, <1>3, <1>9, <1>10, <1>11 DEF b, w

\* Less missing is rounded away too.
LEMMA LessIsRoundedAway ==
  ASSUME NEW q, q.best.buys \in Nat, NEW m \in Int, NEW n \in Int, n <= m, IsRoundedAway(q, m)
  PROVE  IsRoundedAway(q, n)
  <1>. DEFINE b == q.best.buys
  <1>1. b \in Nat /\ Grain \in Nat \ {0} /\ 2 * Grain * m < 2 * Grain + b
    BY GrainAssumption DEF IsRoundedAway
  <1>. HIDE DEF b
  <1>2. 2 * Grain * n <= 2 * Grain * m
    BY <1>1
  <1>3. 2 * Grain * n < 2 * Grain + b
    <2>. DEFINE x == 2 * Grain * n
                y == 2 * Grain * m
    <2>1. x \in Int /\ y \in Int /\ x <= y /\ y < 2 * Grain + b
      BY <1>1, <1>2
    <2>. HIDE DEF x, y
    <2>2. x < 2 * Grain + b
      BY <1>1, <2>1
    <2>. QED
      BY <2>2 DEF x
  <1>. QED
    BY <1>3 DEF IsRoundedAway, b

\* What the orders of a purchase sell in the worst case: no less than in the best.
LEMMA SlipsUp ==
  ASSUME NEW q, q.side = "Buy", q.best.sells \in Nat \ {0},
         q.worst.sells \in Nat, q.best.sells <= q.worst.sells, NEW x \in Nat
  PROVE  Up(q, x) \in Nat /\ Up(q, x) >= x
  <1>. DEFINE b == q.best.sells
              w == q.worst.sells
              k == HalfUp(Grain * (w - b), b)
  <1>1. b \in Nat \ {0} /\ w \in Nat /\ b <= w /\ Grain \in Nat \ {0}
    BY GrainAssumption
  <1>2. Up(q, x) = CeilDiv(x * (Grain + k), Grain)
    BY DEF Up, MaxQuoteSlippageRate
  <1>. HIDE DEF b, w
  <1>3. Grain * (w - b) \in Nat
    BY <1>1
  <1>4. k \in Nat
    BY <1>1, <1>3, NearestInteger
  <1>. HIDE DEF k
  <1>5. Grain + k \in Nat /\ Grain <= Grain + k
    BY <1>1, <1>4
  <1>. QED
    BY <1>1, <1>2, <1>5, RaisedUp

\* The orders of the fill: slipped, and what the first of them sells and buys.
LEMMA SlippedOrders ==
  ASSUME NEW r, NEW q, IsParsed(r), IsQuoteOf(q, r)
  PROVE  LET s == SlipOrders(q)
         IN  /\ DOMAIN s = 1..Len(q.orders) /\ Len(s) = Len(q.orders)
             /\ q.isTwoHop =>
                  /\ s[1].path = <<r.sell, Between>>
                  /\ s[1].sells = q.worst.sells /\ s[1].buys = 0
                  /\ s[2].sells = MAX_UINT256 /\ s[2].buys \in 0..q.best.buys
                  /\ IsRoundedAway(q, q.worst.buys - s[2].buys)
             /\ ~q.isTwoHop /\ r.side = "Sell" =>
                  /\ s[1].sells \in 0..q.worst.sells /\ s[1].buys \in 0..q.best.buys
                  /\ s[1].sells < q.worst.sells =>  Len(q.orders) > 1
                  /\ s[1].sells = q.worst.sells => IsRoundedAway(q, q.worst.buys - s[1].buys)
             /\ ~q.isTwoHop /\ r.side = "Buy" =>
                  /\ s[1].sells \in Nat /\ s[1].buys \in 1..q.worst.buys
                  /\ s[1].buys < q.worst.buys => Len(q.orders) > 1
                  /\ s[1].sells = 0 => Len(q.orders) > 1
  <1>. DEFINE s == SlipOrders(q)
              n == Len(q.orders)
              slip(o) == IF q.side = "Sell"
                         THEN [o EXCEPT !.buys = Down(q, @)]
                         ELSE [o EXCEPT !.sells = Up(q, @)]
  <1>1. Quoted(q, r) /\ r.side \in {"Sell", "Buy"}
    BY QuoteIsQuoted DEF IsParsed
  <1>2. /\ q.side = r.side /\ n \in Nat \ {0} /\ DOMAIN q.orders = 1..n
        /\ (q.isTwoHop => r.side = "Sell" /\ n = 2)
        /\ q.best.sells \in Nat \ {0} /\ q.best.buys \in Nat \ {0}
        /\ q.worst.sells \in Nat \ {0} /\ q.worst.buys \in Nat /\ q.worst.buys <= q.best.buys
        /\ q.best.sells <= q.worst.sells
        /\ r.side = "Sell" => q.best.sells = q.worst.sells
        /\ r.side = "Buy" => q.best.buys = q.worst.buys /\ q.worst.buys = r.amount
    BY <1>1 DEF Quoted
  <1>3. s = [i \in DOMAIN q.orders |-> slip(q.orders[i])]
    BY DEF SlipOrders, Down, Up
  <1>. HIDE DEF s, n
  <1>4. DOMAIN s = 1..n /\ Len(s) = n
    BY <1>2, <1>3
  <1>5. ASSUME NEW i \in 1..n, NEW path, NEW sells, NEW buys,
               Ordered(q.orders[i], path, sells, buys)
        PROVE  /\ s[i].path = path
               /\ r.side = "Sell" =>
                    s[i].sells = sells /\ s[i].buys = Down(q, buys)
               /\ r.side = "Buy" =>
                    s[i].buys = buys /\ s[i].sells = Up(q, sells)
    <2>1. s[i] = slip(q.orders[i])
      BY <1>2, <1>3
    <2>. DEFINE o == q.orders[i]
    <2>2. o = [source |-> o.source, path |-> path, sells |-> sells, buys |-> buys]
      BY <1>5 DEF Ordered
    <2>. HIDE DEF o
    <2>3. CASE r.side = "Sell"
      <3>1. s[i] = [o EXCEPT !.buys = Down(q, @)]
        BY <1>2, <2>1, <2>3 DEF o
      <3>. QED
        BY <2>2, <2>3, <3>1
    <2>4. CASE r.side = "Buy"
      <3>1. s[i] = [o EXCEPT !.sells = Up(q, @)]
        BY <1>2, <2>1, <2>4 DEF o
      <3>. QED
        BY <2>2, <2>4, <3>1
    <2>. QED
      BY <1>1, <2>3, <2>4
  <1>6. ASSUME r.side = "Buy", NEW i \in 1..n, NEW path, NEW sells, NEW buys,
                Ordered(q.orders[i], path, sells, buys)
         PROVE  s[i].buys = buys /\ s[i].sells = Up(q, sells)
    BY <1>5, <1>6
  <1>7. /\ q.best.sells \in Nat \ {0} /\ q.best.buys \in Nat \ {0} /\ n \in Nat \ {0}
        /\ q.worst.sells \in Nat /\ q.worst.buys \in Nat /\ q.worst.buys <= q.best.buys
        /\ q.best.sells <= q.worst.sells /\ q.side = r.side
    BY <1>2
  <1>8. 1 \in 1..n
    BY <1>7
  <1>. HIDE DEF slip
  <1>9. CASE q.isTwoHop
    <2>1. /\ Ordered(q.orders[1], <<r.sell, Between>>, q.worst.sells, 0)
          /\ Ordered(q.orders[2], <<Between, r.buy>>, MAX_UINT256, q.best.buys)
      BY <1>9, FirstOrders
    <2>2. r.side = "Sell" /\ 2 \in 1..n
      BY <1>2, <1>9
    <2>3. /\ s[1].path = <<r.sell, Between>> /\ s[1].sells = q.worst.sells
          /\ s[1].buys = Down(q, 0)
      <3>. DEFINE path == <<r.sell, Between>>
                  none == 0
      <3>1. Ordered(q.orders[1], path, q.worst.sells, none)
        BY <2>1
      <3>. HIDE DEF path, none
      <3>2. s[1].path = path /\ s[1].sells = q.worst.sells /\ s[1].buys = Down(q, none)
        BY <1>5, <1>8, <2>2, <3>1
      <3>. QED
        BY <3>2 DEF path, none
    <2>4. /\ s[2].sells = MAX_UINT256
          /\ s[2].buys = Down(q, q.best.buys)
      BY <1>5, <2>1, <2>2
    <2>5. Down(q, 0) = 0
      <3>1. Down(q, 0) \in Nat /\ Down(q, 0) <= 0
        BY <1>7, <2>2, SlipsDown
      <3>. QED
        BY <3>1
    <2>6. /\ Down(q, q.best.buys) \in 0..q.best.buys
          /\ IsRoundedAway(q, q.worst.buys - Down(q, q.best.buys))
      BY <1>7, <2>2, SlipsDown
    <2>. QED
      BY <1>4, <1>9, <2>3, <2>4, <2>5, <2>6 DEF s, n
  <1>10. CASE ~q.isTwoHop
    <2>. DEFINE sells == Part(q.best.sells, 1, n)
                buys  == Part(q.best.buys, 1, n)
    <2>1. Ordered(q.orders[1], <<r.sell, r.buy>>, sells, buys)
      BY <1>10, FirstOrders DEF n
    <2>6. n <= r.amount
      BY <1>10, FirstOrders DEF n
    <2>2. /\ sells \in Nat /\ sells <= q.best.sells /\ (n = 1 => sells = q.best.sells)
          /\ n > 1 => sells < q.best.sells
      BY <1>7, FirstPart
    <2>3. /\ buys \in Nat /\ buys <= q.best.buys /\ (n = 1 => buys = q.best.buys)
          /\ n <= q.best.buys => buys > 0
          /\ n > 1 => buys < q.best.buys
      BY <1>7, FirstPart
    <2>. HIDE DEF sells, buys
    <2>4. CASE r.side = "Sell"
      <3>1. s[1].sells = sells /\ s[1].buys = Down(q, buys)
        BY <1>5, <1>7, <1>8, <2>1, <2>4
      <3>2. /\ Down(q, buys) \in Nat /\ Down(q, buys) <= buys
            /\ buys = q.best.buys => IsRoundedAway(q, q.worst.buys - Down(q, buys))
        BY <1>7, <2>3, <2>4, SlipsDown
      <3>3. /\ s[1].buys \in 0..q.best.buys
            /\ n = 1 => IsRoundedAway(q, q.worst.buys - s[1].buys)
        BY <1>7, <2>3, <3>1, <3>2
      <3>4. /\ s[1].sells \in 0..q.worst.sells
            /\ s[1].sells < q.worst.sells => n > 1
            /\ s[1].sells = q.worst.sells => n = 1
        BY <1>2, <2>2, <2>4, <3>1
      <3>. QED
        BY <1>4, <1>10, <2>4, <3>3, <3>4 DEF s, n
    <2>5. CASE r.side = "Buy"
      <3>1. s[1].buys = buys /\ s[1].sells = Up(q, sells)
        BY <1>6, <1>8, <2>1, <2>5
      <3>2. Up(q, sells) \in Nat /\ Up(q, sells) >= sells
        BY <1>7, <2>2, <2>5, SlipsUp
      <3>3. s[1].sells \in Nat /\ (s[1].sells = 0 => n > 1)
        BY <1>7, <2>2, <3>1, <3>2
      <3>4. /\ s[1].buys \in 1..q.worst.buys
            /\ s[1].buys < q.worst.buys => n > 1
        BY <1>2, <2>3, <2>5, <2>6, <3>1
      <3>. QED
        BY <1>4, <1>10, <2>5, <3>3, <3>4 DEF s, n
    <2>. QED
      BY <1>1, <2>4, <2>5
  <1>. QED
    BY <1>9, <1>10

-----------------------------------------------------------------------------
(* The fill *)

\* What the first order sells of the whole fill.
FirstSells == Sells(CurrentTransform, 1, 0, 0, FillTotal(CurrentTransform, wallet))

\* The fill sequence has one element, so that the first order is the only one: the fill
\* ends with nothing, or with what a source pays for that order.
LEMMA FillOnce ==
  ASSUME CurrentTransform.fillSequence = << 0 >>, Len(CurrentTransform.orders) \in Nat \ {0},
         FirstSells \in Nat, NEW fill \in Fills(CurrentTransform, wallet)
  PROVE  LET order == CurrentTransform.orders[1]
         IN  /\ fill.sold = AtMost(FirstSells, wallet[CurrentTransform.sell])
             /\ \/ FirstSells = 0 /\ fill.bought = 0 /\ fill.short = FALSE
                \/ /\ FirstSells # 0
                   /\ \E paid \in Payments(order) : /\ fill.bought = 0 + paid
                                                    /\ fill.short = IsShort(order, paid)
  <1>. DEFINE t     == CurrentTransform
              order == t.orders[1]
              start == {NothingFilled}
              here  == wallet[t.sell]
              capped(d) == [d EXCEPT !.sold = AtMost(@, here)]
              folded == Filling!Fold(Reached(t))
  <1>1. Reached(t) = Append(<<>>, 1)
    <2>1. Len(t.fillSequence) = 1
      OBVIOUS
    <2>2. AtMost(Len(t.fillSequence), Len(t.orders)) = 1
      <3>. DEFINE n == Len(t.orders)
      <3>1. n \in Nat \ {0}
        OBVIOUS
      <3>. HIDE DEF n
      <3>2. AtMost(1, n) = 1
        BY <3>1 DEF AtMost
      <3>. QED
        BY <2>1, <3>2 DEF n
    <2>3. Reached(t) = [i \in 1..1 |-> i]
      BY <2>2 DEF Reached
    <2>. QED
      BY <2>3
  <1>2. folded = FillHere(start, 1)
    <2>1. <<>> \in Seq(Nat) /\ 1 \in Nat
      OBVIOUS
    <2>2. Filling!Fold(Append(<<>>, 1)) = FillHere(Filling!Fold(<<>>), 1)
      BY <2>1, Filling!FoldAppend
    <2>3. Filling!Fold(<<>>) = {NothingFilled}
      BY Filling!FoldEmpty
    <2>. QED
      BY <1>1, <2>2, <2>3
  <1>3. Fills(t, wallet) = {capped(d) : d \in folded}
    BY DEF Fills, FillHere, FoldLeft, MapThenFoldSet, Max,
           Filling!Fold, Filling!FoldLeft, Filling!MapThenFoldSet, Filling!Max
  <1>4. PICK d \in FillHere(start, 1) : fill = capped(d)
    <2>. HIDE DEF folded, capped
    <2>. QED
      BY <1>2, <1>3
  <1>. DEFINE sells == Sells(t, 1, NothingFilled.sold, NothingFilled.bought, FillTotal(t, wallet))
  <1>5. NothingFilled.sold = 0 /\ NothingFilled.bought = 0 /\ NothingFilled.short = FALSE
    BY DEF NothingFilled
  <1>6. sells = FirstSells
    BY <1>5 DEF FirstSells
  <1>7. d \in IF sells = 0
              THEN {NothingFilled}
              ELSE {[sold   |-> NothingFilled.sold + sells,
                     bought |-> NothingFilled.bought + paid,
                     short  |-> NothingFilled.short \/ IsShort(order, paid)] :
                       paid \in Payments(order)}
    BY DEF FillHere, FillOrder
  <1>. HIDE DEF sells, t, order
  <1>8. CASE FirstSells = 0
    <2>1. d = NothingFilled
      BY <1>6, <1>7, <1>8
    <2>2. fill = [NothingFilled EXCEPT !.sold = AtMost(@, here)]
      BY <1>4, <2>1
    <2>. QED
      BY <1>8, <2>2 DEF NothingFilled, t
  <1>9. CASE FirstSells # 0
    <2>1. PICK paid \in Payments(order) :
            d = [sold |-> 0 + FirstSells, bought |-> 0 + paid,
                 short |-> FALSE \/ IsShort(order, paid)]
      BY <1>5, <1>6, <1>7, <1>9
    <2>2. /\ fill.sold = AtMost(0 + FirstSells, here) /\ fill.bought = 0 + paid
          /\ fill.short = (FALSE \/ IsShort(order, paid))
      BY <1>4, <2>1
    <2>3. 0 + FirstSells = FirstSells /\ (FALSE \/ IsShort(order, paid)) = IsShort(order, paid)
      BY DEF IsShort
    <2>4. /\ fill.sold = AtMost(FirstSells, here) /\ fill.bought = 0 + paid
          /\ fill.short = IsShort(order, paid)
      BY <2>2, <2>3
    <2>. HIDE DEF here
    <2>. QED
      BY <1>9, <2>4 DEF t, order, here
  <1>. QED
    BY <1>8, <1>9

-----------------------------------------------------------------------------
(* The call *)

\* A call for a quote names the tokens of the quote, native where they have to be, sells
\* the worst case, sends that along when it is native, and asks for the worst case.  Only
\* Mooniswap may name another output, when one of the two is native.
CallFor(q, native, call) ==
  /\ call.feature \notin {"none", "throws"}
  /\ call.input = InputToken(q, native)
  /\ call.sells = q.worst.sells /\ call.minBuy = q.worst.buys
  /\ call.value = IF native.sell THEN q.worst.sells ELSE 0
  /\ call.output \in {q.buy, ETH_NATIVE_ADDRESS}
  /\ \/ call.output = OutputToken(q, native)
     \/ /\ call.feature = "sellToLiquidityProvider" /\ q.orders[1].source = "Mooniswap"
        /\ native.sell \/ native.buy
  /\ call.feature = "transformERC20" =>
       call.output = OutputToken(q, native) /\ call.transforms = Transforms(q, native)

\* The larger of the two cases is the worst.
LEMMA WorstSellsMost ==
  ASSUME NEW r, NEW q, Quoted(q, r)
  PROVE  /\ SellAmount(q) = q.worst.sells /\ MinBuyAmount(q) = q.worst.buys
         /\ \A native : EthAmount(q, native) = IF native.sell THEN q.worst.sells ELSE 0
  <1>1. /\ q.worst.sells \in Nat /\ q.best.sells \in Nat /\ q.best.sells <= q.worst.sells
        /\ q.worst.fee = 0
    BY DEF Quoted
  <1>2. SellAmount(q) = q.worst.sells
    BY <1>1 DEF SellAmount
  <1>3. \A native : EthAmount(q, native) = IF native.sell THEN q.worst.sells ELSE 0
    BY <1>1, <1>2 DEF EthAmount
  <1>. QED
    BY <1>2, <1>3 DEF MinBuyAmount

\* The calls of the direct features are for the quote: the same tokens and amounts.
LEMMA DirectCalls ==
  ASSUME NEW chain, NEW r, NEW q, IsParsed(r), IsQuoteOf(q, r),
         DirectCall(chain, q, r.native) # NoCall
  PROVE  CallFor(q, r.native, DirectCall(chain, q, r.native))
  <1>1. Len(q.orders) = 1
    BY DEF DirectCall
  <1>2. Quoted(q, r)
    BY QuoteIsQuoted
  <1>3. q.orders[1].path = <<q.sell, q.buy>>
    <2>1. ~q.isTwoHop /\ q.sell = r.sell /\ q.buy = r.buy
      BY <1>1, <1>2 DEF Quoted
    <2>2. \E sells, buys : Ordered(q.orders[1], <<r.sell, r.buy>>, sells, buys)
      BY <2>1, FirstOrders
    <2>. QED
      BY <2>1, <2>2 DEF Ordered
  <1>4. SellAmount(q) = q.worst.sells /\ MinBuyAmount(q) = q.worst.buys
    BY <1>2, WorstSellsMost
  <1>5. OutputToken(q, r.native) \in {q.buy, ETH_NATIVE_ADDRESS}
    BY DEF OutputToken
  <1>6. ASSUME NEW feature,
               feature \notin {"none", "throws", "transformERC20"},
               NEW output \in {q.buy, ETH_NATIVE_ADDRESS},
               \/ output = OutputToken(q, r.native)
               \/ /\ feature = "sellToLiquidityProvider" /\ q.orders[1].source = "Mooniswap"
                  /\ r.native.sell \/ r.native.buy
        PROVE  CallFor(q, r.native,
                       Direct(feature, q, r.native, InputToken(q, r.native), output))
    BY <1>4, <1>6 DEF CallFor, Direct
  <1>7. ASSUME NEW feature, feature \notin {"none", "throws", "transformERC20"}
        PROVE  CallFor(q, r.native, Direct(feature, q, r.native, InputToken(q, r.native),
                                           OutputToken(q, r.native)))
    BY <1>5, <1>6, <1>7
  <1>8. ASSUME NEW feature, feature \notin {"none", "throws", "transformERC20"}
        PROVE  CallFor(q, r.native, AlongPath(feature, q, r.native))
    <2>1. AlongPath(feature, q, r.native) =
            Direct(feature, q, r.native, InputToken(q, r.native), OutputToken(q, r.native))
      BY <1>3 DEF AlongPath, InputToken, OutputToken
    <2>. QED
      BY <1>7, <1>8, <2>1
  <1>9. CallFor(q, r.native, Direct(UniswapV3Feature(r.native), q, r.native,
                                    InputToken(q, r.native), OutputToken(q, r.native)))
    <2>1. UniswapV3Feature(r.native) \notin {"none", "throws", "transformERC20"}
      BY DEF UniswapV3Feature
    <2>. QED
      BY <1>7, <2>1
  <1>10. ASSUME \/ Wrapped \notin {q.sell, q.buy}
                \/ q.orders[1].source = "Mooniswap"
         PROVE  CallFor(q, r.native, AtProvider(q, r.native))
    <2>. DEFINE output == IF r.native.sell THEN ETH_NATIVE_ADDRESS ELSE q.buy
    <2>1. output \in {q.buy, ETH_NATIVE_ADDRESS}
      OBVIOUS
    <2>2. ~r.native.sell /\ ~r.native.buy => output = OutputToken(q, r.native)
      BY DEF OutputToken
    <2>4. Wrapped \notin {q.sell, q.buy} => ~r.native.sell /\ ~r.native.buy
      BY <1>2 DEF IsParsed, Quoted
    <2>3. AtProvider(q, r.native) = Direct("sellToLiquidityProvider", q, r.native,
                                           InputToken(q, r.native), output)
      BY DEF AtProvider
    <2>. HIDE DEF output
    <2>. QED
      BY <1>6, <1>10, <2>1, <2>2, <2>3, <2>4
  <1>. HIDE DEF CallFor
  <1>. QED
    BY <1>7, <1>8, <1>9, <1>10 DEF DirectCall

\* Every call but a failure is for the quote.
LEMMA CallIsFor ==
  ASSUME NEW chain, NEW r, NEW q, IsParsed(r), IsQuoteOf(q, r),
         TxCalldata(chain, q, r.native) # Throws
  PROVE  CallFor(q, r.native, TxCalldata(chain, q, r.native))
  <1>1. Quoted(q, r)
    BY QuoteIsQuoted
  <1>2. /\ SellAmount(q) = q.worst.sells /\ MinBuyAmount(q) = q.worst.buys
        /\ EthAmount(q, r.native) = IF r.native.sell THEN q.worst.sells ELSE 0
    BY <1>1, WorstSellsMost
  <1>3. OutputToken(q, r.native) \in {q.buy, ETH_NATIVE_ADDRESS}
    BY DEF OutputToken
  <1>4. ASSUME NEW feature \in {"batchFill", "multiHopFill"},
               Multiplexed(feature, q, r.native) # Throws
        PROVE  CallFor(q, r.native, Multiplexed(feature, q, r.native))
    BY <1>2, <1>3, <1>4 DEF Multiplexed, CallFor
  <1>5. ASSUME TransformCall(q, r.native) # Throws
        PROVE  CallFor(q, r.native, TransformCall(q, r.native))
    BY <1>2, <1>3, <1>5 DEF TransformCall, CallFor
  <1>6. DirectCall(chain, q, r.native) # NoCall =>
          CallFor(q, r.native, DirectCall(chain, q, r.native))
    BY DirectCalls
  <1>. HIDE DEF CallFor
  <1>7. CASE DirectCall(chain, q, r.native) # NoCall
    <2>1. TxCalldata(chain, q, r.native) = DirectCall(chain, q, r.native)
      BY <1>7 DEF TxCalldata
    <2>. QED
      BY <1>6, <1>7, <2>1
  <1>8. CASE DirectCall(chain, q, r.native) = NoCall
    <2>1. \/ TxCalldata(chain, q, r.native) = Multiplexed("batchFill", q, r.native)
          \/ TxCalldata(chain, q, r.native) = Multiplexed("multiHopFill", q, r.native)
          \/ TxCalldata(chain, q, r.native) = TransformCall(q, r.native)
      BY <1>8 DEF TxCalldata
    <2>. QED
      BY <1>4, <1>5, <2>1
  <1>. QED
    BY <1>7, <1>8

\* A call fails for the sources of multiplex, when there are several orders.
LEMMA CallThrows ==
  ASSUME NEW chain, NEW r, NEW q, IsParsed(r), IsQuoteOf(q, r),
         TxCalldata(chain, q, r.native) = Throws
  PROVE  /\ chain = "MAINNET" /\ Len(q.orders) > 1
         /\ \A i \in DOMAIN q.orders : q.orders[i].source \in MULTIPLEX_BATCH_FILL_SOURCES
  <1>1. Quoted(q, r)
    BY QuoteIsQuoted
  <1>2. DirectCall(chain, q, r.native) = NoCall
    <2>1. ASSUME DirectCall(chain, q, r.native) # NoCall
          PROVE  FALSE
      BY <2>1, DirectCalls DEF TxCalldata, CallFor, Throws
    <2>. QED
      BY <2>1
  <1>3. TransformCall(q, r.native) # Throws
    <2>1. TransformCall(q, r.native).feature = "transformERC20"
      BY <1>1 DEF TransformCall, Quoted
    <2>. QED
      BY <2>1 DEF Throws
  <1>4. \/ IsMultiplexBatch(chain, q, r.native)
        \/ IsMultiplexHops(chain, q)
    BY <1>2, <1>3 DEF TxCalldata
  <1>5. /\ chain = "MAINNET"
        /\ \A i \in DOMAIN q.orders : q.orders[i].source \in MULTIPLEX_BATCH_FILL_SOURCES
    <2>1. CASE IsMultiplexBatch(chain, q, r.native)
      BY <2>1 DEF IsMultiplexBatch
    <2>2. CASE IsMultiplexHops(chain, q)
      <3>1. DOMAIN q.orders = 1..2
        BY <1>1, <2>2 DEF Quoted, IsMultiplexHops
      <3>. QED
        BY <2>2, <3>1
        DEF IsMultiplexHops, MULTIPLEX_BATCH_FILL_SOURCES, MULTIPLEX_MULTIHOP_FILL_SOURCES
    <2>. QED
      BY <1>4, <2>1, <2>2
  <1>6. Len(q.orders) # 1
    <2>. SUFFICES ASSUME Len(q.orders) = 1 PROVE FALSE
      OBVIOUS
    <2>1. q.orders[1].source \in MULTIPLEX_BATCH_FILL_SOURCES
      BY <1>1, <1>5 DEF Quoted
    <2>2. \A feature, input, output :
            feature # "none" => Direct(feature, q, r.native, input, output) # NoCall
      <3>. SUFFICES ASSUME NEW feature, NEW input, NEW output, feature # "none"
                    PROVE  Direct(feature, q, r.native, input, output) # NoCall
        OBVIOUS
      <3>1. Direct(feature, q, r.native, input, output).feature = feature
        BY DEF Direct
      <3>. QED
        BY <3>1 DEF NoCall
    <2>3. UniswapV3Feature(r.native) # "none"
      BY DEF UniswapV3Feature
    <2>4. AlongPath("sellToUniswap", q, r.native) # NoCall
      BY <2>2 DEF AlongPath
    <2>. QED
      BY <1>2, <1>5, <2>1, <2>2, <2>3, <2>4 DEF DirectCall, MULTIPLEX_BATCH_FILL_SOURCES
  <1>7. Len(q.orders) > 1
    <2>. DEFINE n == Len(q.orders)
    <2>1. n \in Nat \ {0} /\ n # 1
      BY <1>1, <1>6 DEF Quoted
    <2>. HIDE DEF n
    <2>2. n > 1
      BY <2>1
    <2>. QED
      BY <2>2 DEF n
  <1>. QED
    BY <1>5, <1>7

-----------------------------------------------------------------------------
(* The transformations *)

\* Where the parts of four concatenated sequences are.
LEMMA Concatenated ==
  ASSUME NEW S, NEW a \in Seq(S), NEW b \in Seq(S), NEW c \in Seq(S), NEW d \in Seq(S),
         NEW s, s = a \o b \o c \o d
  PROVE  /\ Len(s) = Len(a) + Len(b) + Len(c) + Len(d)
         /\ \A i \in 1..Len(a) : s[i] = a[i]
         /\ \A i \in 1..Len(b) : s[Len(a) + i] = b[i]
         /\ \A i \in 1..Len(c) : s[Len(a) + Len(b) + i] = c[i]
         /\ \A i \in 1..Len(d) : s[Len(a) + Len(b) + Len(c) + i] = d[i]
  <1>1. ASSUME NEW x \in Seq(S), NEW y \in Seq(S)
        PROVE  /\ x \o y \in Seq(S) /\ Len(x \o y) = Len(x) + Len(y)
               /\ Len(x) \in Nat /\ Len(y) \in Nat
               /\ \A i \in 1..Len(x) : (x \o y)[i] = x[i]
               /\ \A i \in 1..Len(y) : (x \o y)[Len(x) + i] = y[i]
    OBVIOUS
  <1>. DEFINE ab  == a \o b
              abc == ab \o c
  <1>2. /\ ab \in Seq(S) /\ Len(ab) = Len(a) + Len(b) /\ Len(a) \in Nat /\ Len(b) \in Nat
        /\ \A i \in 1..Len(a) : ab[i] = a[i]
        /\ \A i \in 1..Len(b) : ab[Len(a) + i] = b[i]
    BY <1>1
  <1>. HIDE DEF ab
  <1>3. /\ abc \in Seq(S) /\ Len(abc) = Len(ab) + Len(c) /\ Len(c) \in Nat
        /\ \A i \in 1..Len(ab) : abc[i] = ab[i]
        /\ \A i \in 1..Len(c) : abc[Len(ab) + i] = c[i]
    BY <1>1, <1>2
  <1>. HIDE DEF abc
  <1>4. /\ Len(s) = Len(abc) + Len(d) /\ Len(d) \in Nat
        /\ \A i \in 1..Len(abc) : s[i] = abc[i]
        /\ \A i \in 1..Len(d) : s[Len(abc) + i] = d[i]
    BY <1>1, <1>3 DEF abc, ab
  <1>5. Len(s) = Len(a) + Len(b) + Len(c) + Len(d)
    BY <1>2, <1>3, <1>4
  <1>6. \A i \in 1..Len(a) : s[i] = a[i]
    BY <1>2, <1>3, <1>4
  <1>7. \A i \in 1..Len(b) : s[Len(a) + i] = b[i]
    <2>. SUFFICES ASSUME NEW i \in 1..Len(b) PROVE s[Len(a) + i] = b[i]
      OBVIOUS
    <2>1. Len(a) + i \in 1..Len(ab) /\ Len(a) + i \in 1..Len(abc)
      BY <1>2, <1>3
    <2>. QED
      BY <1>2, <1>3, <1>4, <2>1
  <1>8. \A i \in 1..Len(c) : s[Len(a) + Len(b) + i] = c[i]
    BY <1>2, <1>3, <1>4
  <1>9. \A i \in 1..Len(d) : s[Len(a) + Len(b) + Len(c) + i] = d[i]
    BY <1>2, <1>3, <1>4
  <1>. QED
    BY <1>5, <1>6, <1>7, <1>8, <1>9

\* The output of a path of two tokens.
LEMMA LastOfTwo == \A x, y : <<x, y>>[Len(<<x, y>>)] = y
  OBVIOUS

\* The transformations of the call, at the steps that the invariant counts.
LEMMA TransformsByStep ==
  ASSUME IsParsed(request), IsQuoteOf(quote, request)
  PROVE  LET s     == SlipOrders(quote)
             calls == Transforms(quote, request.native)
         IN  /\ Len(calls) = UpToUnwrap + 1
             /\ UpToWrap \in 0..1
             /\ UpToFill \in {UpToWrap + 1, UpToWrap + 2}
             /\ UpToUnwrap \in {UpToFill, UpToFill + 1}
             /\ request.native.sell =>
                  calls[1] = WethTransform(ETH_NATIVE_ADDRESS, quote.worst.sells)
             /\ ~quote.isTwoHop =>
                  calls[UpToWrap + 1] =
                    FillQuote(request.side, quote.sell, quote.buy, s, quote.amount)
             /\ quote.isTwoHop =>
                  /\ calls[UpToWrap + 1] =
                       FillQuote("Sell", quote.sell, Between, <<s[1]>>, quote.worst.sells)
                  /\ calls[UpToWrap + 2] =
                       FillQuote("Sell", Between, quote.buy, <<s[2]>>, MAX_UINT256)
             /\ request.native.buy => calls[UpToFill + 1] = WethTransform(Wrapped, MAX_UINT256)
             /\ calls[UpToUnwrap + 1] =
                  [kind |-> "pay",
                   tokens |-> {quote.sell, quote.buy, ETH_NATIVE_ADDRESS}
                              \union IF quote.isTwoHop THEN {Between} ELSE {}]
  <1>1. Quoted(quote, request)
    BY QuoteIsQuoted
  <1>. DEFINE s   == SlipOrders(quote)
              via == s[1].path[Len(s[1].path)]
              w   == WethTransform(ETH_NATIVE_ADDRESS, SellAmount(quote))
              f   == FillQuote(quote.side, quote.sell, quote.buy, s, quote.amount)
              f1  == FillQuote("Sell", quote.sell, via, <<s[1]>>, s[1].sells)
              f2  == FillQuote("Sell", via, quote.buy, <<s[2]>>, MAX_UINT256)
              u   == WethTransform(Wrapped, MAX_UINT256)
              p   == [kind |-> "pay", tokens |-> PaidTokens(quote)]
              a == IF request.native.sell THEN <<w>> ELSE <<>>
              b == IF quote.isTwoHop THEN <<f1, f2>> ELSE <<f>>
              c == IF request.native.buy THEN <<u>> ELSE <<>>
              d == <<p>>
              calls == Transforms(quote, request.native)
              all == {w, f, f1, f2, u, p}
  <1>2. calls = a \o b \o c \o d
    BY DEF Transforms, FillTransforms, Unwrapped
  <1>3. /\ SellAmount(quote) = quote.worst.sells /\ quote.side = request.side
        /\ request.native.sell \in BOOLEAN /\ request.native.buy \in BOOLEAN
        /\ quote.isTwoHop \in BOOLEAN
    BY <1>1, WorstSellsMost DEF Quoted, IsParsed
  <1>4. ASSUME quote.isTwoHop
        PROVE  via = Between /\ s[1].sells = quote.worst.sells
    <2>1. s[1].path = <<request.sell, Between>> /\ s[1].sells = quote.worst.sells
      BY <1>4, SlippedOrders
    <2>. HIDE DEF s
    <2>. QED
      BY <2>1, LastOfTwo
  <1>5. PaidTokens(quote) = {quote.sell, quote.buy, ETH_NATIVE_ADDRESS}
                            \union IF quote.isTwoHop THEN {Between} ELSE {}
    <2>1. ASSUME quote.isTwoHop
          PROVE  quote.orders[1].path[Len(quote.orders[1].path)] = Between
      <3>1. Ordered(quote.orders[1], <<request.sell, Between>>, quote.worst.sells, 0)
        BY <2>1, FirstOrders
      <3>2. quote.orders[1].path = <<request.sell, Between>>
        BY <3>1 DEF Ordered
      <3>. QED
        BY <3>2, LastOfTwo
    <2>. QED
      BY <1>3, <2>1 DEF PaidTokens
  <1>. HIDE DEF w, f, f1, f2, u, p
  <1>6. /\ a \in Seq(all) /\ Len(a) = UpToWrap /\ UpToWrap \in {0, 1}
        /\ request.native.sell => UpToWrap = 1 /\ a[1] = w
    <2>1. CASE request.native.sell
      BY <2>1 DEF UpToWrap
    <2>2. CASE ~request.native.sell
      BY <2>2 DEF UpToWrap
    <2>. QED
      BY <2>1, <2>2
  <1>7. /\ b \in Seq(all) /\ UpToFill = UpToWrap + Len(b) /\ Len(b) \in {1, 2}
        /\ quote.isTwoHop => Len(b) = 2 /\ b[1] = f1 /\ b[2] = f2
        /\ ~quote.isTwoHop => Len(b) = 1 /\ b[1] = f
    <2>1. CASE quote.isTwoHop
      BY <2>1 DEF UpToFill
    <2>2. CASE ~quote.isTwoHop
      BY <2>2 DEF UpToFill
    <2>. QED
      BY <2>1, <2>2
  <1>8. /\ c \in Seq(all) /\ UpToUnwrap = UpToFill + Len(c) /\ Len(c) \in {0, 1}
        /\ request.native.buy => Len(c) = 1 /\ c[1] = u
    <2>1. CASE request.native.buy
      BY <2>1 DEF UpToUnwrap
    <2>2. CASE ~request.native.buy
      <3>1. UpToFill \in Nat
        BY <1>6, <1>7
      <3>. QED
        BY <2>2, <3>1 DEF UpToUnwrap
    <2>. QED
      BY <2>1, <2>2
  <1>9. d \in Seq(all) /\ Len(d) = 1 /\ d[1] = p
    OBVIOUS
  <1>. HIDE DEF a, b, c, d, all
  <1>10. /\ Len(calls) = Len(a) + Len(b) + Len(c) + Len(d)
         /\ \A i \in 1..Len(a) : calls[i] = a[i]
         /\ \A i \in 1..Len(b) : calls[Len(a) + i] = b[i]
         /\ \A i \in 1..Len(c) : calls[Len(a) + Len(b) + i] = c[i]
         /\ \A i \in 1..Len(d) : calls[Len(a) + Len(b) + Len(c) + i] = d[i]
    <2>1. a \in Seq(all) /\ b \in Seq(all) /\ c \in Seq(all) /\ d \in Seq(all)
      BY <1>6, <1>7, <1>8, <1>9
    <2>. HIDE DEF calls
    <2>. QED
      BY <1>2, <2>1, Concatenated
  <1>. HIDE DEF calls, w, f, f1, f2, u, p
  <1>11. /\ Len(calls) = UpToUnwrap + 1
         /\ UpToFill \in {UpToWrap + 1, UpToWrap + 2}
         /\ UpToUnwrap \in {UpToFill, UpToFill + 1}
    <2>1. /\ UpToWrap \in {0, 1} /\ Len(a) = UpToWrap /\ Len(b) \in {1, 2} /\ Len(c) \in {0, 1}
          /\ Len(d) = 1 /\ UpToFill = UpToWrap + Len(b) /\ UpToUnwrap = UpToFill + Len(c)
          /\ Len(calls) = Len(a) + Len(b) + Len(c) + Len(d)
      BY <1>6, <1>7, <1>8, <1>9, <1>10
    <2>2. UpToWrap \in Int /\ UpToFill \in Int
      BY <2>1
    <2>3. UpToFill \in {UpToWrap + 1, UpToWrap + 2}
      BY <2>1, <2>2
    <2>4. UpToUnwrap \in {UpToFill, UpToFill + 1}
      BY <2>2, UpToUnwrap = UpToFill \/ UpToUnwrap = UpToFill + 1 DEF UpToUnwrap
    <2>. QED
      BY <2>1, <2>2, <2>3, <2>4
  <1>12. request.native.sell => calls[1] = w
    BY <1>6, <1>10
  <1>13. /\ ~quote.isTwoHop => calls[UpToWrap + 1] = f
         /\ quote.isTwoHop => calls[UpToWrap + 1] = f1 /\ calls[UpToWrap + 2] = f2
    BY <1>3, <1>6, <1>7, <1>10
  <1>14. request.native.buy => calls[UpToFill + 1] = u
    <2>. SUFFICES ASSUME request.native.buy PROVE calls[UpToFill + 1] = u
      OBVIOUS
    <2>1. /\ Len(a) \in Nat /\ Len(b) \in Nat /\ UpToFill + 1 = Len(a) + Len(b) + 1
          /\ Len(c) = 1 /\ c[1] = u
      BY <1>6, <1>7, <1>8
    <2>2. calls[Len(a) + Len(b) + 1] = c[1]
      BY <1>10, <2>1
    <2>. QED
      BY <2>1, <2>2
  <1>15. calls[UpToUnwrap + 1] = p
    BY <1>6, <1>7, <1>8, <1>9, <1>10
  <1>. HIDE DEF s, via
  <1>16. /\ w = WethTransform(ETH_NATIVE_ADDRESS, quote.worst.sells)
         /\ f = FillQuote(request.side, quote.sell, quote.buy, s, quote.amount)
         /\ quote.isTwoHop =>
              /\ f1 = FillQuote("Sell", quote.sell, Between, <<s[1]>>, quote.worst.sells)
              /\ f2 = FillQuote("Sell", Between, quote.buy, <<s[2]>>, MAX_UINT256)
    BY <1>3, <1>4 DEF w, f, f1, f2
  <1>17. p = [kind |-> "pay", tokens |-> {quote.sell, quote.buy, ETH_NATIVE_ADDRESS}
                              \union IF quote.isTwoHop THEN {Between} ELSE {}]
    BY <1>5 DEF p
  <1>. QED
    BY <1>6, <1>11, <1>12, <1>13, <1>14, <1>15, <1>16, <1>17 DEF s, calls, u

-----------------------------------------------------------------------------
(* The answer *)

\* The value the service computes for the response is the one of the call.
LEMMA ResponseCovers ==
  ASSUME NEW r, NEW q, NEW call, IsParsed(r), IsQuoteOf(q, r), CallFor(q, r.native, call)
  PROVE  Covers(SwapResponse(r, q, call), call)
  <1>1. Quoted(q, r)
    BY QuoteIsQuoted
  <1>2. q.worst.fee = 0 /\ q.worst.sells \in Nat /\ q.sell = r.sell
    BY <1>1 DEF Quoted
  <1>3. InputToken(q, r.native) = ETH_NATIVE_ADDRESS <=> r.native.sell
    BY <1>2 DEF InputToken, IsParsed
  <1>4. SwapResponse(r, q, call).value = IF r.native.sell THEN q.worst.sells ELSE 0
    BY <1>2 DEF SwapResponse, IsParsed
  <1>5. /\ call.value = IF r.native.sell THEN q.worst.sells ELSE 0
        /\ call.sells = q.worst.sells /\ call.input = InputToken(q, r.native)
    BY DEF CallFor
  <1>. QED
    BY <1>3, <1>4, <1>5 DEF Covers

\* The answer puts a call and a response for the quote in place.
LEMMA AnswerStep ==
  ASSUME SwapInv, Answer
  PROVE  SwapInv'
  <1>1. /\ IsParsed(request) /\ IsQuoteOf(quote, request)
        /\ calldata' # Throws =>
             /\ quote.units # NoUnits
             /\ calldata' = TxCalldata(request.chain, quote, request.native)
        /\ UNCHANGED <<request, quote>>
    BY DEF Answer, SwapInv
  <1>2. phase' \in {"failed", "answered"}
    BY DEF Answer
  <1>3. CASE calldata' = Throws
    <2>1. phase' = "failed" /\ calldata'.feature = "throws"
      BY <1>3 DEF Answer, Throws
    <2>. QED
      BY <2>1 DEF SwapInv, IsSwap
  <1>4. CASE calldata' # Throws
    <2>1. phase' = "answered" /\ response' = SwapResponse(request, quote, calldata')
      BY <1>4 DEF Answer
    <2>2. CallFor(quote, request.native, calldata')
      BY <1>1, <1>4, CallIsFor
    <2>3. Covers(response', calldata')
      BY <1>1, <2>1, <2>2, ResponseCovers
    <2>4. IsSwap'
      BY <2>2 DEF IsSwap, CallFor
    <2>5. AnswerOK'
      BY <1>1, <1>4, <2>1, <2>3 DEF AnswerOK
    <2>. QED
      BY <2>1, <2>4, <2>5 DEF SwapInv
  <1>. QED
    BY <1>3, <1>4

\* Every step keeps the invariant of the requests.
LEMMA SwapStep ==
  ASSUME SwapInv, [SwapNext]_swapVars
  PROVE  SwapInv'
  <1>1. ASSUME NEW p \in Requests, Receive(p)
        PROVE  SwapInv'
    <2>1. phase = "idle" /\ calldata = NoCall /\ quote = NoQuote /\ UNCHANGED <<quote, calldata>>
      BY <1>1 DEF Receive, SwapInv
    <2>2. ~IsSwap'
      BY <2>1 DEF IsSwap, NoCall
    <2>3. CASE IsRefused(p)
      BY <1>1, <2>1, <2>2, <2>3 DEF Receive, SwapInv
    <2>4. CASE ~IsRefused(p) /\ (IsWrap(p) \/ IsUnwrap(p))
      <3>1. phase' = "answered" /\ response' = WrapResponse(p) /\ p.amount \in Nat
        BY <1>1, <2>4, ChecksPassed DEF Receive
      <3>2. /\ response'.to = "weth" /\ response'.amount \in Nat
            /\ {response'.input, response'.output} \subseteq Tokens
        BY <3>1, TokensAssumption DEF WrapResponse
      <3>. QED
        BY <2>1, <2>2, <3>1, <3>2 DEF SwapInv
    <2>5. CASE ~IsRefused(p) /\ ~IsWrap(p) /\ ~IsUnwrap(p)
      <3>1. phase' = "sampling" /\ request' = Parsed(p)
        BY <1>1, <2>5 DEF Receive
      <3>2. IsParsed(request')
        BY <2>5, <3>1, PassesChecks
      <3>. QED
        BY <2>1, <2>2, <3>1, <3>2 DEF SwapInv
    <2>. QED
      BY <2>3, <2>4, <2>5
  <1>2. CASE Optimize
    <2>1. /\ phase' = "quoted" /\ IsParsed(request) /\ calldata' = NoCall
          /\ UNCHANGED request /\ IsQuoteOf(quote', request)
      BY <1>2 DEF Optimize, SwapInv, IsQuoteOf
    <2>2. ~IsSwap'
      BY <2>1 DEF IsSwap, NoCall
    <2>. QED
      BY <2>1, <2>2 DEF SwapInv
  <1>3. CASE Answer
    BY <1>3, AnswerStep
  <1>4. CASE NoLiquidity
    <2>1. phase' = "failed" /\ quote' = NoQuote /\ calldata' = NoCall
      BY <1>4 DEF NoLiquidity, SwapInv
    <2>2. ~IsSwap'
      BY <2>1 DEF IsSwap, NoCall
    <2>. QED
      BY <2>1, <2>2 DEF SwapInv
  <1>5. ASSUME UNCHANGED <<request, quote, calldata, response>>,
               \/ phase' = phase
               \/ phase = "answered" /\ phase' \in {"settled", "reverted"}
               \/ IsSwap /\ phase' \in {"settled", "reverted"}
               \/ IsSwap /\ calldata.feature = "transformERC20" /\ phase' = "executing"
        PROVE  SwapInv'
    <2>1. (IsSwap' <=> IsSwap) /\ (AnswerOK' <=> AnswerOK)
      BY <1>5 DEF IsSwap, AnswerOK
    <2>. QED
      BY <1>5, <2>1 DEF SwapInv
  <1>6. CASE SubmitWrap \/ SubmitDirect
    BY <1>5, <1>6 DEF SubmitWrap, SubmitDirect
  <1>7. CASE SubmitTransform
    BY <1>5, <1>7 DEF SubmitTransform, IsSwap
  <1>8. CASE TransformWeth \/ TransformFill \/ TransformPay
    BY <1>5, <1>8 DEF TransformWeth, TransformFill, TransformPay, Executing, SwapInv
  <1>9. CASE Finish
    BY <1>5, <1>9 DEF Finish, SwapInv
  <1>10. CASE SwapDone \/ UNCHANGED swapVars
    BY <1>5, <1>10 DEF SwapDone, swapVars
  <1>. QED
    BY <1>1, <1>2, <1>3, <1>4, <1>6, <1>7, <1>8, <1>9, <1>10 DEF SwapNext

\* The requests that are quoted passed the checks, the quote is for the request, and the
\* call and the response are for the quote.
THEOREM SwapInvariant == SwapSpec => []SwapInv
  <1>1. SwapInit => SwapInv
    BY DEF SwapInit, SwapInv, IsSwap, NoCall
  <1>. QED
    BY <1>1, SwapStep, PTL DEF SwapSpec

\* The value of the response is what the call wraps or sells of the native token, and
\* nothing when the taker sells another one, whatever the route costs and however the
\* worst case is rounded.
THEOREM ValueIsRight == SwapSpec => []ValueCoversCalldata
  <1>1. SwapInv => ValueCoversCalldata
    BY DEF SwapInv, ValueCoversCalldata, AnswerOK, Covers
  <1>. QED
    BY <1>1, SwapInvariant, PTL

-----------------------------------------------------------------------------
(* The execution *)

\* What an answer says, put together: the two ends of the quote and of the call are
\* different tokens, and what the taker gives is the worst case.
LEMMA AnswerFacts ==
  ASSUME IsSwap, AnswerOK
  PROVE  /\ Quoted(quote, request) /\ CallFor(quote, request.native, calldata)
         /\ request.side \in {"Sell", "Buy"}
         /\ request.native.sell \in BOOLEAN /\ request.native.buy \in BOOLEAN
         /\ {quote.sell, quote.buy, calldata.input, calldata.output, Wrapped,
             ETH_NATIVE_ADDRESS, Between} \subseteq Tokens
         /\ quote.sell # quote.buy /\ quote.sell # ETH_NATIVE_ADDRESS
         /\ Wrapped # ETH_NATIVE_ADDRESS
         /\ quote.isTwoHop => Between \notin {quote.sell, quote.buy, ETH_NATIVE_ADDRESS}
         /\ calldata.input = IF request.native.sell THEN ETH_NATIVE_ADDRESS ELSE quote.sell
         /\ request.native.sell => quote.sell = Wrapped /\ quote.buy # ETH_NATIVE_ADDRESS
         /\ request.native.buy => quote.buy = Wrapped /\ ~request.native.sell
         /\ Taken = quote.worst.sells
  <1>1. IsParsed(request) /\ IsQuoteOf(quote, request) /\ Covers(response, calldata)
    BY DEF AnswerOK
  <1>2. Quoted(quote, request)
    BY <1>1, QuoteIsQuoted
  <1>3. CallFor(quote, request.native, calldata)
    BY <1>1, CallIsFor DEF AnswerOK, IsSwap, Throws
  <1>4. /\ quote.sell = request.sell /\ quote.buy = request.buy
        /\ quote.isTwoHop => Between \notin {quote.sell, quote.buy}
    BY <1>2 DEF Quoted
  <1>5. /\ calldata.input = IF request.native.sell THEN ETH_NATIVE_ADDRESS ELSE quote.sell
        /\ calldata.output \in {quote.buy, ETH_NATIVE_ADDRESS}
        /\ calldata.sells = quote.worst.sells
    BY <1>3 DEF CallFor, InputToken
  <1>6. Taken = quote.worst.sells
    BY <1>1, <1>5 DEF Taken, Covers
  <1>7. /\ request.side \in {"Sell", "Buy"}
        /\ request.native.sell \in BOOLEAN /\ request.native.buy \in BOOLEAN
        /\ {quote.sell, quote.buy} \subseteq Tokens /\ quote.sell # quote.buy
        /\ quote.sell # ETH_NATIVE_ADDRESS
        /\ request.native.sell => quote.sell = Wrapped /\ quote.buy # ETH_NATIVE_ADDRESS
        /\ request.native.buy => quote.buy = Wrapped
    BY <1>1, <1>4 DEF IsParsed
  <1>. QED
    BY <1>2, <1>3, <1>4, <1>5, <1>6, <1>7, TokensAssumption

\* The transformation that runs next, by the step.
LEMMA CurrentStep ==
  ASSUME IsSwap, AnswerOK, calldata.feature = "transformERC20",
         step \in Nat \ {0}, step <= Len(calldata.transforms)
  PROVE  /\ Len(calldata.transforms) = UpToUnwrap + 1
         /\ \/ /\ step = 1 /\ UpToWrap = 1 /\ request.native.sell
               /\ CurrentTransform = WethTransform(ETH_NATIVE_ADDRESS, quote.worst.sells)
            \/ /\ step = UpToWrap + 1 /\ ~quote.isTwoHop /\ UpToFill = step
               /\ CurrentTransform = FillQuote(request.side, quote.sell, quote.buy,
                                               SlipOrders(quote), quote.amount)
            \/ /\ step = UpToWrap + 1 /\ quote.isTwoHop /\ UpToFill = step + 1
               /\ CurrentTransform = FillQuote("Sell", quote.sell, Between,
                                               <<SlipOrders(quote)[1]>>, quote.worst.sells)
            \/ /\ step = UpToWrap + 2 /\ quote.isTwoHop /\ UpToFill = step
               /\ CurrentTransform = FillQuote("Sell", Between, quote.buy,
                                               <<SlipOrders(quote)[2]>>, MAX_UINT256)
            \/ /\ step = UpToFill + 1 /\ UpToUnwrap = step /\ request.native.buy
               /\ CurrentTransform = WethTransform(Wrapped, MAX_UINT256)
            \/ /\ step = UpToUnwrap + 1
               /\ CurrentTransform = [kind |-> "pay", tokens |->
                                        {quote.sell, quote.buy, ETH_NATIVE_ADDRESS}
                                        \union IF quote.isTwoHop THEN {Between} ELSE {}]
  <1>. DEFINE calls == Transforms(quote, request.native)
              s     == SlipOrders(quote)
              pay   == [kind |-> "pay", tokens |->
                         {quote.sell, quote.buy, ETH_NATIVE_ADDRESS}
                         \union IF quote.isTwoHop THEN {Between} ELSE {}]
              wrap  == WethTransform(ETH_NATIVE_ADDRESS, quote.worst.sells)
              fill  == FillQuote(request.side, quote.sell, quote.buy, s, quote.amount)
              first == FillQuote("Sell", quote.sell, Between, <<s[1]>>, quote.worst.sells)
              second == FillQuote("Sell", Between, quote.buy, <<s[2]>>, MAX_UINT256)
              unwrap == WethTransform(Wrapped, MAX_UINT256)
  <1>1. calldata.transforms = calls
    BY AnswerFacts DEF CallFor
  <1>2. /\ Len(calls) = UpToUnwrap + 1
        /\ UpToWrap \in 0..1 /\ UpToFill \in {UpToWrap + 1, UpToWrap + 2}
        /\ UpToUnwrap \in {UpToFill, UpToFill + 1}
        /\ request.native.sell => calls[1] = wrap
        /\ ~quote.isTwoHop => calls[UpToWrap + 1] = fill
        /\ quote.isTwoHop => calls[UpToWrap + 1] = first /\ calls[UpToWrap + 2] = second
        /\ request.native.buy => calls[UpToFill + 1] = unwrap
        /\ calls[UpToUnwrap + 1] = pay
    BY TransformsByStep DEF AnswerOK
  <1>3. CurrentTransform = calls[step]
    BY <1>1 DEF CurrentTransform
  <1>. HIDE DEF calls, s, pay, wrap, fill, first, second, unwrap
  <1>4. /\ UpToWrap = IF request.native.sell THEN 1 ELSE 0
        /\ UpToFill = UpToWrap + (IF quote.isTwoHop THEN 2 ELSE 1)
        /\ UpToUnwrap = UpToFill + (IF request.native.buy THEN 1 ELSE 0)
    BY DEF UpToWrap, UpToFill, UpToUnwrap
  <1>. DEFINE x == UpToWrap
              y == UpToFill
              z == UpToUnwrap
  <1>. HIDE DEF x, y, z
  <1>5. x \in Nat /\ y \in Nat /\ z \in Nat
    BY <1>2 DEF x, y, z
  <1>6. /\ request.native.sell => x = 1
        /\ ~request.native.sell => x = 0
        /\ quote.isTwoHop => y = x + 2
        /\ ~quote.isTwoHop => y = x + 1
        /\ request.native.buy => z = y + 1
        /\ ~request.native.buy => z = y
    BY <1>4, <1>5 DEF x, y, z
  <1>7. step <= z + 1
    BY <1>1, <1>2 DEF z
  <1>8. \/ step = 1 /\ x = 1 /\ request.native.sell
        \/ step = x + 1 /\ ~quote.isTwoHop /\ y = step
        \/ step = x + 1 /\ quote.isTwoHop /\ y = step + 1
        \/ step = x + 2 /\ quote.isTwoHop /\ y = step
        \/ step = y + 1 /\ z = step /\ request.native.buy
        \/ step = z + 1
    BY <1>5, <1>6, <1>7
  <1>9. /\ Len(calldata.transforms) = UpToUnwrap + 1
        /\ \/ step = 1 /\ UpToWrap = 1 /\ request.native.sell /\ CurrentTransform = wrap
           \/ step = UpToWrap + 1 /\ ~quote.isTwoHop /\ UpToFill = step /\ CurrentTransform = fill
           \/ step = UpToWrap + 1 /\ quote.isTwoHop /\ UpToFill = step + 1
              /\ CurrentTransform = first
           \/ step = UpToWrap + 2 /\ quote.isTwoHop /\ UpToFill = step
              /\ CurrentTransform = second
           \/ step = UpToFill + 1 /\ UpToUnwrap = step /\ request.native.buy
              /\ CurrentTransform = unwrap
           \/ step = UpToUnwrap + 1 /\ CurrentTransform = pay
    BY <1>1, <1>2, <1>3, <1>8 DEF x, y, z
  <1>. QED
    BY <1>9 DEF s, pay, wrap, fill, first, second, unwrap

\* The counts of the transformations are of the request and the quote, which stay.
LEMMA Framed ==
  ASSUME UNCHANGED <<request, quote, calldata, response>>
  PROVE  /\ UpToWrap' = UpToWrap /\ UpToFill' = UpToFill /\ UpToUnwrap' = UpToUnwrap
         /\ MaySell' = MaySell /\ MayBuy' = MayBuy
         /\ \A sold, bought : Paid(sold, bought)' = Paid(sold, bought)
  BY DEF UpToWrap, UpToFill, UpToUnwrap, MaySell, MayBuy, Paid

\* The counts of the transformations, by the ends of the request and the hops.
LEMMA UpTo ==
  ASSUME IsSwap, AnswerOK
  PROVE  /\ UpToWrap \in Nat /\ UpToFill \in Nat /\ UpToUnwrap \in Nat
         /\ request.native.sell => UpToWrap = 1
         /\ ~request.native.sell => UpToWrap = 0
         /\ quote.isTwoHop => UpToFill = UpToWrap + 2
         /\ ~quote.isTwoHop => UpToFill = UpToWrap + 1
         /\ request.native.buy => UpToUnwrap = UpToFill + 1
         /\ ~request.native.buy => UpToUnwrap = UpToFill
  <1>1. UpToWrap \in Nat
    BY DEF UpToWrap
  <1>2. UpToFill \in Nat
    BY <1>1 DEF UpToFill
  <1>3. UpToUnwrap \in Nat
    BY <1>2 DEF UpToUnwrap
  <1>. QED
    BY <1>1, <1>2, <1>3 DEF UpToWrap, UpToFill, UpToUnwrap

\* What has to be shown while the transformations go on.
LEMMA GoesOn ==
  ASSUME phase' = "executing", wallet' \in [Tokens -> Nat], taker' \in [Tokens -> Int],
         short' \in BOOLEAN, step' \in Nat \ {0}, ExecutingOK'
  PROVE  ExecutionInv'
  BY DEF ExecutionInv, SwapTypeOK, UnsettledHasCause

\* Adding to one token of a wallet, and moving what there is of one to another.
LEMMA GivenOne ==
  ASSUME NEW a \in Tokens, NEW n \in Nat
  PROVE  /\ [Nothing EXCEPT ![a] = @ + n] = Only(a, n)
         /\ [Nothing EXCEPT ![a] = @ - n] = Only(a, -n)
         /\ Only(a, -n) \in [Tokens -> Int]
         /\ Only(a, n) \in [Tokens -> Nat]
  <1>1. /\ Only(a, -n) \in [Tokens -> Int] /\ Only(a, n) \in [Tokens -> Nat]
        /\ \A t \in Tokens : Only(a, n)[t] = IF t = a THEN n ELSE 0
        /\ \A t \in Tokens : Only(a, -n)[t] = IF t = a THEN -n ELSE 0
    BY DEF Only
  <1>2. Nothing \in [Tokens -> Nat] /\ \A t \in Tokens : Nothing[t] = 0
    BY DEF Nothing
  <1>3. [Nothing EXCEPT ![a] = @ + n] = Only(a, n)
    <2>. DEFINE w == [Nothing EXCEPT ![a] = @ + n]
    <2>1. w \in [Tokens -> Nat] /\ \A t \in Tokens : w[t] = IF t = a THEN n ELSE 0
      BY <1>2
    <2>. HIDE DEF w
    <2>. QED
      BY <1>1, <2>1 DEF w
  <1>4. [Nothing EXCEPT ![a] = @ - n] = Only(a, -n)
    <2>. DEFINE w == [Nothing EXCEPT ![a] = @ - n]
    <2>1. w \in [Tokens -> Int] /\ \A t \in Tokens : w[t] = IF t = a THEN -n ELSE 0
      BY <1>2
    <2>. HIDE DEF w
    <2>. QED
      BY <1>1, <2>1 DEF w
  <1>. QED
    BY <1>1, <1>3, <1>4

\* Moving all there is of the only token to another.
LEMMA Moved ==
  ASSUME NEW a \in Tokens, NEW n \in Int, NEW b \in Tokens, a # b, NEW m \in Int
  PROVE  [Only(a, n) EXCEPT ![a] = @ - n, ![b] = @ + m] = Only(b, m)
  <1>1. /\ Only(a, n) \in [Tokens -> Int] /\ Only(b, m) \in [Tokens -> Int]
        /\ \A t \in Tokens : Only(a, n)[t] = IF t = a THEN n ELSE 0
        /\ \A t \in Tokens : Only(b, m)[t] = IF t = b THEN m ELSE 0
    BY DEF Only
  <1>. DEFINE w == [Only(a, n) EXCEPT ![a] = @ - n, ![b] = @ + m]
  <1>2. w \in [Tokens -> Int] /\ \A t \in Tokens : w[t] = IF t = b THEN m ELSE 0
    BY <1>1
  <1>. HIDE DEF w
  <1>. QED
    BY <1>1, <1>2 DEF w

\* The proxy has what the taker gave, before the first transformation.
LEMMA SubmitTransformStep ==
  ASSUME SwapInv, ExecutionInv, SubmitTransform
  PROVE  ExecutionInv'
  <1>1. /\ IsSwap /\ AnswerOK
        /\ step = 1 /\ wallet = Nothing /\ taker = Nothing /\ short \in BOOLEAN
        /\ UNCHANGED <<request, quote, calldata, response, step, short>> /\ phase' = "executing"
        /\ taker' = [taker EXCEPT ![calldata.input] = @ - Taken]
        /\ wallet' = [wallet EXCEPT ![calldata.input] = @ + Taken]
    BY DEF SubmitTransform, SwapInv, ExecutionInv, SwapTypeOK, IsSwap
  <1>2. /\ Taken = quote.worst.sells /\ quote.worst.sells \in Nat /\ calldata.input \in Tokens
        /\ calldata.input = IF request.native.sell THEN ETH_NATIVE_ADDRESS ELSE quote.sell
        /\ request.native.sell \in BOOLEAN
    BY <1>1, AnswerFacts DEF Quoted
  <1>3. /\ taker' = Only(calldata.input, -quote.worst.sells)
        /\ wallet' = Only(calldata.input, quote.worst.sells)
        /\ taker' \in [Tokens -> Int] /\ wallet' \in [Tokens -> Nat]
    <2>. DEFINE a == calldata.input
                n == quote.worst.sells
    <2>1. taker' = [Nothing EXCEPT ![a] = @ - n] /\ wallet' = [Nothing EXCEPT ![a] = @ + n]
      BY <1>1, <1>2
    <2>2. a \in Tokens /\ n \in Nat
      BY <1>2
    <2>. HIDE DEF a, n
    <2>3. taker' = Only(a, -n) /\ wallet' = Only(a, n)
      BY <2>1, <2>2, GivenOne
    <2>4. taker' \in [Tokens -> Int] /\ wallet' \in [Tokens -> Nat]
      BY <2>2, <2>3, GivenOne
    <2>. QED
      BY <2>3, <2>4 DEF a, n
  <1>4. ExecutingOK'
    <2>1. /\ step' = 1 /\ UpToWrap' = UpToWrap /\ UpToFill' = UpToFill
          /\ UpToUnwrap' = UpToUnwrap /\ UNCHANGED <<quote, calldata>>
      BY <1>1, Framed
    <2>2. /\ UpToFill \in Nat \ {0} /\ UpToUnwrap \in Nat \ {0}
          /\ UpToWrap = IF request.native.sell THEN 1 ELSE 0
      BY <1>1, <1>2, UpTo
    <2>3. /\ UpToWrap >= 1 => wallet' = Only(ETH_NATIVE_ADDRESS, quote.worst.sells)
          /\ UpToWrap = 0 => wallet' = Only(quote.sell, quote.worst.sells)
      BY <1>2, <1>3, <2>2
    <2>. QED
      BY <1>3, <2>1, <2>2, <2>3 DEF ExecutingOK
  <1>. QED
    BY <1>1, <1>3, <1>4, GoesOn

\* The token that is sold is wrapped, or the one that was bought unwrapped.
LEMMA TransformWethStep ==
  ASSUME SwapInv, ExecutionInv, TransformWeth
  PROVE  ExecutionInv'
  <1>1. /\ IsSwap /\ AnswerOK /\ calldata.feature = "transformERC20" /\ ExecutingOK
        /\ step \in Nat \ {0} /\ short \in BOOLEAN /\ taker \in [Tokens -> Int]
        /\ step <= Len(calldata.transforms) /\ CurrentTransform.kind = "weth"
        /\ UNCHANGED <<request, quote, calldata, response, taker, short>>
        /\ phase' = "executing" /\ step' = step + 1
        /\ wallet' = Converted(CurrentTransform, wallet)
    BY DEF TransformWeth, Executing, SwapInv, ExecutionInv, SwapTypeOK
  <1>2. /\ quote.worst.sells \in Nat /\ quote.best.buys \in Nat /\ quote.best.buys < MAX_UINT256
        /\ {quote.sell, quote.buy, Wrapped, ETH_NATIVE_ADDRESS} \subseteq Tokens
        /\ Wrapped # ETH_NATIVE_ADDRESS /\ quote.sell # ETH_NATIVE_ADDRESS
        /\ quote.sell # quote.buy
        /\ request.native.sell => quote.sell = Wrapped
        /\ request.native.buy => quote.buy = Wrapped /\ calldata.output = ETH_NATIVE_ADDRESS
    BY <1>1, AnswerFacts DEF Quoted, CallFor, OutputToken
  <1>3. \/ /\ step = 1 /\ UpToWrap = 1 /\ request.native.sell
           /\ CurrentTransform = WethTransform(ETH_NATIVE_ADDRESS, quote.worst.sells)
        \/ /\ step = UpToFill + 1 /\ UpToUnwrap = step /\ request.native.buy
           /\ CurrentTransform = WethTransform(Wrapped, MAX_UINT256)
    BY <1>1, CurrentStep DEF FillQuote
  <1>4. CASE /\ step = 1 /\ UpToWrap = 1 /\ request.native.sell
             /\ CurrentTransform = WethTransform(ETH_NATIVE_ADDRESS, quote.worst.sells)
    <2>1. wallet = Only(ETH_NATIVE_ADDRESS, quote.worst.sells)
      BY <1>1, <1>4 DEF ExecutingOK
    <2>2. wallet[ETH_NATIVE_ADDRESS] = quote.worst.sells
      BY <1>2, <2>1 DEF Only
    <2>3. wallet' = [wallet EXCEPT ![ETH_NATIVE_ADDRESS] = @ - quote.worst.sells,
                                   ![Wrapped] = @ + quote.worst.sells]
      BY <1>1, <1>2, <1>4, <2>2 DEF Converted, WethTransform, AtMost
    <2>4. wallet' = Only(quote.sell, quote.worst.sells)
      BY <1>2, <1>4, <2>1, <2>3, Moved
    <2>5. wallet' \in [Tokens -> Nat]
      BY <1>2, <2>4, GivenOne
    <2>6. taker = Only(calldata.input, -quote.worst.sells)
      BY <1>1, <1>4, UpTo DEF ExecutingOK
    <2>7. ExecutingOK'
      BY <1>1, <1>4, <2>4, <2>6, UpTo, Framed DEF ExecutingOK
    <2>. QED
      BY <1>1, <2>5, <2>7, GoesOn
  <1>5. CASE /\ step = UpToFill + 1 /\ UpToUnwrap = step /\ request.native.buy
             /\ CurrentTransform = WethTransform(Wrapped, MAX_UINT256)
    <2>1. PICK sold \in MaySell, bought \in MayBuy :
            /\ Stands(sold, bought)
            /\ wallet = Both(quote.sell, quote.worst.sells - sold, quote.buy, bought)
      BY <1>1, <1>5, UpTo DEF ExecutingOK
    <2>2. /\ bought \in Nat /\ bought <= MAX_UINT256
          /\ sold \in Nat /\ quote.worst.sells - sold \in Nat
      BY <1>2, MaxIsNat DEF MaySell, MayBuy
    <2>. DEFINE left == quote.worst.sells - sold
    <2>3. wallet[Wrapped] = bought
      BY <1>2, <1>5, <2>1, <2>2 DEF Both
    <2>4. wallet' = [wallet EXCEPT ![Wrapped] = @ - bought, ![ETH_NATIVE_ADDRESS] = @ + bought]
      <3>1. AtMost(MAX_UINT256, bought) = bought
        BY <2>2, MaxIsNat DEF AtMost
      <3>2. CurrentTransform.token = Wrapped /\ CurrentTransform.amount = MAX_UINT256
        BY <1>5 DEF WethTransform
      <3>. QED
        BY <1>1, <1>2, <2>3, <3>1, <3>2 DEF Converted
    <2>. HIDE DEF left
    <2>5. wallet' = Both(quote.sell, left, calldata.output, bought)
      BY <1>2, <1>5, <2>1, <2>2, <2>4 DEF Both, left
    <2>6. wallet' \in [Tokens -> Nat]
      BY <2>2, <2>5 DEF Both, left
    <2>7. taker = Only(calldata.input, -quote.worst.sells)
      BY <1>1, <1>5, UpTo DEF ExecutingOK
    <2>8. ExecutingOK'
      BY <1>1, <1>5, <2>1, <2>5, <2>7, UpTo, Framed DEF ExecutingOK, Stands, IsRoundedAway, left
    <2>. QED
      BY <1>1, <2>6, <2>8, GoesOn
  <1>. QED
    BY <1>3, <1>4, <1>5

\* What a fill has to be for the quote: when it is filled it stands, and otherwise there
\* is a cause.
FillStands(fill) ==
  /\ fill.sold \in MaySell /\ fill.short \in BOOLEAN
  /\ IsFilled(CurrentTransform, wallet, fill) =>
       /\ fill.bought \in MayBuy
       /\ request.side = "Sell" =>
            /\ fill.sold = quote.worst.sells
            /\ fill.bought < quote.worst.buys =>
                 fill.short \/ IsRoundedAway(quote, quote.worst.buys - fill.bought)
       /\ request.side = "Buy" => fill.bought >= quote.worst.buys
  /\ ~IsFilled(CurrentTransform, wallet, fill) =>
       fill.short \/ (Len(quote.orders) > 1 /\ ~quote.isTwoHop)

\* The numbers of a fill of one order: what the order sells of a total, and the payment.
LEMMA PaymentFacts ==
  ASSUME NEW order, order.buys \in Nat, NEW paid \in Payments(order)
  PROVE  /\ 0 + paid = paid /\ paid \in 0..(order.buys + 1)
         /\ IsShort(order, paid) \in BOOLEAN
         /\ paid < order.buys => IsShort(order, paid)
         /\ paid = 0 => IsShort(order, paid)
  BY DEF Payments, IsShort

\* A sale of one hop fills its first order.
LEMMA SaleFill ==
  ASSUME IsSwap, AnswerOK, ~quote.isTwoHop, request.side = "Sell",
         wallet[quote.sell] = quote.worst.sells,
         CurrentTransform = FillQuote(request.side, quote.sell, quote.buy,
                                      SlipOrders(quote), quote.amount),
         NEW fill \in Fills(CurrentTransform, wallet)
  PROVE  FillStands(fill)
  <1>. DEFINE t == CurrentTransform
              o == SlipOrders(quote)[1]
              all == quote.worst.sells
              n == Len(quote.orders)
  <1>1. /\ t.fillSequence = <<0>> /\ t.side = "Sell" /\ t.sell = quote.sell
        /\ t.orders = SlipOrders(quote) /\ t.fillAmount = quote.amount
    BY DEF FillQuote
  <1>2. /\ n \in Nat \ {0} /\ all \in Nat \ {0} /\ quote.amount = all /\ all < MAX_UINT256
        /\ quote.worst.buys \in Nat /\ quote.worst.buys <= quote.best.buys
        /\ quote.best.buys \in Nat
    BY AnswerFacts DEF Quoted, AnswerOK, IsParsed
  <1>3. /\ Len(t.orders) = n /\ t.orders[1] = o
        /\ o.sells \in Nat /\ o.sells <= all /\ o.buys \in 0..quote.best.buys
        /\ o.sells < all => n > 1
        /\ o.sells = all => IsRoundedAway(quote, quote.worst.buys - o.buys)
    BY <1>1, <1>2, SlippedOrders DEF AnswerOK
  <1>4. wallet[t.sell] = all
    BY <1>1
  <1>. HIDE DEF t, o, all, n
  <1>5. FillTotal(t, wallet) = all
    BY <1>1, <1>2, MaxIsNat DEF FillTotal
  <1>6. FirstSells = o.sells
    BY <1>1, <1>2, <1>3, <1>5 DEF FirstSells, Sells, AtMost, t
  <1>7. /\ fill.sold = AtMost(o.sells, all)
        /\ \/ o.sells = 0 /\ fill.bought = 0 /\ fill.short = FALSE
           \/ /\ o.sells # 0
              /\ \E paid \in Payments(o) : fill.bought = 0 + paid /\ fill.short = IsShort(o, paid)
    BY <1>1, <1>2, <1>3, <1>4, <1>6, FillOnce DEF t
  <1>8. fill.sold = o.sells
    BY <1>2, <1>3, <1>7 DEF AtMost
  <1>9. IsFilled(t, wallet, fill) <=> o.sells = all
    BY <1>1, <1>2, <1>3, <1>5, <1>8 DEF IsFilled
  <1>10. fill.short \in BOOLEAN
    <2>1. o.buys \in Nat
      BY <1>2, <1>3
    <2>. QED
      BY <1>7, <2>1, PaymentFacts
  <1>11. CASE o.sells = all
    <2>1. PICK paid \in Payments(o) : fill.bought = 0 + paid /\ fill.short = IsShort(o, paid)
      BY <1>2, <1>7, <1>11
    <2>2. /\ fill.bought = paid /\ paid \in 0..(o.buys + 1)
          /\ paid < o.buys => fill.short
      BY <1>3, <2>1, PaymentFacts
    <2>3. fill.bought \in 0..(quote.best.buys + 1)
      BY <1>2, <1>3, <2>2
    <2>4. fill.sold \in 0..all
      BY <1>2, <1>8, <1>11
    <2>5. ~fill.short => IsRoundedAway(quote, quote.worst.buys - fill.bought)
      BY <1>2, <1>3, <1>11, <2>2, LessIsRoundedAway
    <2>. QED
      BY <1>8, <1>9, <1>10, <1>11, <2>3, <2>4, <2>5 DEF FillStands, MaySell, MayBuy, t, all
  <1>12. CASE o.sells # all
    <2>1. n > 1 /\ fill.sold \in 0..all
      BY <1>2, <1>3, <1>8, <1>12
    <2>. QED
      BY <1>9, <1>10, <1>12, <2>1 DEF FillStands, MaySell, t, all, n
  <1>. QED
    BY <1>11, <1>12

\* A purchase fills its first order.
LEMMA PurchaseFill ==
  ASSUME IsSwap, AnswerOK, ~quote.isTwoHop, request.side = "Buy",
         wallet[quote.sell] = quote.worst.sells,
         CurrentTransform = FillQuote(request.side, quote.sell, quote.buy,
                                      SlipOrders(quote), quote.amount),
         NEW fill \in Fills(CurrentTransform, wallet)
  PROVE  FillStands(fill)
  <1>. DEFINE t == CurrentTransform
              o == SlipOrders(quote)[1]
              all == quote.worst.sells
              goal == quote.worst.buys
              n == Len(quote.orders)
  <1>1. /\ t.fillSequence = <<0>> /\ t.side = "Buy" /\ t.sell = quote.sell
        /\ t.orders = SlipOrders(quote) /\ t.fillAmount = quote.amount
    BY DEF FillQuote
  <1>2. /\ n \in Nat \ {0} /\ all \in Nat \ {0} /\ quote.amount = goal /\ goal < MAX_UINT256
        /\ goal \in Nat \ {0} /\ quote.best.buys = goal
    BY AnswerFacts DEF Quoted, AnswerOK, IsParsed
  <1>3. /\ Len(t.orders) = n /\ t.orders[1] = o
        /\ o.sells \in Nat /\ o.buys \in Nat \ {0} /\ o.buys <= goal
        /\ o.buys < goal => n > 1
        /\ o.sells = 0 => n > 1
    BY <1>1, <1>2, SlippedOrders DEF AnswerOK
  <1>4. wallet[t.sell] = all
    BY <1>1
  <1>. HIDE DEF t, o, all, n, goal
  <1>5. FillTotal(t, wallet) = goal
    BY <1>1, <1>2, MaxIsNat DEF FillTotal
  <1>6. FirstSells = o.sells
    <2>1. FirstSells = Sells(t, 1, 0, 0, goal)
      BY <1>5 DEF FirstSells, t
    <2>2. ~(0 >= goal) /\ goal - 0 = goal
      BY <1>2
    <2>3. FirstSells = AtMost(o.sells, CeilDiv(o.sells * (goal - 0), o.buys))
      BY <1>1, <1>3, <2>1, <2>2 DEF Sells
    <2>. DEFINE up == CeilDiv(o.sells * goal, o.buys)
    <2>4. FirstSells = AtMost(o.sells, up)
      BY <2>2, <2>3
    <2>5. up \in Nat /\ up >= o.sells
      BY <1>2, <1>3, RaisedUp
    <2>. HIDE DEF up
    <2>. QED
      BY <1>3, <2>4, <2>5 DEF AtMost
  <1>7. /\ fill.sold = AtMost(o.sells, all)
        /\ \/ o.sells = 0 /\ fill.bought = 0 /\ fill.short = FALSE
           \/ /\ o.sells # 0
              /\ \E paid \in Payments(o) : fill.bought = 0 + paid /\ fill.short = IsShort(o, paid)
    BY <1>1, <1>2, <1>3, <1>4, <1>6, FillOnce DEF t
  <1>8. fill.sold \in 0..all
    BY <1>2, <1>3, <1>7 DEF AtMost
  <1>9. IsFilled(t, wallet, fill) <=> fill.bought >= goal
    BY <1>1, <1>2 DEF IsFilled
  <1>10. CASE o.sells = 0
    <2>1. fill.bought = 0 /\ fill.short = FALSE /\ n > 1 /\ ~(fill.bought >= goal)
      BY <1>2, <1>3, <1>7, <1>10
    <2>. QED
      BY <1>8, <1>9, <2>1 DEF FillStands, MaySell, t, all, n
  <1>11. CASE o.sells # 0
    <2>1. PICK paid \in Payments(o) : fill.bought = 0 + paid /\ fill.short = IsShort(o, paid)
      BY <1>7, <1>11
    <2>2. /\ fill.bought = paid /\ paid \in 0..(o.buys + 1) /\ fill.short \in BOOLEAN
          /\ paid < o.buys => fill.short
      BY <1>3, <2>1, PaymentFacts
    <2>3. /\ fill.bought \in 0..(quote.best.buys + 1)
          /\ ~(fill.bought >= goal) => fill.short \/ n > 1
      BY <1>2, <1>3, <2>2
    <2>. QED
      BY <1>8, <1>9, <2>2, <2>3 DEF FillStands, MaySell, MayBuy, t, all, n, goal
  <1>. QED
    BY <1>10, <1>11

\* The first of two hops sells everything, for something or for nothing.
LEMMA FirstHopFill ==
  ASSUME IsSwap, AnswerOK, quote.isTwoHop,
         wallet[quote.sell] = quote.worst.sells,
         CurrentTransform = FillQuote("Sell", quote.sell, Between,
                                      <<SlipOrders(quote)[1]>>, quote.worst.sells),
         NEW fill \in Fills(CurrentTransform, wallet)
  PROVE  /\ IsFilled(CurrentTransform, wallet, fill)
         /\ fill.sold = quote.worst.sells /\ fill.bought \in {0, 1}
         /\ fill.short \in BOOLEAN /\ (fill.bought = 0 => fill.short)
  <1>. DEFINE t == CurrentTransform
              o == SlipOrders(quote)[1]
              all == quote.worst.sells
  <1>1. /\ t.fillSequence = <<0>> /\ t.side = "Sell" /\ t.sell = quote.sell
        /\ t.orders = <<o>> /\ t.fillAmount = all
    BY DEF FillQuote
  <1>2. all \in Nat \ {0} /\ all < MAX_UINT256
    BY AnswerFacts DEF Quoted, AnswerOK, IsParsed
  <1>3. o.sells = all /\ o.buys = 0
    BY SlippedOrders DEF AnswerOK
  <1>. HIDE DEF o
  <1>4. Len(t.orders) = 1 /\ t.orders[1] = o /\ wallet[t.sell] = all
    BY <1>1
  <1>. HIDE DEF t, all
  <1>5. FillTotal(t, wallet) = all
    BY <1>1, <1>2, MaxIsNat DEF FillTotal
  <1>6. FirstSells = all
    BY <1>1, <1>2, <1>3, <1>4, <1>5 DEF FirstSells, Sells, AtMost, t
  <1>7. /\ fill.sold = AtMost(all, all)
        /\ \E paid \in Payments(o) : fill.bought = 0 + paid /\ fill.short = IsShort(o, paid)
    <2>1. /\ t.fillSequence = <<0>> /\ Len(t.orders) \in Nat \ {0} /\ FirstSells \in Nat
      BY <1>1, <1>2, <1>4, <1>6
    <2>2. LET order == t.orders[1]
          IN  /\ fill.sold = AtMost(FirstSells, wallet[t.sell])
              /\ \/ FirstSells = 0 /\ fill.bought = 0 /\ fill.short = FALSE
                 \/ /\ FirstSells # 0
                    /\ \E paid \in Payments(order) : /\ fill.bought = 0 + paid
                                                     /\ fill.short = IsShort(order, paid)
      BY <2>1, FillOnce DEF t
    <2>. QED
      BY <1>2, <1>4, <1>6, <2>2
  <1>8. fill.sold = all
    BY <1>2, <1>7 DEF AtMost
  <1>9. PICK paid \in Payments(o) : fill.bought = 0 + paid /\ fill.short = IsShort(o, paid)
    BY <1>7
  <1>10. /\ fill.bought = paid /\ paid \in 0..1 /\ fill.short \in BOOLEAN
         /\ paid = 0 => fill.short
    BY <1>3, <1>9, PaymentFacts
  <1>11. IsFilled(t, wallet, fill)
    BY <1>1, <1>2, <1>5, <1>8 DEF IsFilled
  <1>. QED
    BY <1>8, <1>10, <1>11 DEF t, all

\* The second sells all that the first bought.
LEMMA SecondHopFill ==
  ASSUME IsSwap, AnswerOK, quote.isTwoHop, wallet[Between] \in {0, 1},
         CurrentTransform = FillQuote("Sell", Between, quote.buy,
                                      <<SlipOrders(quote)[2]>>, MAX_UINT256),
         NEW fill \in Fills(CurrentTransform, wallet)
  PROVE  /\ IsFilled(CurrentTransform, wallet, fill)
         /\ fill.sold = wallet[Between] /\ fill.bought \in MayBuy /\ fill.short \in BOOLEAN
         /\ fill.bought < quote.worst.buys =>
              \/ fill.short \/ wallet[Between] = 0
              \/ IsRoundedAway(quote, quote.worst.buys - fill.bought)
  <1>. DEFINE t == CurrentTransform
              o == SlipOrders(quote)[2]
              all == wallet[Between]
  <1>1. /\ t.fillSequence = <<0>> /\ t.side = "Sell" /\ t.sell = Between
        /\ t.orders = <<o>> /\ t.fillAmount = MAX_UINT256
    BY DEF FillQuote
  <1>2. /\ quote.worst.buys \in Nat /\ quote.worst.buys <= quote.best.buys
        /\ quote.best.buys \in Nat
    BY AnswerFacts DEF Quoted
  <1>3. /\ o.sells = MAX_UINT256 /\ o.buys \in 0..quote.best.buys
        /\ IsRoundedAway(quote, quote.worst.buys - o.buys)
    BY SlippedOrders DEF AnswerOK
  <1>. HIDE DEF o
  <1>4. Len(t.orders) = 1 /\ t.orders[1] = o /\ wallet[t.sell] = all /\ all \in {0, 1}
    BY <1>1
  <1>. HIDE DEF t, all
  <1>5. FillTotal(t, wallet) = all
    BY <1>1, <1>4 DEF FillTotal
  <1>6. FirstSells = all
    BY <1>1, <1>3, <1>4, <1>5, MaxIsNat DEF FirstSells, Sells, AtMost, t
  <1>7. /\ fill.sold = AtMost(all, all)
        /\ \/ all = 0 /\ fill.bought = 0 /\ fill.short = FALSE
           \/ \E paid \in Payments(o) : fill.bought = 0 + paid /\ fill.short = IsShort(o, paid)
    <2>1. /\ t.fillSequence = <<0>> /\ Len(t.orders) \in Nat \ {0} /\ FirstSells \in Nat
      BY <1>1, <1>2, <1>4, <1>6
    <2>2. LET order == t.orders[1]
          IN  /\ fill.sold = AtMost(FirstSells, wallet[t.sell])
              /\ \/ FirstSells = 0 /\ fill.bought = 0 /\ fill.short = FALSE
                 \/ /\ FirstSells # 0
                    /\ \E paid \in Payments(order) : /\ fill.bought = 0 + paid
                                                     /\ fill.short = IsShort(order, paid)
      BY <2>1, FillOnce DEF t
    <2>. QED
      BY <1>2, <1>4, <1>6, <2>2
  <1>8. fill.sold = all
    BY <1>4, <1>7 DEF AtMost
  <1>9. IsFilled(t, wallet, fill)
    BY <1>1, <1>4, <1>5, <1>8 DEF IsFilled
  <1>10. CASE all = 0 /\ fill.bought = 0 /\ fill.short = FALSE
    <2>1. fill.bought \in MayBuy
      BY <1>2, <1>10 DEF MayBuy
    <2>2. fill.short \in BOOLEAN /\ all = 0
      BY <1>10
    <2>. QED
      BY <1>8, <1>9, <2>1, <2>2 DEF t, all
  <1>11. CASE \E paid \in Payments(o) : fill.bought = 0 + paid /\ fill.short = IsShort(o, paid)
    <2>1. PICK paid \in Payments(o) : fill.bought = 0 + paid /\ fill.short = IsShort(o, paid)
      BY <1>11
    <2>2. /\ fill.bought = paid /\ paid \in 0..(o.buys + 1) /\ fill.short \in BOOLEAN
          /\ paid < o.buys => fill.short
      BY <1>2, <1>3, <2>1, PaymentFacts
    <2>3. fill.bought \in MayBuy
      BY <1>2, <1>3, <2>2 DEF MayBuy
    <2>4. ~fill.short => IsRoundedAway(quote, quote.worst.buys - fill.bought)
      BY <1>2, <1>3, <2>2, LessIsRoundedAway
    <2>. QED
      BY <1>8, <1>9, <2>2, <2>3, <2>4 DEF t, all
  <1>. QED
    BY <1>7, <1>10, <1>11

\* After the last fill, the proxy has what was bought and what is left of what was sold.
LEMMA FillsEnd ==
  ASSUME IsSwap, AnswerOK, calldata.feature = "transformERC20",
         UNCHANGED <<request, quote, calldata, response, taker>>,
         phase' = "executing", short' \in BOOLEAN, taker \in [Tokens -> Int],
         step' = UpToFill + 1, taker = Only(calldata.input, -quote.worst.sells),
         NEW sold \in MaySell, NEW bought \in MayBuy,
         wallet' = Both(quote.sell, quote.worst.sells - sold, quote.buy, bought),
         request.side = "Sell" =>
           /\ sold = quote.worst.sells
           /\ bought < quote.worst.buys =>
                short' \/ IsRoundedAway(quote, quote.worst.buys - bought),
         request.side = "Buy" => bought >= quote.worst.buys
  PROVE  ExecutionInv'
  <1>1. /\ UpToFill \in Nat \ {0} /\ UpToUnwrap \in Nat
        /\ UpToWrap \in Nat /\ UpToWrap < UpToFill
        /\ request.native.buy => UpToUnwrap = UpToFill + 1
        /\ ~request.native.buy => UpToUnwrap = UpToFill
    BY UpTo
  <1>2. /\ quote.worst.sells \in Nat /\ quote.best.buys \in Nat
        /\ request.side \in {"Sell", "Buy"}
        /\ ~request.native.buy => calldata.output = quote.buy
    BY AnswerFacts DEF Quoted, CallFor, OutputToken
  <1>3. quote.worst.sells - sold \in Nat /\ bought \in Nat
    BY <1>2 DEF MaySell, MayBuy
  <1>4. wallet' \in [Tokens -> Nat]
    BY <1>3 DEF Both
  <1>5. Stands(sold, bought)'
    BY <1>2 DEF Stands, IsRoundedAway
  <1>6. \E s \in MaySell', b \in MayBuy' :
          /\ Stands(s, b)'
          /\ wallet' = Both(quote.sell, quote.worst.sells - s,
                            IF step' = UpToUnwrap + 1 THEN calldata.output ELSE quote.buy, b)
    <2>1. wallet' = Both(quote.sell, quote.worst.sells - sold,
                         IF step' = UpToUnwrap + 1 THEN calldata.output ELSE quote.buy, bought)
      BY <1>1, <1>2
    <2>2. sold \in MaySell' /\ bought \in MayBuy'
      BY Framed
    <2>. QED
      BY <1>5, <2>1, <2>2
  <1>7. ExecutingOK'
    BY <1>1, <1>6, Framed DEF ExecutingOK
  <1>. QED
    BY <1>1, <1>4, <1>7, GoesOn

\* A fill that stands moves what it sold to what it bought, and one that does not reverts.
LEMMA TransformFillStep ==
  ASSUME SwapInv, ExecutionInv, TransformFill
  PROVE  ExecutionInv'
  <1>1. /\ IsSwap /\ AnswerOK /\ calldata.feature = "transformERC20" /\ ExecutingOK
        /\ step \in Nat \ {0} /\ short \in BOOLEAN /\ taker \in [Tokens -> Int]
        /\ wallet \in [Tokens -> Nat] /\ phase = "executing"
        /\ step <= Len(calldata.transforms) /\ CurrentTransform.kind = "fill"
        /\ UNCHANGED <<request, quote, calldata, response, taker>> /\ step' = step + 1
    BY DEF TransformFill, Executing, SwapInv, ExecutionInv, SwapTypeOK
  <1>2. PICK fill \in Fills(CurrentTransform, wallet) :
          /\ short' = (short \/ fill.short)
          /\ IF IsFilled(CurrentTransform, wallet, fill)
             THEN /\ wallet' = [wallet EXCEPT ![CurrentTransform.sell] = @ - fill.sold,
                                              ![CurrentTransform.buy] = @ + fill.bought]
                  /\ UNCHANGED phase
             ELSE phase' = "reverted" /\ UNCHANGED wallet
    BY DEF TransformFill
  <1>3. /\ quote.worst.sells \in Nat /\ quote.best.buys \in Nat
        /\ {quote.sell, quote.buy, Between} \subseteq Tokens
        /\ quote.sell # quote.buy /\ request.side \in {"Sell", "Buy"}
        /\ quote.isTwoHop => Between \notin {quote.sell, quote.buy} /\ request.side = "Sell"
    BY <1>1, AnswerFacts DEF Quoted
  <1>4. step <= UpToUnwrap + 1 => taker = Only(calldata.input, -quote.worst.sells)
    BY <1>1 DEF ExecutingOK
  <1>5. CASE /\ step = UpToWrap + 1 /\ ~quote.isTwoHop /\ UpToFill = step
             /\ CurrentTransform = FillQuote(request.side, quote.sell, quote.buy,
                                             SlipOrders(quote), quote.amount)
    <2>1. wallet = Only(quote.sell, quote.worst.sells)
      BY <1>1, <1>5 DEF ExecutingOK
    <2>2. wallet[quote.sell] = quote.worst.sells
      BY <1>3, <2>1 DEF Only
    <2>3. FillStands(fill)
      BY <1>1, <1>3, <1>5, <2>2, SaleFill, PurchaseFill
    <2>4. short' \in BOOLEAN /\ (fill.short => short')
      BY <1>1, <1>2, <2>3 DEF FillStands
    <2>5. CASE IsFilled(CurrentTransform, wallet, fill)
      <3>1. /\ CurrentTransform.sell = quote.sell /\ CurrentTransform.buy = quote.buy
            /\ phase' = "executing" /\ step' = UpToFill + 1
        BY <1>1, <1>2, <1>5, <2>5 DEF FillQuote
      <3>2. /\ fill.sold \in MaySell /\ fill.bought \in MayBuy
            /\ request.side = "Sell" =>
                 /\ fill.sold = quote.worst.sells
                 /\ fill.bought < quote.worst.buys =>
                      short' \/ IsRoundedAway(quote, quote.worst.buys - fill.bought)
            /\ request.side = "Buy" => fill.bought >= quote.worst.buys
        BY <2>3, <2>4, <2>5 DEF FillStands
      <3>3. wallet' = [Only(quote.sell, quote.worst.sells) EXCEPT
                         ![quote.sell] = @ - fill.sold, ![quote.buy] = @ + fill.bought]
        BY <1>2, <2>1, <2>5, <3>1
      <3>4. wallet' = Both(quote.sell, quote.worst.sells - fill.sold, quote.buy, fill.bought)
        BY <1>3, <3>2, <3>3 DEF Only, Both, MaySell, MayBuy
      <3>5. taker = Only(calldata.input, -quote.worst.sells)
        BY <1>1, <1>4, <1>5, UpTo
      <3>. QED
        BY <1>1, <2>4, <3>1, <3>2, <3>4, <3>5, FillsEnd
    <2>6. CASE ~IsFilled(CurrentTransform, wallet, fill)
      <3>1. phase' = "reverted" /\ wallet' = wallet
        BY <1>2, <2>6
      <3>2. short' \/ (Len(quote.orders) > 1 /\ ~quote.isTwoHop)
        BY <2>3, <2>4, <2>6 DEF FillStands
      <3>3. step' \in Nat \ {0}
        BY <1>1
      <3>. QED
        BY <1>1, <2>4, <3>1, <3>2, <3>3 DEF ExecutionInv, SwapTypeOK, UnsettledHasCause
    <2>. QED
      BY <2>5, <2>6
  <1>6. CASE /\ step = UpToWrap + 1 /\ quote.isTwoHop /\ UpToFill = step + 1
             /\ CurrentTransform = FillQuote("Sell", quote.sell, Between,
                                             <<SlipOrders(quote)[1]>>, quote.worst.sells)
    <2>1. wallet = Only(quote.sell, quote.worst.sells)
      BY <1>1, <1>6 DEF ExecutingOK
    <2>2. wallet[quote.sell] = quote.worst.sells
      BY <1>3, <2>1 DEF Only
    <2>3. /\ IsFilled(CurrentTransform, wallet, fill)
          /\ fill.sold = quote.worst.sells /\ fill.bought \in {0, 1}
          /\ fill.short \in BOOLEAN /\ (fill.bought = 0 => fill.short)
      BY <1>1, <1>6, <2>2, FirstHopFill
    <2>4. short' \in BOOLEAN /\ (fill.bought = 0 => short')
      BY <1>1, <1>2, <2>3
    <2>5. wallet' = [Only(quote.sell, quote.worst.sells) EXCEPT
                       ![quote.sell] = @ - quote.worst.sells, ![Between] = @ + fill.bought]
      BY <1>2, <1>6, <2>1, <2>3 DEF FillQuote
    <2>. DEFINE paid == fill.bought
    <2>6. wallet' = Only(Between, paid)
      BY <1>3, <1>6, <2>3, <2>5, Moved
    <2>7. wallet' \in [Tokens -> Nat]
      BY <1>3, <2>3, <2>6, GivenOne
    <2>8. \E p \in {0, 1} : wallet' = Only(Between, p) /\ (p = 0 => short')
      BY <2>3, <2>4, <2>6
    <2>9. phase' = "executing" /\ taker' = Only(calldata.input, -quote.worst.sells)
      BY <1>1, <1>2, <1>4, <1>6, <2>3, UpTo
    <2>. HIDE DEF paid
    <2>10. ExecutingOK'
      <3>1. /\ step' = UpToWrap + 2 /\ UpToFill = UpToWrap + 2 /\ UpToWrap \in Nat
            /\ UpToUnwrap \in Nat /\ UpToFill <= UpToUnwrap
        BY <1>1, <1>6, UpTo
      <3>. QED
        BY <1>1, <2>8, <2>9, <3>1, Framed DEF ExecutingOK
    <2>11. step' \in Nat \ {0} /\ taker' \in [Tokens -> Int]
      BY <1>1
    <2>. QED
      BY <2>4, <2>7, <2>9, <2>10, <2>11, GoesOn
  <1>7. CASE /\ step = UpToWrap + 2 /\ quote.isTwoHop /\ UpToFill = step
             /\ CurrentTransform = FillQuote("Sell", Between, quote.buy,
                                             <<SlipOrders(quote)[2]>>, MAX_UINT256)
    <2>1. PICK paid \in {0, 1} : wallet = Only(Between, paid) /\ (paid = 0 => short)
      BY <1>1, <1>7, UpTo DEF ExecutingOK
    <2>2. wallet[Between] = paid
      BY <1>3, <2>1 DEF Only
    <2>3. /\ IsFilled(CurrentTransform, wallet, fill)
          /\ fill.sold = paid /\ fill.bought \in MayBuy /\ fill.short \in BOOLEAN
          /\ fill.bought < quote.worst.buys =>
               \/ fill.short \/ paid = 0
               \/ IsRoundedAway(quote, quote.worst.buys - fill.bought)
      BY <1>1, <1>7, <2>1, <2>2, SecondHopFill
    <2>4. /\ short' \in BOOLEAN
          /\ fill.bought < quote.worst.buys =>
               short' \/ IsRoundedAway(quote, quote.worst.buys - fill.bought)
      BY <1>1, <1>2, <2>1, <2>3
    <2>. DEFINE bought == fill.bought
                left == quote.worst.sells - quote.worst.sells
    <2>5. wallet' = [Only(Between, paid) EXCEPT ![Between] = @ - paid, ![quote.buy] = @ + bought]
      BY <1>2, <1>7, <2>1, <2>3 DEF FillQuote
    <2>6. bought \in Nat /\ quote.worst.sells \in MaySell /\ left = 0
      BY <1>3, <2>3 DEF MayBuy, MaySell
    <2>. HIDE DEF left, bought
    <2>7. wallet' = Only(quote.buy, bought)
      <3>1. paid \in Int /\ bought \in Int
        BY <2>1, <2>6
      <3>2. Between \in Tokens /\ quote.buy \in Tokens /\ Between # quote.buy
        BY <1>3, <1>7
      <3>. DEFINE x == Between
                  y == quote.buy
      <3>3. wallet' = [Only(x, paid) EXCEPT ![x] = @ - paid, ![y] = @ + bought]
        BY <2>5
      <3>4. x \in Tokens /\ y \in Tokens /\ x # y
        BY <3>2
      <3>. HIDE DEF x, y
      <3>5. wallet' = Only(y, bought)
        BY <3>1, <3>3, <3>4, Moved
      <3>. QED
        BY <3>5 DEF y
    <2>8. wallet' = Both(quote.sell, left, quote.buy, bought)
      BY <1>3, <2>6, <2>7 DEF Only, Both
    <2>9. phase' = "executing" /\ taker = Only(calldata.input, -quote.worst.sells)
      BY <1>1, <1>2, <1>4, <1>7, <2>3, UpTo
    <2>10. step' = UpToFill + 1 /\ request.side = "Sell"
      BY <1>1, <1>3, <1>7
    <2>. QED
      BY <1>1, <2>3, <2>4, <2>6, <2>8, <2>9, <2>10, FillsEnd DEF left, bought
  <1>. QED
    BY <1>1, <1>5, <1>6, <1>7, CurrentStep DEF WethTransform

\* What is left is paid: the taker has what was bought, and what is left of what was sold.
LEMMA TransformPayStep ==
  ASSUME SwapInv, ExecutionInv, TransformPay
  PROVE  ExecutionInv'
  <1>1. /\ IsSwap /\ AnswerOK /\ calldata.feature = "transformERC20" /\ ExecutingOK
        /\ step \in Nat \ {0} /\ short \in BOOLEAN /\ taker \in [Tokens -> Int]
        /\ wallet \in [Tokens -> Nat] /\ phase' = "executing"
        /\ step <= Len(calldata.transforms) /\ CurrentTransform.kind = "pay"
        /\ UNCHANGED <<request, quote, calldata, response, short>> /\ step' = step + 1
        /\ wallet' = [t \in Tokens |-> IF t \in CurrentTransform.tokens THEN 0 ELSE wallet[t]]
        /\ taker' = [t \in Tokens |->
                      IF t \in CurrentTransform.tokens THEN taker[t] + wallet[t] ELSE taker[t]]
    BY DEF TransformPay, Executing, SwapInv, ExecutionInv, SwapTypeOK
  <1>2. /\ step = UpToUnwrap + 1
        /\ {quote.sell, quote.buy, ETH_NATIVE_ADDRESS} \subseteq CurrentTransform.tokens
    BY <1>1, CurrentStep DEF WethTransform, FillQuote
  <1>3. /\ quote.worst.sells \in Nat /\ quote.best.buys \in Nat
        /\ calldata.output \in {quote.buy, ETH_NATIVE_ADDRESS}
    BY <1>1, AnswerFacts DEF Quoted, CallFor
  <1>4. taker = Only(calldata.input, -quote.worst.sells)
    BY <1>1, <1>2 DEF ExecutingOK
  <1>5. PICK sold \in MaySell, bought \in MayBuy :
          /\ Stands(sold, bought)
          /\ wallet = Both(quote.sell, quote.worst.sells - sold, calldata.output, bought)
    BY <1>1, <1>2, UpTo DEF ExecutingOK
  <1>6. quote.worst.sells - sold \in Int /\ bought \in Nat /\ -quote.worst.sells \in Int
    BY <1>3 DEF MaySell, MayBuy
  <1>7. ASSUME NEW t \in Tokens, t \notin CurrentTransform.tokens
        PROVE  wallet[t] = 0
    BY <1>2, <1>3, <1>5, <1>7 DEF Both
  <1>8. wallet' = Nothing
    BY <1>1, <1>7 DEF Nothing
  <1>9. taker' = Paid(sold, bought)
    <2>1. taker' = [t \in Tokens |-> taker[t] + wallet[t]]
      <3>1. \A t \in Tokens : t \notin CurrentTransform.tokens => taker[t] + wallet[t] = taker[t]
        BY <1>1, <1>7
      <3>. QED
        BY <1>1, <3>1
    <2>. DEFINE given == -quote.worst.sells
                left  == quote.worst.sells - sold
    <2>2. \A t \in Tokens : /\ taker[t] = IF t = calldata.input THEN given ELSE 0
                            /\ wallet[t] = (IF t = quote.sell THEN left ELSE 0)
                                           + (IF t = calldata.output THEN bought ELSE 0)
      BY <1>4, <1>5 DEF Only, Both
    <2>3. Paid(sold, bought) = [t \in Tokens |-> (IF t = calldata.input THEN given ELSE 0)
                                                + (IF t = quote.sell THEN left ELSE 0)
                                                + (IF t = calldata.output THEN bought ELSE 0)]
      BY DEF Paid
    <2>4. given \in Int /\ left \in Int /\ bought \in Int
      BY <1>6
    <2>. HIDE DEF given, left
    <2>5. \A t \in Tokens : taker[t] + wallet[t] = (IF t = calldata.input THEN given ELSE 0)
                                                + (IF t = quote.sell THEN left ELSE 0)
                                                + (IF t = calldata.output THEN bought ELSE 0)
      BY <2>2, <2>4
    <2>. QED
      BY <2>1, <2>3, <2>5
  <1>10. wallet' \in [Tokens -> Nat] /\ taker' \in [Tokens -> Int] /\ step' \in Nat \ {0}
    BY <1>1, <1>8 DEF Nothing
  <1>11. ExecutingOK'
    <2>1. /\ step' = UpToUnwrap + 2 /\ UpToUnwrap \in Nat /\ UpToFill \in Nat /\ UpToWrap \in Nat
          /\ UpToFill <= UpToUnwrap /\ UpToWrap < UpToFill
      BY <1>1, <1>2, UpTo
    <2>2. Stands(sold, bought)' /\ sold \in MaySell' /\ bought \in MayBuy'
      BY <1>1, <1>5, Framed DEF Stands
    <2>3. Paid(sold, bought)' = Paid(sold, bought)
      BY <1>1, Framed
    <2>4. /\ step' \in 1..(UpToUnwrap + 2) /\ ~(step' <= UpToUnwrap + 1) /\ ~(step' <= UpToWrap)
          /\ step' # UpToWrap + 1 /\ ~(step' <= UpToFill)
      BY <2>1
    <2>5. /\ UpToWrap' = UpToWrap /\ UpToFill' = UpToFill /\ UpToUnwrap' = UpToUnwrap
      BY <1>1, Framed
    <2>6. \E s \in MaySell', b \in MayBuy' : /\ Stands(s, b)' /\ wallet' = Nothing
                                            /\ taker' = Paid(s, b)'
      BY <1>8, <1>9, <2>2, <2>3
    <2>. QED
      BY <2>1, <2>4, <2>5, <2>6 DEF ExecutingOK
  <1>. QED
    BY <1>1, <1>10, <1>11, GoesOn

\* The taker of a swap that is settled, token by token.
LEMMA PaidTaker ==
  ASSUME IsSwap, AnswerOK, NEW sold \in MaySell, NEW bought \in MayBuy
  PROVE  /\ sold \in Nat /\ bought \in Nat /\ sold <= quote.worst.sells
         /\ Paid(sold, bought) \in [Tokens -> Int]
         /\ calldata.output = OutputToken(quote, request.native) =>
              /\ calldata.output # calldata.input /\ calldata.output # quote.sell
              /\ Paid(sold, bought)[calldata.output] = bought
              /\ request.native.sell =>
                   /\ Paid(sold, bought)[calldata.input] = -quote.worst.sells
                   /\ Paid(sold, bought)[Wrapped] = quote.worst.sells - sold
              /\ ~request.native.sell => Paid(sold, bought)[calldata.input] = -sold
         /\ \A t \in Tokens : Paid(sold, bought)[t] > 0 =>
              \/ t = calldata.output
              \/ t = Wrapped /\ request.native.sell /\ sold < quote.worst.sells
  <1>. DEFINE all == quote.worst.sells
              given == -all
              left == all - sold
              p == Paid(sold, bought)
  <1>1. /\ all \in Nat /\ quote.best.buys \in Nat
        /\ {quote.sell, quote.buy, calldata.input, calldata.output, Wrapped,
            ETH_NATIVE_ADDRESS} \subseteq Tokens
        /\ quote.sell # quote.buy /\ quote.sell # ETH_NATIVE_ADDRESS
        /\ Wrapped # ETH_NATIVE_ADDRESS /\ request.native.sell \in BOOLEAN
        /\ calldata.input = IF request.native.sell THEN ETH_NATIVE_ADDRESS ELSE quote.sell
        /\ request.native.sell => quote.sell = Wrapped /\ quote.buy # ETH_NATIVE_ADDRESS
        /\ request.native.buy => quote.buy = Wrapped /\ ~request.native.sell
    BY AnswerFacts DEF Quoted
  <1>2. sold \in Nat /\ sold <= all /\ bought \in Nat
    BY <1>1 DEF MaySell, MayBuy
  <1>3. p = [t \in Tokens |-> (IF t = calldata.input THEN given ELSE 0)
                              + (IF t = quote.sell THEN left ELSE 0)
                              + (IF t = calldata.output THEN bought ELSE 0)]
    BY DEF Paid
  <1>4. given \in Int /\ left \in Nat /\ given + left = -sold /\ (left > 0 => sold < all)
        /\ ~(given > 0) /\ ~(-sold > 0)
    BY <1>1, <1>2
  <1>. HIDE DEF given, left, all, p
  <1>5. /\ p \in [Tokens -> Int]
        /\ \A t \in Tokens : p[t] = (IF t = calldata.input THEN given ELSE 0)
                                    + (IF t = quote.sell THEN left ELSE 0)
                                    + (IF t = calldata.output THEN bought ELSE 0)
    BY <1>2, <1>3, <1>4
  <1>6. ASSUME calldata.output = OutputToken(quote, request.native)
        PROVE  /\ calldata.output # calldata.input /\ calldata.output # quote.sell
               /\ p[calldata.output] = bought
               /\ request.native.sell => p[calldata.input] = given /\ p[Wrapped] = left
               /\ ~request.native.sell => p[calldata.input] = -sold
    <2>1. calldata.output # calldata.input /\ calldata.output # quote.sell
      BY <1>1, <1>6 DEF OutputToken
    <2>2. p[calldata.output] = bought
      BY <1>1, <1>2, <1>5, <2>1
    <2>3. request.native.sell => p[calldata.input] = given /\ p[Wrapped] = left
      BY <1>1, <1>4, <1>5, <2>1
    <2>4. ~request.native.sell => p[calldata.input] = given + left
      BY <1>1, <1>4, <1>5, <2>1
    <2>. QED
      BY <1>4, <2>1, <2>2, <2>3, <2>4
  <1>7. ASSUME NEW t \in Tokens, p[t] > 0, t # calldata.output
        PROVE  t = Wrapped /\ request.native.sell /\ sold < all
    <2>1. p[t] = (IF t = calldata.input THEN given ELSE 0) + (IF t = quote.sell THEN left ELSE 0)
      BY <1>2, <1>4, <1>5, <1>7
    <2>2. CASE request.native.sell
      BY <1>1, <1>4, <1>7, <2>1, <2>2
    <2>3. CASE ~request.native.sell
      <3>1. p[t] = given + left \/ p[t] = 0
        BY <1>1, <1>4, <2>1, <2>3
      <3>. QED
        BY <1>4, <1>7, <3>1
    <2>. QED
      BY <2>2, <2>3
  <1>. QED
    BY <1>2, <1>5, <1>6, <1>7 DEF given, left, all, p

\* A direct call pays at least the minimum for the worst case, or reverts.
LEMMA SubmitDirectStep ==
  ASSUME SwapInv, ExecutionInv, SubmitDirect
  PROVE  ExecutionInv'
  <1>1. /\ IsSwap /\ AnswerOK
        /\ step = 1 /\ wallet = Nothing /\ taker = Nothing /\ ~short
        /\ UNCHANGED <<request, quote, calldata, response, step, wallet>>
    BY DEF SubmitDirect, SwapInv, ExecutionInv
  <1>2. /\ quote.worst.sells \in Nat /\ quote.best.buys \in Nat /\ quote.worst.buys \in Nat
        /\ quote.worst.buys <= quote.best.buys
        /\ calldata.minBuy = quote.worst.buys /\ calldata.sells = quote.worst.sells
        /\ Taken = quote.worst.sells /\ {calldata.input, calldata.output} \subseteq Tokens
    BY <1>1, AnswerFacts DEF Quoted, CallFor
  <1>3. wallet' \in [Tokens -> Nat] /\ step' \in Nat \ {0}
    BY <1>1 DEF Nothing
  <1>4. CASE /\ \E paid \in {calldata.minBuy, calldata.minBuy + 1} :
                  taker' = [taker EXCEPT ![calldata.input] = @ - Taken,
                                         ![calldata.output] = @ + paid]
             /\ phase' = "settled" /\ UNCHANGED short
    <2>1. PICK paid \in {quote.worst.buys, quote.worst.buys + 1} :
            taker' = [Nothing EXCEPT ![calldata.input] = @ - quote.worst.sells,
                                     ![calldata.output] = @ + paid]
      BY <1>1, <1>2, <1>4
    <2>. DEFINE all == quote.worst.sells
                left == all - all
                given == -all
                a == calldata.input
                b == calldata.output
    <2>2. /\ paid \in Nat /\ all \in Nat /\ left = 0 /\ given \in Int /\ given = 0 - all
          /\ a \in Tokens /\ b \in Tokens
      BY <1>2, <2>1
    <2>3. Paid(all, paid) = [t \in Tokens |-> (IF t = a THEN given ELSE 0)
                                             + (IF t = quote.sell THEN left ELSE 0)
                                             + (IF t = b THEN paid ELSE 0)]
      BY DEF Paid
    <2>. HIDE DEF left, given, a, b, all
    <2>4. /\ Paid(all, paid) \in [Tokens -> Int]
          /\ \A t \in Tokens : Paid(all, paid)[t] = (IF t = a THEN given ELSE 0)
                                                  + (IF t = b THEN paid ELSE 0)
      BY <2>2, <2>3
    <2>5. /\ taker' \in [Tokens -> Int]
          /\ \A t \in Tokens : taker'[t] = (IF t = a THEN given ELSE 0)
                                         + (IF t = b THEN paid ELSE 0)
      <3>1. taker' = [Nothing EXCEPT ![a] = @ - all, ![b] = @ + paid]
        BY <2>1 DEF a, b, all
      <3>2. Nothing \in [Tokens -> Int] /\ \A t \in Tokens : Nothing[t] = 0
        BY DEF Nothing
      <3>. QED
        BY <2>2, <3>1, <3>2
    <2>6. taker' = Paid(all, paid)
      BY <2>4, <2>5
    <2>7. all \in MaySell /\ paid \in MayBuy /\ paid >= quote.worst.buys
      BY <1>2, <2>1 DEF MaySell, MayBuy, all
    <2>8. SettledOK'
      <3>1. Paid(all, paid)' = Paid(all, paid) /\ MaySell' = MaySell /\ MayBuy' = MayBuy
        BY <1>1, Framed DEF all
      <3>. QED
        BY <1>1, <2>6, <2>7, <3>1 DEF SettledOK, Nothing, all
    <2>. QED
      BY <1>1, <1>3, <1>4, <2>5, <2>8 DEF ExecutionInv, SwapTypeOK, UnsettledHasCause
  <1>5. CASE /\ phase' = "reverted" /\ short' = (Taken >= calldata.sells) /\ UNCHANGED taker
    <2>1. short' = TRUE
      <3>1. (Taken >= calldata.sells) = TRUE
        BY <1>2
      <3>. QED
        BY <1>5, <3>1
    <2>2. taker' \in [Tokens -> Int]
      BY <1>1, <1>5 DEF Nothing
    <2>. QED
      BY <1>3, <1>5, <2>1, <2>2 DEF ExecutionInv, SwapTypeOK, UnsettledHasCause
  <1>. QED
    BY <1>4, <1>5 DEF SubmitDirect

\* The minimum is compared with what was bought.
LEMMA FinishStep ==
  ASSUME SwapInv, ExecutionInv, Finish
  PROVE  ExecutionInv'
  <1>1. /\ IsSwap /\ AnswerOK /\ calldata.feature = "transformERC20" /\ ExecutingOK
        /\ step \in Nat \ {0} /\ short \in BOOLEAN /\ taker \in [Tokens -> Int]
        /\ wallet \in [Tokens -> Nat] /\ step > Len(calldata.transforms)
        /\ UNCHANGED <<request, quote, calldata, response, step, wallet, taker, short>>
        /\ phase' = IF taker[calldata.output] >= calldata.minBuy THEN "settled" ELSE "reverted"
    BY DEF Finish, SwapInv, ExecutionInv, SwapTypeOK, executionVars
  <1>2. /\ calldata.transforms = Transforms(quote, request.native)
        /\ calldata.output = OutputToken(quote, request.native)
        /\ calldata.minBuy = quote.worst.buys /\ quote.worst.buys \in Nat
        /\ request.side \in {"Sell", "Buy"}
    BY <1>1, AnswerFacts DEF CallFor, Quoted
  <1>3. step = UpToUnwrap + 2 /\ UpToFill < step
    <2>1. Len(calldata.transforms) = UpToUnwrap + 1
      BY <1>1, <1>2, TransformsByStep DEF AnswerOK
    <2>2. step <= UpToUnwrap + 2
      BY <1>1 DEF ExecutingOK
    <2>3. UpToUnwrap \in Nat /\ UpToFill \in Nat /\ UpToFill <= UpToUnwrap
      BY <1>1, UpTo
    <2>. QED
      BY <1>1, <2>1, <2>2, <2>3
  <1>4. PICK sold \in MaySell, bought \in MayBuy :
          Stands(sold, bought) /\ wallet = Nothing /\ taker = Paid(sold, bought)
    BY <1>1, <1>3 DEF ExecutingOK
  <1>5. taker[calldata.output] = bought /\ bought \in Nat
    BY <1>1, <1>2, <1>4, PaidTaker
  <1>6. CASE bought >= quote.worst.buys
    <2>1. phase' = "settled"
      BY <1>1, <1>2, <1>5, <1>6
    <2>2. SettledOK'
      <3>1. Paid(sold, bought)' = Paid(sold, bought) /\ MaySell' = MaySell /\ MayBuy' = MayBuy
        BY <1>1, Framed
      <3>2. request.side = "Sell" => sold = quote.worst.sells
        BY <1>4 DEF Stands
      <3>. QED
        BY <1>1, <1>4, <1>6, <3>1, <3>2 DEF SettledOK
    <2>. QED
      BY <1>1, <2>1, <2>2 DEF ExecutionInv, SwapTypeOK, UnsettledHasCause
  <1>7. CASE ~(bought >= quote.worst.buys)
    <2>1. phase' = "reverted"
      BY <1>1, <1>2, <1>5, <1>7
    <2>. DEFINE missing == quote.worst.buys - taker[calldata.output]
    <2>2. short \/ (request.side = "Sell" /\ missing > 0 /\ IsRoundedAway(quote, missing))
      BY <1>2, <1>4, <1>5, <1>7 DEF Stands
    <2>3. UnsettledHasCause'
      BY <1>1, <2>1, <2>2 DEF UnsettledHasCause, IsRoundedAway
    <2>. QED
      BY <1>1, <2>1, <2>3 DEF ExecutionInv, SwapTypeOK, UnsettledHasCause
  <1>. QED
    BY <1>6, <1>7

\* A wrap or an unwrap uses neither the proxy nor a quote.
LEMMA SubmitWrapStep ==
  ASSUME SwapInv, ExecutionInv, SubmitWrap
  PROVE  ExecutionInv'
  <1>1. /\ phase = "answered" /\ response.to = "weth" /\ phase' = "settled"
        /\ UNCHANGED <<request, quote, calldata, response, step, wallet, short>>
        /\ step = 1 /\ wallet = Nothing /\ taker = Nothing /\ ~short
        /\ taker' = [taker EXCEPT ![response.input] = @ - response.amount,
                                  ![response.output] = @ + response.amount]
    BY DEF SubmitWrap, ExecutionInv
  <1>2. ~IsSwap
    BY <1>1 DEF SwapInv, AnswerOK, SwapResponse
  <1>3. response.amount \in Nat /\ ~IsSwap'
    BY <1>1, <1>2 DEF SwapInv, IsSwap
  <1>4. taker' \in [Tokens -> Int]
    <2>. DEFINE a == response.input
                b == response.output
                n == response.amount
    <2>1. a \in Tokens /\ b \in Tokens /\ n \in Nat
      BY <1>1, <1>2 DEF SwapInv
    <2>2. taker' = [Nothing EXCEPT ![a] = @ - n, ![b] = @ + n]
      BY <1>1
    <2>. HIDE DEF a, b, n
    <2>3. Nothing \in [Tokens -> Int]
      BY DEF Nothing
    <2>. QED
      BY <2>1, <2>2, <2>3
  <1>5. wallet' \in [Tokens -> Nat] /\ wallet' = Nothing /\ SettledOK'
    BY <1>1, <1>3 DEF SettledOK, Nothing
  <1>. QED
    BY <1>1, <1>4, <1>5 DEF ExecutionInv, SwapTypeOK, UnsettledHasCause

\* Every step keeps the invariant of the transaction.
LEMMA ExecutionStep ==
  ASSUME SwapInv, SwapInv', ExecutionInv, [SwapNext]_swapVars
  PROVE  ExecutionInv'
  <1>1. ASSUME phase \in {"idle", "sampling", "quoted"}, UNCHANGED executionVars,
               phase' \in {"refused", "sampling", "quoted", "failed", "answered"},
               phase' = "failed" => UnsettledHasCause'
        PROVE  ExecutionInv'
    <2>1. /\ step' = 1 /\ wallet' = Nothing /\ taker' = Nothing /\ ~short'
      BY <1>1 DEF ExecutionInv, executionVars, Nothing
    <2>2. short' \in BOOLEAN
      BY <1>1 DEF ExecutionInv, SwapTypeOK, executionVars
    <2>3. phase' \in {"sampling", "quoted"} =>
            /\ request'.sell # request'.buy /\ NULL_ADDRESS \notin {request'.sell, request'.buy}
            /\ request'.slippage \in 0..Whole
      BY DEF SwapInv, IsParsed
    <2>4. wallet' \in [Tokens -> Nat] /\ taker' \in [Tokens -> Int] /\ Nothing' = Nothing
      BY <2>1 DEF Nothing
    <2>5. UnsettledHasCause'
      BY <1>1 DEF UnsettledHasCause
    <2>. QED
      BY <1>1, <2>1, <2>2, <2>3, <2>4, <2>5 DEF ExecutionInv, SwapTypeOK
  <1>2. ASSUME NEW p \in Requests, Receive(p)
        PROVE  ExecutionInv'
    BY <1>1, <1>2 DEF Receive
  <1>3. CASE Optimize
    BY <1>1, <1>3 DEF Optimize
  <1>4. CASE NoLiquidity
    <2>1. quote' = NoQuote
      BY <1>4 DEF NoLiquidity, SwapInv
    <2>. QED
      BY <1>1, <1>4, <2>1 DEF NoLiquidity, UnsettledHasCause
  <1>5. CASE Answer
    <2>1. ASSUME phase' = "failed" PROVE UnsettledHasCause'
      <3>1. /\ IsParsed(request) /\ IsQuoteOf(quote, request) /\ UNCHANGED <<request, quote>>
            /\ \/ quote.units = NoUnits
               \/ TxCalldata(request.chain, quote, request.native) = Throws
        BY <1>5, <2>1 DEF Answer, SwapInv
      <3>2. CASE quote.units = NoUnits
        BY <2>1, <3>1, <3>2 DEF UnsettledHasCause
      <3>3. CASE TxCalldata(request.chain, quote, request.native) = Throws
        <4>1. /\ request.chain = "MAINNET" /\ Len(quote.orders) > 1
              /\ \A i \in DOMAIN quote.orders :
                   quote.orders[i].source \in MULTIPLEX_BATCH_FILL_SOURCES
          BY <3>1, <3>3, CallThrows
        <4>. QED
          BY <2>1, <3>1, <4>1 DEF UnsettledHasCause
      <3>. QED
        BY <3>1, <3>2, <3>3
    <2>. QED
      BY <1>1, <1>5, <2>1 DEF Answer
  <1>6. CASE SwapDone \/ UNCHANGED swapVars
    <2>1. UNCHANGED swapVars
      BY <1>6 DEF SwapDone
    <2>2. /\ UNCHANGED <<request, quote, calldata, response>>
          /\ UNCHANGED <<phase, step, wallet, taker, short>>
      BY <2>1 DEF swapVars
    <2>3. SwapTypeOK' <=> SwapTypeOK
      BY <2>2 DEF SwapTypeOK
    <2>4. ExecutingOK' <=> ExecutingOK
      BY <2>2 DEF ExecutingOK, UpToWrap, UpToFill, UpToUnwrap, MaySell, MayBuy, Paid, Stands,
                    IsRoundedAway
    <2>5. SettledOK' <=> SettledOK
      BY <2>2 DEF SettledOK, IsSwap, MaySell, MayBuy, Paid
    <2>6. UnsettledHasCause' <=> UnsettledHasCause
      BY <2>2 DEF UnsettledHasCause, IsRoundedAway
    <2>. QED
      BY <2>2, <2>3, <2>4, <2>5, <2>6 DEF ExecutionInv
  <1>. QED
    BY <1>2, <1>3, <1>4, <1>5, <1>6, SubmitWrapStep, SubmitDirectStep, SubmitTransformStep,
       TransformWethStep, TransformFillStep, TransformPayStep, FinishStep DEF SwapNext

\* The inductive invariant of the whole of it: every swap that is settled kept the worst
\* case of its quote, and every one that is not has a cause outside.
THEOREM ExecutionInvariant == SwapSpec => [](SwapInv /\ ExecutionInv)
  <1>1. SwapInit => SwapInv /\ ExecutionInv
    <2>. SUFFICES ASSUME SwapInit PROVE SwapInv /\ ExecutionInv
      OBVIOUS
    <2>1. SwapInv
      BY DEF SwapInit, SwapInv, IsSwap, NoCall
    <2>2. wallet \in [Tokens -> Nat] /\ taker \in [Tokens -> Int]
      BY DEF SwapInit, Nothing
    <2>3. phase = "idle" /\ step = 1 /\ wallet = Nothing /\ taker = Nothing /\ short = FALSE
      BY DEF SwapInit
    <2>4. SwapTypeOK
      <3>1. /\ phase \in {"idle", "refused", "sampling", "quoted", "failed", "answered",
                          "executing", "settled", "reverted"}
            /\ phase \notin {"sampling", "quoted"}
        BY <2>3
      <3>2. step \in Nat \ {0}
        BY <2>3, SMT
      <3>3. short \in BOOLEAN
        BY <2>3, Zenon
      <3>. QED
        BY <2>2, <3>1, <3>2, <3>3 DEF SwapTypeOK
    <2>5. UnsettledHasCause
      BY <2>3 DEF UnsettledHasCause
    <2>. QED
      BY <2>1, <2>3, <2>4, <2>5 DEF ExecutionInv
  <1>2. SwapInv /\ ExecutionInv /\ [SwapNext]_swapVars => (SwapInv /\ ExecutionInv)'
    <2>. SUFFICES ASSUME SwapInv, ExecutionInv, [SwapNext]_swapVars
                  PROVE  (SwapInv /\ ExecutionInv)'
      OBVIOUS
    <2>1. SwapInv'
      BY SwapStep
    <2>2. ExecutionInv'
      BY <2>1, ExecutionStep
    <2>. QED
      BY <2>1, <2>2
  <1>. QED
    BY <1>1, <1>2, PTL DEF SwapSpec

\* No token is quoted against itself, and the proxy never owes a token it does not have.
THEOREM SwapTypesAreRight == SwapSpec => []SwapTypeOK
  <1>1. ExecutionInv => SwapTypeOK
    BY DEF ExecutionInv
  <1>. QED
    BY <1>1, ExecutionInvariant, PTL

\* A quote that was made is answered unless decimals are unknown or its sources are those
\* of multiplex.  Its transaction settles unless a source pays less than its order allows,
\* there are several orders to fill, or the orders of a sale ask for less than its minimum
\* by what the rounding of the rate loses, for every amount, slippage and grain.
THEOREM FailuresHaveCause == SwapSpec => []UnsettledHasCause
  <1>1. ExecutionInv => UnsettledHasCause
    BY DEF ExecutionInv
  <1>. QED
    BY <1>1, ExecutionInvariant, PTL

\* What a settled swap has paid, and the tokens of its response.
LEMMA SettledFacts ==
  ASSUME SwapInv, ExecutionInv, phase = "settled", IsSwap, ~MistakesOutput
  PROVE  /\ AnswerOK /\ calldata.output = OutputToken(quote, request.native)
         /\ response.output = calldata.output
         /\ response.guaranteedPrice = Price(request.side, quote.worst, quote.units)
         /\ \E sold \in MaySell, bought \in MayBuy :
              /\ bought >= quote.worst.buys
              /\ request.side = "Sell" => sold = quote.worst.sells
              /\ taker = Paid(sold, bought)
  <1>1. AnswerOK /\ SettledOK
    BY DEF SwapInv, ExecutionInv
  <1>2. calldata.output = OutputToken(quote, request.native) /\ quote.side = request.side
    BY <1>1, AnswerFacts DEF CallFor, MistakesOutput, Quoted
  <1>3. response = SwapResponse(request, quote, calldata)
    BY <1>1 DEF AnswerOK
  <1>4. /\ response.output = OutputToken(quote, request.native)
        /\ response.guaranteedPrice = Price(quote.side, quote.worst, quote.units)
    BY <1>3 DEF SwapResponse
  <1>. QED
    BY <1>1, <1>2, <1>4 DEF SettledOK

\* Nothing is left in the proxy when a transaction settles, and the taker is paid in the
\* tokens of the response.
THEOREM NothingIsLeft == SwapSpec => []NothingStaysBehind
  <1>1. SwapInv /\ ExecutionInv => NothingStaysBehind
    <2>. SUFFICES ASSUME SwapInv, ExecutionInv, phase = "settled" PROVE NothingStaysBehind
      BY DEF NothingStaysBehind
    <2>1. wallet = Nothing
      BY DEF ExecutionInv, SettledOK
    <2>2. ASSUME IsSwap, ~MistakesOutput, NEW t \in Tokens, taker[t] > 0
          PROVE  t = response.output \/ (t = Wrapped /\ request.native.sell /\ request.side = "Buy")
      <3>1. AnswerOK /\ response.output = calldata.output
        BY <2>2, SettledFacts
      <3>2. PICK sold \in MaySell, bought \in MayBuy :
              /\ request.side = "Sell" => sold = quote.worst.sells
              /\ taker = Paid(sold, bought)
        BY <2>2, SettledFacts
      <3>3. \/ t = calldata.output
            \/ t = Wrapped /\ request.native.sell /\ sold < quote.worst.sells
        BY <2>2, <3>1, <3>2, PaidTaker
      <3>4. request.side \in {"Sell", "Buy"} /\ quote.worst.sells \in Nat
        BY <2>2, <3>1, AnswerFacts DEF Quoted
      <3>5. sold < quote.worst.sells => request.side = "Buy"
        BY <3>2, <3>4
      <3>. QED
        BY <3>1, <3>3, <3>5
    <2>. QED
      BY <2>1, <2>2 DEF NothingStaysBehind
  <1>. QED
    BY <1>1, ExecutionInvariant, PTL

\* What is at least as good as two amounts keeps their price, up to half of the last
\* decimal of the quotient it was rounded from; sell and buy are the units.
LEMMA PriceOfSale ==
  ASSUME NEW sells \in Nat \ {0}, NEW buys \in Nat, NEW got \in Nat, got >= buys,
         NEW sell \in Nat \ {0}, NEW buy \in Nat \ {0}
  PROVE  LET price == (HalfUp(buys * sell * Precision, sells * buy) * buy) \div Precision
         IN  2 * Precision * (price * sells - got * sell) <= buy * sells
  <1>. DEFINE n == buys * sell * Precision
              d == sells * buy
              h == HalfUp(n, d)
              m == h * buy
              price == m \div Precision
              wanted == got * sell * Precision
  <1>1. Precision \in Nat \ {0}
    BY UnitsAssumption
  <1>2. n \in Nat /\ d \in Nat \ {0} /\ wanted \in Nat /\ n <= wanted
    <2>1. buys * sell \in Nat /\ got * sell \in Nat /\ buys * sell <= got * sell
      OBVIOUS
    <2>2. n \in Nat /\ wanted \in Nat /\ n <= wanted
      BY <1>1, <2>1
    <2>3. d \in Nat \ {0}
      OBVIOUS
    <2>. QED
      BY <2>2, <2>3
  <1>3. h \in Nat /\ 2 * (d * h) <= 2 * n + d
    <2>. HIDE DEF n, d
    <2>. QED
      BY <1>2, NearestInteger
  <1>. HIDE DEF h
  <1>4. m \in Nat /\ m * sells = d * h
    BY <1>3
  <1>. HIDE DEF m
  <1>5. price \in Nat /\ Precision * price <= m
    BY <1>1, <1>4
  <1>. HIDE DEF price
  <1>6. Precision * price * sells <= m * sells
    BY <1>1, <1>4, <1>5
  <1>7. 2 * (Precision * price * sells) - 2 * wanted <= d
    <2>. DEFINE x == Precision * price * sells
    <2>1. x \in Nat /\ d * h \in Nat /\ x <= d * h
      <3>1. x \in Nat /\ d * h \in Nat
        BY <1>1, <1>2, <1>3, <1>5
      <3>. HIDE DEF x, d
      <3>. QED
        BY <1>4, <1>6, <3>1 DEF x
    <2>2. 2 * x - 2 * wanted <= d
      <3>1. 2 * x <= 2 * (d * h) /\ 2 * n <= 2 * wanted
        BY <1>2, <2>1
      <3>. DEFINE y == d * h
      <3>. HIDE DEF x, y, d, n, wanted
      <3>. QED
        BY <1>2, <1>3, <2>1, <3>1 DEF y
    <2>. QED
      BY <2>2
  <1>8. 2 * Precision * (price * sells - got * sell)
          = 2 * (Precision * price * sells) - 2 * wanted
    BY <1>1, <1>5
  <1>. QED
    BY <1>7, <1>8 DEF price, m, h

\* The same of a purchase, whose price is rounded up.
LEMMA PriceOfPurchase ==
  ASSUME NEW sells \in Nat, NEW buys \in Nat \ {0}, NEW sold \in Nat, sold <= sells,
         NEW got \in Nat, got >= buys, NEW sell \in Nat \ {0}, NEW buy \in Nat \ {0}
  PROVE  LET price == CeilDiv(HalfUp(sells * buy * Precision, buys * sell) * sell, Precision)
         IN  2 * Precision * (sold * buy - price * got) <= sell * got
  <1>. DEFINE n == sells * buy * Precision
              d == buys * sell
              h == HalfUp(n, d)
              m == h * sell
              price == (m + Precision - 1) \div Precision
              given == sold * buy * Precision
  <1>1. Precision \in Nat \ {0}
    BY UnitsAssumption
  <1>2. n \in Nat /\ d \in Nat \ {0} /\ given \in Nat /\ given <= n
    <2>1. sells * buy \in Nat /\ sold * buy \in Nat /\ sold * buy <= sells * buy
      OBVIOUS
    <2>2. n \in Nat /\ given \in Nat /\ given <= n
      BY <1>1, <2>1
    <2>3. d \in Nat \ {0}
      OBVIOUS
    <2>. QED
      BY <2>2, <2>3
  <1>3. h \in Nat /\ 2 * n < 2 * (d * h) + d
    <2>. HIDE DEF n, d
    <2>. QED
      BY <1>2, NearestInteger
  <1>. HIDE DEF h
  <1>4. m \in Nat /\ buys * m = d * h
    BY <1>3
  <1>. HIDE DEF m
  <1>5. price \in Nat /\ m <= Precision * price
    <2>. DEFINE e == m + Precision - 1
    <2>1. e \in Nat
      BY <1>1, <1>4
    <2>2. price \in Nat /\ e < Precision * price + Precision
      <3>. HIDE DEF e
      <3>. QED
        BY <1>1, <2>1 DEF e
    <2>. QED
      BY <1>1, <1>4, <2>2
  <1>. HIDE DEF price
  <1>6. buys * m <= Precision * price * got
    <2>1. buys * m <= got * m
      BY <1>4
    <2>2. got * m <= got * (Precision * price)
      BY <1>1, <1>4, <1>5
    <2>3. got * (Precision * price) = Precision * price * got
      BY <1>1, <1>5
    <2>. DEFINE x == buys * m
                y == got * m
                z == got * (Precision * price)
    <2>4. x \in Nat /\ y \in Nat /\ z \in Nat
      BY <1>1, <1>4, <1>5
    <2>5. x <= z
      <3>. HIDE DEF x, y, z
      <3>. QED
        BY <2>1, <2>2, <2>4 DEF x, y, z
    <2>. QED
      BY <2>3, <2>5
  <1>7. 2 * given - 2 * (Precision * price * got) <= sell * got
    <2>. DEFINE x == Precision * price * got
                y == sell * got
    <2>1. x \in Nat /\ y \in Nat /\ d * h \in Nat /\ d <= y
      BY <1>1, <1>2, <1>3, <1>5
    <2>2. d * h <= x
      BY <1>4, <1>6
    <2>. HIDE DEF x, y, d, n, given
    <2>3. 2 * given - 2 * x <= y
      BY <1>2, <1>3, <2>1, <2>2
    <2>. QED
      BY <2>3 DEF x, y
  <1>8. 2 * Precision * (sold * buy - price * got)
          = 2 * given - 2 * (Precision * price * got)
    BY <1>1, <1>5
  <1>. QED
    BY <1>7, <1>8 DEF price, m, h, CeilDiv

\* The price a settled swap was guaranteed is the price it got, or better, up to half of the
\* last decimal of the quotient in the price, for every route, payment of its sources,
\* rounding and refund.
THEOREM PriceIsKept == SwapSpec => []GuaranteedPriceIsEnforced
  <1>1. SwapInv /\ ExecutionInv => GuaranteedPriceIsEnforced
    <2>. DEFINE price == response.guaranteedPrice
                units == quote.units
                sells == quote.worst.sells
                buys  == quote.worst.buys
    <2>. SUFFICES ASSUME SwapInv, ExecutionInv, phase = "settled", IsSwap, ~MistakesOutput,
                         NEW got, got = taker[response.output]
                  PROVE  IF request.side = "Sell"
                         THEN 2 * Precision * (price * Spent - got * units.sell)
                                <= units.buy * Spent
                         ELSE 2 * Precision * (Spent * units.buy - price * got)
                                <= units.sell * got
      BY DEF GuaranteedPriceIsEnforced
    <2>1. /\ AnswerOK /\ calldata.output = OutputToken(quote, request.native)
          /\ response.output = calldata.output
          /\ price = Price(request.side, quote.worst, units)
      BY SettledFacts
    <2>2. PICK sold \in MaySell, bought \in MayBuy :
            /\ bought >= quote.worst.buys
            /\ request.side = "Sell" => sold = quote.worst.sells
            /\ taker = Paid(sold, bought)
      BY SettledFacts
    <2>3. /\ sold \in Nat /\ bought \in Nat /\ sold <= quote.worst.sells
          /\ taker[response.output] = bought
          /\ request.native.sell => /\ taker[calldata.input] = -quote.worst.sells
                                    /\ taker[Wrapped] = quote.worst.sells - sold
          /\ ~request.native.sell => taker[calldata.input] = -sold
      BY <2>1, <2>2, PaidTaker
    <2>4. /\ sells \in Nat \ {0} /\ buys \in Nat
          /\ request.native.sell \in BOOLEAN /\ request.side \in {"Sell", "Buy"}
          /\ request.side = "Buy" => buys # 0
      BY <2>1, AnswerFacts DEF Quoted
    <2>5. Spent = sold
      <3>1. CASE request.native.sell
        BY <2>3, <2>4, <3>1 DEF Spent
      <3>2. CASE ~request.native.sell
        BY <2>3, <2>4, <3>2 DEF Spent
      <3>. QED
        BY <3>1, <3>2
    <2>6. units.sell \in Nat \ {0} /\ units.buy \in Nat \ {0}
      <3>1. units \in KnownUnits
        BY <2>1, AnswerFacts DEF Quoted, AnswerOK
      <3>. QED
        BY <3>1, UnitsAssumption DEF KnownUnits
    <2>7. got = bought /\ got >= buys
      BY <2>2, <2>3
    <2>8. CASE request.side = "Sell"
      <3>1. price = (HalfUp(buys * units.sell * Precision, sells * units.buy) * units.buy)
                      \div Precision
        BY <2>1, <2>8 DEF Price
      <3>2. Spent = sells
        BY <2>2, <2>5, <2>8
      <3>. HIDE DEF price, units, sells, buys
      <3>3. 2 * Precision * (price * sells - got * units.sell) <= units.buy * sells
        BY <2>3, <2>4, <2>6, <2>7, <3>1, PriceOfSale
      <3>. QED
        BY <2>8, <3>2, <3>3
    <2>9. CASE request.side = "Buy"
      <3>1. price = CeilDiv(HalfUp(sells * units.buy * Precision, buys * units.sell) * units.sell,
                            Precision)
        BY <2>1, <2>9 DEF Price
      <3>2. Spent = sold /\ sold <= sells
        BY <2>3, <2>5
      <3>. HIDE DEF price, units, sells, buys
      <3>3. 2 * Precision * (sold * units.buy - price * got) <= units.sell * got
        BY <2>3, <2>4, <2>6, <2>7, <2>9, <3>1, <3>2, PriceOfPurchase
      <3>. QED
        BY <2>9, <3>2, <3>3
    <2>. QED
      BY <2>4, <2>8, <2>9
  <1>. QED
    BY <1>1, ExecutionInvariant, PTL
=============================================================================
