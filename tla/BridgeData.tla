----------------------------- MODULE BridgeData -----------------------------
(***************************************************************************)
(* What an order of a source tells the contract that fills it: the name of *)
(* its bridge, and the bridge data, encoded from the fill data by the      *)
(* coder of the source.  A coder throws when the values do not fit its     *)
(* types, and a field that was never set fits none.                        *)
(***************************************************************************)
EXTENDS BridgeSources, Integers

Address == "address"

UniswapV2Bridges ==
  {"UniswapV2", "SushiSwap", "CryptoCom", "Linkswap", "PancakeSwap", "PancakeSwapV2",
   "BakerySwap", "ApeSwap", "CafeSwap", "CheeseSwap", "JulSwap", "QuickSwap", "ComethSwap",
   "Dfyn", "WaultSwap", "Polydex", "ShibaSwap", "JetSwap"}

CurveBridges ==
  {"Curve", "CurveV2", "Swerve", "SnowSwap", "Nerve", "Belt", "Ellipsis", "Smoothy",
   "Saddle", "XSigma", "FirebirdOneSwap", "IronSwap", "ACryptos"}

\* The sources getBridgeSourceToBridgeProtocol has an arm for.
Bridged == BridgeSource \ {"MultiBridge", "MultiHop"}

\* The name that goes with the protocol: that of the source, but for three of them.
BridgeName(s) ==
  CASE s = "LiquidityProvider" -> "LP"
    [] s = "XSigma" -> "xSigma"
    [] s = "ACryptos" -> "ACryptoS"
    [] OTHER -> s

\* encodeBridgeSourceId: protocol and name share 32 bytes.
EncodesSourceId(name) == Len(name) <= 16

\* The names in use are short enough.  The provers do not count the letters of a
\* string, and TLC does.
ASSUME NamesAssumption == \A s \in Bridged : EncodesSourceId(BridgeName(s))

-----------------------------------------------------------------------------
(* Bridge data *)

\* The fields createBridgeDataForBridgeOrder encodes, in order.  Of a pool of a
\* Curve-like source it takes four members.
FieldsOf(s) ==
  CASE s \in CurveBridges -> <<"pool", "pool.selector", "pool.sellIdx", "pool.buyIdx">>
    [] s \in {"Balancer", "Cream", "Mooniswap", "Shell", "Component"} -> <<"poolAddress">>
    [] s = "BalancerV2" -> <<"vault", "poolId">>
    [] s = "Bancor" -> <<"networkAddress", "path">>
    [] s \in UniswapV2Bridges -> <<"router", "tokenAddressPath">>
    [] s = "Kyber" -> <<"networkProxy", "hint">>
    [] s = "Dodo" -> <<"helperAddress", "poolAddress", "isSellBase">>
    [] s = "DodoV2" -> <<"poolAddress", "isSellBase">>
    [] s = "LiquidityProvider" -> <<"poolAddress", "(sellToken)">>
    [] s \in {"Uniswap", "Eth2Dai", "MStable"} -> <<"router">>
    [] s = "MakerPsm" -> <<"psmAddress", "gemTokenAddress">>
    [] s = "UniswapV3" -> <<"router", "uniswapPath">>
    [] s = "KyberDmm" -> <<"router", "poolsPath", "tokenAddressPath">>
    [] s = "Lido" -> <<"stEthTokenAddress">>
    [] s = "Clipper" -> <<"poolAddress", "(NULL_BYTES)">>

\* The types of the fields (the interfaces of the fill data).  A field in
\* parentheses is made on the spot.
FieldType(f) ==
  CASE f \in {"tokenAddressPath", "poolsPath", "path"} -> "address[]"
    [] f \in {"hint", "uniswapPath", "(sellToken)", "(NULL_BYTES)"} -> "bytes"
    [] f = "isSellBase" -> "bool"
    [] f = "poolId" -> "bytes32"
    [] f = "pool.selector" -> "bytes4"
    [] f \in {"pool.sellIdx", "pool.buyIdx"} -> "int128"
    [] OTHER -> Address

\* BRIDGE_ABI_CODER.
CoderOf(s) ==
  CASE s \in {"LiquidityProvider", "Kyber", "Clipper", "UniswapV3"} -> <<Address, "bytes">>
    [] s = "Dodo" -> <<Address, Address, "bool">>
    [] s = "DodoV2" -> <<Address, "bool">>
    [] s \in CurveBridges -> <<Address, "bytes4", "int128", "int128">>
    [] s \in UniswapV2Bridges \union {"Bancor"} -> <<Address, "address[]">>
    [] s \in {"Shell", "Component", "Mooniswap", "Eth2Dai", "MStable", "Balancer", "Cream",
              "Uniswap", "Lido"} -> <<Address>>
    [] s = "MakerPsm" -> <<Address, Address>>
    [] s = "BalancerV2" -> <<Address, "bytes32">>
    [] s = "KyberDmm" -> <<Address, "address[]", "address[]">>

\* What there is to encode: a member of a pool is there when the pool is, and what
\* is made on the spot always.
Given(f, fields) ==
  \/ f \in fields
  \/ f \in {"pool.selector", "pool.sellIdx", "pool.buyIdx"} /\ "pool" \in fields
  \/ f \in {"(sellToken)", "(NULL_BYTES)"}

\* createFinalDexOrderFillDataFromCollapsedFill: of the paths sampled on Uniswap V3
\* the order keeps one.
FinalFields(s, fields) ==
  IF s = "UniswapV3" /\ "pathAmounts" \in fields
  THEN {"router", "tokenAddressPath", "uniswapPath"}
  ELSE fields

\* The bridge order of a source can be encoded from these fields.
Encodes(s, fields) ==
  /\ s \in Bridged /\ EncodesSourceId(BridgeName(s))
  /\ \A i \in DOMAIN FieldsOf(s) : Given(FieldsOf(s)[i], FinalFields(s, fields))
  /\ [i \in DOMAIN FieldsOf(s) |-> FieldType(FieldsOf(s)[i])] = CoderOf(s)
=============================================================================
